----------------------------- MODULE VerseSession -----------------------------
(***************************************************************************)
(* The programs that run whole sessions: verse_bench (bench/bench.cpp,     *)
(* bench/verse_bench.cpp) and verse_example (example/).  Party 0 and party *)
(* 1 each run a base OT and the calls of an extension, several protocols   *)
(* after one another in the case "all", over one connection: a stream of   *)
(* bytes in each direction that says nothing of where a message ends or    *)
(* which call it belongs to.  The sizes 128, 512 and 1024 of the programs  *)
(* are W, 4 W and ExtOts here, 16 bytes of a block BlockLen.               *)
(***************************************************************************)
EXTENDS Integers, Sequences

CONSTANTS W,            \* bits of a block
          BlockLen,     \* sizeof(block)
          PointLen,     \* kEccPointLen
          ExtOts,       \* the VerseParams::ext_ot_sizes of the programs
          Shown,        \* the OT indices that kkrt_ot_example encodes for
          Capacity,     \* bytes the connection holds in each direction
          Commands,     \* command lines of verse_bench
          Machine,      \* the address of the machine that each party runs on
          MaxRounds,    \* bound: the examples that a user selects
          MaxThrows     \* bound: the exceptions

ASSUME SizesAssumption == /\ W \in Nat \ {0} /\ PointLen \in Nat \ {0}
                          /\ BlockLen \in 1 .. W
                          /\ ExtOts \in Nat \ {0} /\ ExtOts % W = 0
                          /\ Shown \in 0 .. ExtOts
                          /\ Capacity \in Nat \ {0}

\* The protocols, and the cases that a command line names or a user selects.
Jobs == {"np_ot", "iknp_ot", "kkrt_ot"}
Cases == Jobs \cup {c.case : c \in Commands}

CommandLine == [main : {"verse_bench", "verse_example"}, case : Cases, number : Nat,
                hosts : Seq(STRING), ports : Seq(Nat)]

ASSUME CommandsAssumption ==
    /\ Commands \subseteq CommandLine
    /\ MaxRounds \in Nat \ {0} /\ MaxThrows \in Nat

VARIABLES command,  \* the command line of each party, or the example it selected
          round,    \* how many connections the parties have made
          script,   \* what each party does on the connection, in order
          pc,       \* where in it each party is
          moved,    \* the bytes of the present transfer that are done
          sent,     \* get_bytes_sent of each party's Network
          got,      \* get_bytes_received
          reached,  \* history: sent and got when the party came to a place
          held,     \* sizes of its objects: base OTs, prng_, q_mat
          throws    \* how many exceptions there were

vars == <<command, round, script, pc, moved, sent, got, reached, held, throws>>

Party == 0 .. 1
Other(p) == 1 - p

Least(a, b) == IF a < b THEN a ELSE b

-----------------------------------------------------------------------------
(* What a call of a protocol sends and receives, on either side.           *)

\* An operation of a script: a transfer, or one that does not use the network.
Op(do, what, bytes) ==
    [do |-> do, what |-> what, bytes |-> bytes, job |-> "none", call |-> 0]

NpSend(b) == <<Op("send", "keys", 2 * b * PointLen), Op("recv", "offers", b * PointLen)>>

NpReceiveEager(b) ==             \* variant: the offers do not wait for the keys
    <<Op("send", "offers", b * PointLen), Op("recv", "keys", 2 * b * PointLen)>>
NpReceiveHalf(b) ==              \* variant: it reads one key of each instance
    <<Op("recv", "keys", b * PointLen), Op("send", "offers", b * PointLen)>>
NpReceive(b) == <<Op("recv", "keys", 2 * b * PointLen), Op("send", "offers", b * PointLen)>>

IknpSend(b, e) == <<Op("recv", "matrix", (b * (e \div W)) * BlockLen)>>

IknpReceive(b, e) == <<Op("send", "matrix", (b * (e \div W)) * BlockLen)>>

Pad(n) == IF n % W # 0 THEN (n + W) - (n % W) ELSE n

KkrtSend(b, n) == <<Op("recv", "matrix", (b * (Pad(n) \div W)) * BlockLen)>>

KkrtReceivePadded(b, n) ==       \* variant: it pads a number that needs no padding
    <<Op("send", "matrix", ((n + W - (n % W)) * (b \div W)) * BlockLen)>>
KkrtReceive(b, n) == <<Op("send", "matrix", (Pad(n) * (b \div W)) * BlockLen)>>

-----------------------------------------------------------------------------
(* The programs.                                                           *)

\* Sizes of the programs' parameters and vectors, in instances and blocks.
BaseOtSizes(job) == IF job = "kkrt_ot" THEN 4 * W ELSE W
BaseChoicesOne(job) == 1         \* variant: one block in every bench
BaseChoices(job) == IF job = "kkrt_ot" THEN 4 ELSE 1
ExtChoices(job) == IF job = "kkrt_ot" THEN ExtOts ELSE ExtOts \div BlockLen

\* ops in a loop of n iterations.
Calls(n, ops) ==
    [k \in 1 .. n * Len(ops) |-> [ops[((k - 1) % Len(ops)) + 1] EXCEPT
                                     !.call = ((k - 1) \div Len(ops)) + 1]]

\* The base OT in the reverse direction, its installation, n calls.
Extended(p, b, n, sending, receiving) ==
    IF p = 0
    THEN NpReceive(b) \o <<Op("local", "set_base_ots", 0)>> \o Calls(n, sending)
    ELSE NpSend(b) \o <<Op("local", "set_base_ots", 0)>> \o Calls(n, receiving)

NpBody(p, n) == Calls(n, IF p = 0 THEN NpSend(W) ELSE NpReceive(W))

IknpBody(p, n) == Extended(p, W, n, IknpSend(W, ExtOts), IknpReceive(W, ExtOts))

KkrtBody(p, n) == Extended(p, 4 * W, n, KkrtSend(4 * W, ExtOts), KkrtReceive(4 * W, ExtOts))

Body(job, p, n) == CASE job = "np_ot" -> NpBody(p, n)
                     [] job = "iknp_ot" -> IknpBody(p, n)
                     [] job = "kkrt_ot" -> KkrtBody(p, n)

InJob(job, ops) == [k \in DOMAIN ops |-> [ops[k] EXCEPT !.job = job]]

\* The name of the case in the log line at the end of a bench.
EndName(job) == IF job = "iknp_ot" THEN "np_ot" ELSE job

\* np_ot_bench, iknp_ot_bench, kkrt_ot_bench, with a log line at both ends.
Bench(job, p, n) ==
    InJob(job, <<Op("begin", job, 0)>> \o Body(job, p, n) \o <<Op("end", EndName(job), 0)>>)

\* The examples once they are connected: one call, then the messages are shown;
\* the sender of KKRT encodes them first.
NpExample(p) == NpBody(p, 1) \o <<Op("local", "show", 0)>>

IknpExample(p) == IknpBody(p, 1) \o <<Op("local", "show", 0)>>

KkrtExample(p) ==
    KkrtBody(p, 1) \o <<Op("local", IF p = 0 THEN "encode" ELSE "show", 0)>>

\* main of example.cpp: the selection of a user.
Example(job, p) == InJob(job, CASE job = "np_ot" -> NpExample(p)
                                [] job = "iknp_ot" -> IknpExample(p)
                                [] job = "kkrt_ot" -> KkrtExample(p))

\* main of bench.cpp: the case.  One that it does not know runs nothing.
BenchMain(case, p, n) ==
    IF case = "all"
    THEN Bench("np_ot", p, n) \o Bench("iknp_ot", p, n) \o Bench("kkrt_ot", p, n)
    ELSE IF case \in Jobs THEN Bench(case, p, n) ELSE <<>>

-----------------------------------------------------------------------------
(* Connections.                                                            *)

\* The lists of a command line, or their defaults.
Hosts(c) == IF c.hosts = <<>> THEN <<"127.0.0.1", "127.0.0.1">> ELSE c.hosts
Ports(c) == IF c.ports = <<>> THEN <<8089, 8090>> ELSE c.ports

Refused(c) == Len(Hosts(c)) # Len(Ports(c)) \/ Len(Hosts(c)) # 2

\* net_params of a party: element i of a list of the code is i + 1 here.
NetParams(p, c) ==
    IF p = 0
    THEN [remote_addr |-> Hosts(c)[1], remote_port |-> Ports(c)[2], local_port |-> Ports(c)[1]]
    ELSE [remote_addr |-> Hosts(c)[2], remote_port |-> Ports(c)[1], local_port |-> Ports(c)[2]]

\* A party finds the other one at the address and port it was given.
FindsOther(p) ==
    LET own == NetParams(p, command[p])
        peer == NetParams(Other(p), command[Other(p)])
    IN  own.remote_addr = Machine[Other(p)] /\ own.remote_port = peer.local_port

Idle(p) == pc[p] > Len(script[p])

Zero == [p \in Party |-> 0]
Nothing == [base |-> 0, prng |-> 0, q_mat |-> 0]
Fresh == [sent |-> 0, got |-> 0]

Init == /\ command \in [Party -> Commands]
        /\ round = 0
        /\ script = [p \in Party |-> <<>>]
        /\ pc = [p \in Party |-> 1]
        /\ moved = Zero /\ sent = Zero /\ got = Zero
        /\ reached = [p \in Party |-> <<Fresh>>]
        /\ held = [p \in Party |-> Nothing]
        /\ throws = 0

\* Both parties are in NetFactory::build: the streams begin empty.
Connect(scripts) ==
    /\ script' = scripts
    /\ round' = round + 1
    /\ pc' = [p \in Party |-> 1]
    /\ moved' = Zero /\ sent' = Zero /\ got' = Zero
    /\ reached' = [p \in Party |-> <<Fresh>>]
    /\ held' = [p \in Party |-> Nothing]
    /\ UNCHANGED throws

\* verse_bench: it connects once, for the case of its command line.
BenchConnect ==
    /\ round = 0
    /\ \A p \in Party : command[p].main = "verse_bench" /\ ~Refused(command[p])
    /\ \A p \in Party : FindsOther(p)
    /\ Connect([p \in Party |-> BenchMain(command[p].case, p, command[p].number)])
    /\ UNCHANGED command

\* verse_example: each user selects an example, which connects anew.  A party
\* that is done waits in build, or for its user, while the other is not.
ExampleConnect ==
    /\ round < MaxRounds
    /\ throws = 0
    /\ \A p \in Party : command[p].main = "verse_example" /\ Idle(p)
    /\ \E selection \in [Party -> Jobs] :
          /\ command' = [p \in Party |-> [command[p] EXCEPT !.case = selection[p]]]
          /\ Connect([p \in Party |-> Example(selection[p], p)])

-----------------------------------------------------------------------------
(* The steps of a party.                                                   *)

Present(p) == script[p][pc[p]]

Counts(p) == [sent |-> sent[p], got |-> got[p]]

\* The sizes of a party's objects after an operation.
Holding(h, op) ==
    CASE op.do = "begin" -> Nothing
      [] op.what = "offers" -> [h EXCEPT !.base = BaseOtSizes(op.job)]
      [] op.what = "set_base_ots" -> [h EXCEPT !.prng = @ + h.base]
      [] op.do = "recv" /\ op.what = "matrix" /\ op.job = "kkrt_ot" ->
             [h EXCEPT !.q_mat = Pad(ExtOts)]
      [] OTHER -> h

\* The operation is complete and the party comes to the next one.
Complete(p) ==
    /\ pc' = [pc EXCEPT ![p] = @ + 1]
    /\ moved' = [moved EXCEPT ![p] = 0]
    /\ reached' = [reached EXCEPT ![p] = Append(@, [sent |-> sent'[p], got |-> got'[p]])]
    /\ held' = [held EXCEPT ![p] = Holding(@, Present(p))]

\* n bytes of the present transfer are done, perhaps the last ones.
Progress(p, n) ==
    IF moved[p] + n = Present(p).bytes
    THEN Complete(p)
    ELSE /\ moved' = [moved EXCEPT ![p] = @ + n]
         /\ UNCHANGED <<pc, reached, held>>

InFlight(p) == sent[p] - got[Other(p)]

\* How many bytes of the present transfer the connection takes, or gives.
Room(p) == Least(Present(p).bytes - moved[p], Capacity - InFlight(p))
Ready(p) == Least(Present(p).bytes - moved[p], InFlight(Other(p)))

\* send_data: it puts as many bytes into the connection as fit, waits, and
\* returns when all are there.
SendData(p) ==
    /\ ~Idle(p)
    /\ Present(p).do = "send"
    /\ \E n \in 1 .. Room(p) :
          /\ sent' = [sent EXCEPT ![p] = @ + n]
          /\ UNCHANGED got
          /\ Progress(p, n)
    /\ UNCHANGED <<command, round, script, throws>>

\* recv_data: it takes what bytes there are until it has as many as it was
\* asked for.
RecvData(p) ==
    /\ ~Idle(p)
    /\ Present(p).do = "recv"
    /\ \E n \in 1 .. Ready(p) :
          /\ got' = [got EXCEPT ![p] = @ + n]
          /\ UNCHANGED sent
          /\ Progress(p, n)
    /\ UNCHANGED <<command, round, script, throws>>

\* An operation without transfer: the log lines, set_base_ots, encode.
RunLocal(p) ==
    /\ ~Idle(p)
    /\ Present(p).do \notin {"send", "recv"}
    /\ UNCHANGED <<sent, got>>
    /\ Complete(p)
    /\ UNCHANGED <<command, round, script, throws>>

AfterJobBegun(p) ==              \* variant: the next job without its first operation
    LET ends == {k \in pc[p] .. Len(script[p]) + 1 :
                    k = Len(script[p]) + 1 \/ script[p][k].job # Present(p).job}
    IN  1 + CHOOSE k \in ends : \A l \in ends : k <= l
\* The first place after the present job.
AfterJob(p) ==
    LET ends == {k \in pc[p] .. Len(script[p]) + 1 :
                    k = Len(script[p]) + 1 \/ script[p][k].job # Present(p).job}
    IN  CHOOSE k \in ends : \A l \in ends : k <= l

ThrowInLoop(p) ==                \* variant: the handler is inside the loop of calls
    /\ ~Idle(p)
    /\ moved[p] = 0 /\ Present(p).do # "end"
    /\ throws < MaxThrows
    /\ throws' = throws + 1
    /\ pc' = [pc EXCEPT ![p] = @ + 1]
    /\ reached' = [reached EXCEPT ![p] = Append(@, Counts(p))]
    /\ UNCHANGED <<command, round, script, moved, sent, got, held>>
\* An exception leaves the job between two transfers.  A bench catches it and
\* main goes on to the next one over the same connection; an example does not,
\* which ends the program.  reached has no place in between: the rest of the
\* job did not run.
Throw(p) ==
    /\ ~Idle(p)
    /\ moved[p] = 0 /\ Present(p).do # "end"
    /\ throws < MaxThrows
    /\ throws' = throws + 1
    /\ pc' = [pc EXCEPT ![p] = AfterJob(p)]
    /\ reached' = [reached EXCEPT ![p] = [k \in 1 .. AfterJob(p) |->
                      IF k \in DOMAIN @ THEN @[k] ELSE Counts(p)]]
    /\ UNCHANGED <<command, round, script, moved, sent, got, held>>

-----------------------------------------------------------------------------
(* The specification.                                                      *)

Step(p) == SendData(p) \/ RecvData(p) \/ RunLocal(p)

Next == \/ BenchConnect
        \/ ExampleConnect
        \/ \E p \in Party : Step(p) \/ Throw(p)

Spec == Init /\ [][Next]_vars

\* A process that can go on does; nothing is assumed of the users, of the
\* connection being made or of the order of the two processes' steps.
Fairness == \A p \in Party : WF_vars(Step(p))

FairSpec == Spec /\ Fairness

-----------------------------------------------------------------------------
(* Properties.                                                             *)

Place == [sent : Nat, got : Nat]
Holdings == [base : Nat, prng : Nat, q_mat : Nat]
Do == {"send", "recv", "local", "begin", "end"}
What == {"keys", "offers", "matrix", "set_base_ots", "encode", "show"} \cup Jobs
Operation == [do : Do, what : What, bytes : Nat, job : Jobs, call : Nat]

\* Every variable keeps its type; a party is at a place of its script, has part of
\* a transfer done only in a transfer, and no more is in flight than the
\* connection holds.
TypeOK ==
    /\ command \in [Party -> CommandLine]
    /\ round \in Nat /\ throws \in Nat
    /\ script \in [Party -> Seq(Operation)]
    /\ pc \in [Party -> Nat]
    /\ moved \in [Party -> Nat] /\ sent \in [Party -> Nat] /\ got \in [Party -> Nat]
    /\ reached \in [Party -> Seq(Place)]
    /\ held \in [Party -> Holdings]
    /\ \A p \in Party :
          /\ pc[p] \in 1 .. Len(script[p]) + 1
          /\ Len(reached[p]) = pc[p]
          /\ moved[p] > 0 => ~Idle(p) /\ moved[p] < Present(p).bytes
          /\ InFlight(p) \in 0 .. Capacity

\* The transfer at place k is complete (an exception can leave places out).
Transferred(p, k) ==
    /\ k < pc[p]
    /\ \/ /\ script[p][k].do = "send"
          /\ reached[p][k + 1].sent = reached[p][k].sent + script[p][k].bytes
       \/ /\ script[p][k].do = "recv"
          /\ reached[p][k + 1].got = reached[p][k].got + script[p][k].bytes

\* The message of a completed receive is one that the other party has sent, all of
\* it and nothing else, for the same call of the same protocol.
ReadsWholeAt(p, k) ==
    script[p][k].do = "recv" /\ Transferred(p, k) =>
        \E l \in DOMAIN script[Other(p)] :
            /\ script[Other(p)][l] = [script[p][k] EXCEPT !.do = "send"]
            /\ Transferred(Other(p), l)
            /\ reached[Other(p)][l].sent = reached[p][k].got

ReadsWhole(p) == \A k \in DOMAIN script[p] : ReadsWholeAt(p, k)

Agreed == /\ command[0].case = command[1].case
          /\ command[0].main = "verse_bench" => command[0].number = command[1].number

\* A transfer that an exception of the party has left out, at a place it has passed.
LeftOut(p, k) ==
    k < pc[p] /\ script[p][k].do \in {"send", "recv"} /\ ~Transferred(p, k)

\* Neither party has left out a transfer up to place k.
WholeUntil(k) ==
    \A p \in Party : \A l \in DOMAIN script[p] : l <= k => ~LeftOut(p, l)

\* Two parties that run the same case the same number of times read only whole
\* messages of the call they are in, although several protocols in both directions
\* follow one another on a stream without any framing.  An exception does no harm
\* to what comes before the first transfer that it leaves out, also to what the
\* other party has still to read of it.
MessagesWhole ==
    Agreed => \A p \in Party : \A k \in DOMAIN script[p] :
                  WholeUntil(k) => ReadsWholeAt(p, k)

\* The case of one protocol keeps to whole messages even when the parties run it
\* a different number of times or one of them leaves it by an exception: no
\* other protocol follows whose bytes could be taken for those of a call.
OneCaseContained ==
    command[0].case = command[1].case /\ command[0].case # "all" =>
        \A p \in Party : ReadsWhole(p)

\* When both parties have logged the end of a case, what one logs as sent is what
\* the other logs as received, in both directions: the case has read all it sent.
\* An exception in a later case does not change it.
LogsAgree ==
    Agreed =>
        \A p \in Party : \A k \in DOMAIN script[p] :
            k < pc[p] /\ k < pc[Other(p)] /\ script[p][k].do = "end" /\ WholeUntil(k) =>
                reached[p][k].sent = reached[Other(p)][k].got

\* What a call demands of its caller and does not check, or checks by throwing,
\* holds whenever a program makes one, after exceptions too: choices enough,
\* generators for every row, at least one row, and rows to encode.
DutiesMet ==
    \A p \in Party : ~Idle(p) =>
        LET op == Present(p)
            rows == BaseOtSizes(op.job)
        IN  /\ op.do = "recv" /\ op.what = "keys" => W * BaseChoices(op.job) >= rows
            /\ op.what = "matrix" => rows > 0 /\ rows % W = 0 /\ held[p].prng >= rows
            /\ op.do = "send" /\ op.what = "matrix" /\ op.job = "iknp_ot" =>
                   ExtChoices(op.job) >= ExtOts \div W
            /\ op.what = "encode" => held[p].q_mat >= Shown

\* What the guards of SendData, RecvData and RunLocal demand.
CanStep(p) == /\ ~Idle(p)
              /\ Present(p).do = "send" => Room(p) > 0
              /\ Present(p).do = "recv" => Ready(p) > 0

\* The two programs never wait for each other, also where a message is larger than
\* what the connection holds: until both are at their end, there are bytes for one
\* of them to receive, or there is room for what it sends.
NeverStuck ==
    Agreed /\ throws = 0 => (\A p \in Party : Idle(p)) \/ (\E p \in Party : CanStep(p))

\* Once connected the two programs come to their end, unless one of them throws:
\* also where a message is larger than what the connection holds, they do not
\* wait for each other to read.
BothFinish ==
    \A r \in 1 .. MaxRounds :
        round = r /\ Agreed ~> throws > 0 \/ \A p \in Party : Idle(p)

\* The lines "begin" and "end" around a case name the same case.
LogBracketed ==
    \A p \in Party : \A k \in 1 .. pc[p] - 1 :
        script[p][k].do = "end" =>
            \E b \in 1 .. k : /\ script[p][b].do = "begin"
                              /\ script[p][b].what = script[p][k].what
                              /\ script[p][b].job = script[p][k].job

\* The lists "of all party" name the machines of party 0 and of party 1: with
\* them each party connects to the other one.
ListsFindOther ==
    \A p \in Party :
        Hosts(command[p]) = <<Machine[0], Machine[1]>> /\ ~Refused(command[p])
            /\ command[0] = command[1] => FindsOther(p)
=============================================================================
