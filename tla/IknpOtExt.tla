------------------------------ MODULE IknpOtExt ------------------------------
(***************************************************************************)
(* The IKNP 1-out-of-2 OT extension of                                     *)
(* src/verse/two-choose-one/iknp/iknp_ot_ext.cpp: an IknpOtExtSender and   *)
(* an IknpOtExtReceiver built from the same VerseParams, installed with    *)
(* the results of base OTs and then called, each by its own program, any   *)
(* number of times.  The two share nothing but the byte stream, and stay   *)
(* in step only because each call draws the same number of blocks from     *)
(* generators that the base OTs seeded.                                    *)
(***************************************************************************)
EXTENDS Seeds

CONSTANTS Params,       \* the VerseParams the parties may be built from
          MaxBaseOts    \* bound: the number of base OT runs

ASSUME ParamsAssumption ==
    \A p \in Params : /\ p.base_ot_sizes \in Nat \ {0}
                      /\ p.ext_ot_sizes \in Nat \ {0}

ASSUME BoundsAssumption == MaxBaseOts \in Nat

VARIABLES params,        \* the VerseParams both objects were created with
          baseOts,       \* the results of the base OTs run so far
          sInstalled,    \* how many of them the sender was given
          rInstalled,    \* how many of them the receiver was given
          sPrng,         \* IknpOtExtSender::prng_
          base_choices,  \* IknpOtExtSender::base_choices_
          rPrng,         \* IknpOtExtReceiver::prng_
          net,           \* the matrices sent and not yet received
          sent,          \* the messages of each send that returned
          received,      \* the choices and messages of each receive that
                         \* returned, and the position its pads start from
          sStatus,       \* how the last call of the sender ended ...
          rStatus        \* ... and of the receiver

sVars == <<sInstalled, sPrng, base_choices, sent, sStatus>>
rVars == <<rInstalled, rPrng, received, rStatus>>
vars == <<params, baseOts, net, sVars, rVars>>

-----------------------------------------------------------------------------
(* Generators and matrices.                                                *)

Rows == params.base_ot_sizes
Cols == params.ext_ot_sizes \div W

\* The column loop and matrix_transpose: block x % rows of output[x / rows].
Row(matrix, x) == Transposed([i \in Bit |-> matrix[i][x \div W]])[x % W]

MaskedByPads(t0, t1, choices) == \* variant: the choices are left out
    [j \in 0 .. Cols - 1 |-> t0[j] (+) t1[j]]
\* A row of the matrix the receiver sends, from its two pads and the choices.
Masked(t0, t1, choices) ==
    [j \in 0 .. Cols - 1 |-> (t0[j] (+) t1[j]) (+) choices[j + 1]]

\* The sender's row: its pad, corrected by the row received if its bit is 1.
Corrected(t, bit, row) ==
    IF bit = 1 THEN [j \in 0 .. Cols - 1 |-> t[j] (+) row[j]] ELSE t

Tweaked(block, x) == Hash[block (+) IntBlock(x)]

-----------------------------------------------------------------------------
(* Initial states: the constructors.                                       *)

Init == /\ params \in Params
        /\ baseOts = <<>>
        /\ sInstalled = 0 /\ rInstalled = 0
        /\ sPrng = <<>> /\ base_choices = <<>> /\ rPrng = <<>>
        /\ net = <<>>
        /\ sent = <<>> /\ received = <<>>
        /\ sStatus = "ready" /\ rStatus = "ready"

\* The programs run a base OT, each party keeping its half of the result.
RunBaseOt ==
    /\ Len(baseOts) < MaxBaseOts
    /\ \E b \in BaseOts : /\ Len(b.pairs) = params.base_ot_sizes
                          /\ baseOts' = Append(baseOts, b)
    /\ UNCHANGED <<params, net, sVars, rVars>>

-----------------------------------------------------------------------------
(* The sender.                                                             *)

SenderSetBaseOtsAnew ==          \* variant: the generators go to the front, too
    /\ sInstalled < Len(baseOts)
    /\ LET base == baseOts[sInstalled + 1]
       IN  /\ sPrng' = CreatedChosen(base) \o sPrng
           /\ base_choices' = base.choices \o base_choices
    /\ sInstalled' = sInstalled + 1
    /\ UNCHANGED <<params, baseOts, net, sent, sStatus, rVars>>

\* set_base_ots: generators go to the back of prng_, choices to the front of
\* base_choices_.
SenderSetBaseOts ==
    /\ sInstalled < Len(baseOts)
    /\ LET base == baseOts[sInstalled + 1]
       IN  /\ sPrng' = sPrng \o CreatedChosen(base)
           /\ base_choices' = base.choices \o base_choices
    /\ sInstalled' = sInstalled + 1
    /\ UNCHANGED <<params, baseOts, net, sent, sStatus, rVars>>

SenderRejectsBlock ==            \* variant: >= for >
    \/ params.base_ot_sizes >= W
    \/ params.ext_ot_sizes % W # 0
SenderRejects == \/ params.base_ot_sizes > W
                 \/ params.base_ot_sizes % W # 0
                 \/ params.ext_ot_sizes % W # 0

\* send of parameters it does not support: it throws before it receives.
SenderThrow ==
    /\ sInstalled > 0
    /\ sStatus = "ready"
    /\ SenderRejects
    /\ sStatus' = "threw"
    /\ UNCHANGED <<params, baseOts, net, sInstalled, sPrng, base_choices, sent, rVars>>

ExtMatrix(matrix) ==
    [i \in 0 .. Rows - 1 |->
        Corrected(Drawn(sPrng[i + 1], Cols), BitFromBlocks(base_choices, i), matrix[i])]

\* The generators after the row loop, which draws a row from the first "rows".
SenderGeneratorsIfChosen ==      \* variant: a row is drawn only if the bit is 1
    [g \in DOMAIN sPrng |->
        IF g <= Rows /\ BitFromBlocks(base_choices, g - 1) = 1 THEN Advanced(sPrng[g], Cols) ELSE sPrng[g]]
SenderGenerators ==
    [g \in DOMAIN sPrng |-> IF g <= Rows THEN Advanced(sPrng[g], Cols) ELSE sPrng[g]]

PairHalf(row, x) ==              \* variant: messages[i][1] is not written
    [b \in {0} |-> Tweaked(row, x)]
PairUntweaked(row, x) ==         \* variant: the second hash forgets the tweak
    [b \in 0 .. 1 |-> IF b = 0 THEN Tweaked(row, x)
                               ELSE Hash[row (+) Head(base_choices)]]
Pair(row, x) ==
    [b \in 0 .. 1 |-> IF b = 0 THEN Tweaked(row, x)
                               ELSE Tweaked(row (+) Head(base_choices), x)]

\* send: it blocks until the whole matrix is there; the rest is local.
SenderSend ==
    /\ sInstalled > 0
    /\ sStatus = "ready"
    /\ ~SenderRejects
    /\ net # <<>>
    /\ LET ext_matrix == ExtMatrix(Head(net))
       IN  sent' = Append(sent, [x \in 0 .. params.ext_ot_sizes - 1 |->
                                    Pair(Row(ext_matrix, x), x)])
    /\ sPrng' = SenderGenerators
    /\ net' = Tail(net)
    /\ UNCHANGED <<params, baseOts, sInstalled, base_choices, sStatus, rVars>>

-----------------------------------------------------------------------------
(* The receiver.                                                           *)

ReceiverSetBaseOtsAnew ==        \* variant: the generators go to the front
    /\ rInstalled < Len(baseOts)
    /\ rPrng' = CreatedPairs(baseOts[rInstalled + 1]) \o rPrng
    /\ rInstalled' = rInstalled + 1
    /\ UNCHANGED <<params, baseOts, net, received, rStatus, sVars>>
ReceiverSetBaseOts ==
    /\ rInstalled < Len(baseOts)
    /\ rPrng' = rPrng \o CreatedPairs(baseOts[rInstalled + 1])
    /\ rInstalled' = rInstalled + 1
    /\ UNCHANGED <<params, baseOts, net, received, rStatus, sVars>>

ReceiverRejectsExt ==            \* variant: the size of the base OT is not checked
    params.ext_ot_sizes % W # 0
ReceiverRejects == \/ params.base_ot_sizes % W # 0
                   \/ params.ext_ot_sizes % W # 0

ReceiverThrow ==
    /\ rInstalled > 0
    /\ rStatus = "ready"
    /\ ReceiverRejects
    /\ rStatus' = "threw"
    /\ UNCHANGED <<params, baseOts, net, rInstalled, rPrng, received, sVars>>

Pads(b) == [i \in 0 .. Rows - 1 |-> Drawn(rPrng[i + 1][b], Cols)]

SendMatrix(choices) ==
    [i \in 0 .. Rows - 1 |-> Masked(Pads(0)[i], Pads(1)[i], choices)]

ReceiverGeneratorsRewound ==     \* variant: a call restarts the generators
    [g \in DOMAIN rPrng |->
        IF g <= Rows THEN [b \in 0 .. 1 |-> Created(rPrng[g][b].seed)] ELSE rPrng[g]]
ReceiverGenerators ==
    [g \in DOMAIN rPrng |->
        IF g <= Rows THEN [b \in 0 .. 1 |-> Advanced(rPrng[g][b], Cols)] ELSE rPrng[g]]

\* What every receive does to the generators and the stream.
DrawAndSend(choices) ==
    /\ net' = Append(net, SendMatrix(choices))
    /\ rPrng' = ReceiverGenerators

CanReceive ==
    /\ rInstalled > 0
    /\ rStatus = "ready"
    /\ ~ReceiverRejects
    /\ rPrng[1][0].pos + Cols <= StreamLen

\* receive with as many rows as a block has bits.
ReceiverReceive(choices) ==
    /\ CanReceive
    /\ params.base_ot_sizes = W
    /\ DrawAndSend(choices)
    /\ received' = Append(received,
            [from     |-> rPrng[1][0].pos,
             choices  |-> choices,
             messages |-> [x \in 0 .. params.ext_ot_sizes - 1 |->
                              Tweaked(Row(Pads(0), x), x)]])
    /\ UNCHANGED <<params, baseOts, rInstalled, rStatus, sVars>>

\* receive with more rows: nothing rejects them, the matrix is sent, and
\* matrix_transpose, told that its blocks have "rows" bits each, then reads and
\* writes beyond input and output[i].  Nothing is said of this party afterwards.
ReceiverOverrun(choices) ==
    /\ CanReceive
    /\ params.base_ot_sizes # W
    /\ DrawAndSend(choices)
    /\ rStatus' = "undefined"
    /\ UNCHANGED <<params, baseOts, rInstalled, received, sVars>>

-----------------------------------------------------------------------------
(* The specification.                                                      *)

Choices == [1 .. Cols -> Block]

SenderStep == SenderSetBaseOts \/ SenderThrow \/ SenderSend

ReceiverStep == \/ ReceiverSetBaseOts
                \/ ReceiverThrow
                \/ \E choices \in Choices : \/ ReceiverReceive(choices)
                                            \/ ReceiverOverrun(choices)

Next == RunBaseOt \/ SenderStep \/ ReceiverStep

Spec == Init /\ [][Next]_vars

\* Each program goes on: after the base OT it installs the result and calls
\* send or receive in a loop (verse_bench.cpp, iknp_bench).
Fairness == WF_vars(RunBaseOt) /\ WF_vars(SenderStep) /\ WF_vars(ReceiverStep)

FairSpec == Spec /\ Fairness

-----------------------------------------------------------------------------
(* Properties.                                                             *)

Matrix == [0 .. Rows - 1 -> [0 .. Cols - 1 -> Block]]
Transfers == 0 .. params.ext_ot_sizes - 1
Status == {"ready", "threw", "undefined"}

\* Every variable keeps its type: generators with a seed and a position, whole
\* matrices on the stream, one pair or one message per transfer of a call.
TypeOK ==
    /\ params \in Params
    /\ baseOts \in Seq(BaseOts)
    /\ sInstalled \in 0 .. Len(baseOts)
    /\ rInstalled \in 0 .. Len(baseOts)
    /\ sPrng \in Seq(Generator)
    /\ base_choices \in Seq(Block)
    /\ rPrng \in Seq([0 .. 1 -> Generator])
    /\ net \in Seq(Matrix)
    /\ sent \in Seq([Transfers -> [0 .. 1 -> Block]])
    /\ received \in Seq([from : Nat, choices : Choices, messages : [Transfers -> Block]])
    /\ sStatus \in Status
    /\ rStatus \in Status

\* "The receiver gets chosen messages indexed by choices": what the k-th receive
\* returned for a transfer is, of the pair the k-th send returned for it, the
\* message the choice bit names.  It depends on base OT, generators, matrix,
\* transposition and tweaks agreeing across the parties and the calls.
ChosenMessages ==
    \A k \in DOMAIN sent \cap DOMAIN received :
        \A x \in Transfers :
            received[k].messages[x] = sent[k][x][BitFromBlocks(received[k].choices, x)]

\* This promise lasts until the sender is given a second base OT: set_base_ots of
\* the receiver, which appends generators, may be called as often as one likes,
\* before, between and after calls, and not match the sender's.
ChosenUntilRenewed == sInstalled <= 1 => ChosenMessages

\* Where the receiver's pads for its k-th call start, past calls included.
PadsFrom(k) == IF k \in DOMAIN received THEN received[k].from ELSE rPrng[1][0].pos

\* However far the receiver runs ahead of the sender, the generators the sender
\* will use next stand where those of the receiver stood when it made the
\* matrix at the head of the stream: the parties draw one row per generator
\* and call, and no matrix is lost, repeated or overtaken (send and receive,
\* the generate calls of the row loops).
StreamsInStep ==
    sInstalled > 0 /\ rInstalled > 0 /\ rStatus # "undefined" =>
        /\ Len(net) = Len(received) - Len(sent)
        /\ \A i \in 1 .. Rows : sPrng[i].pos = PadsFrom(Len(sent) + 1)
        /\ \A i \in 1 .. Rows, b \in 0 .. 1 : rPrng[i][b].pos = PadsFrom(Len(received) + 1)

\* However often set_base_ots was called on either side, in whatever order, the
\* generator the sender uses for a row has the seed of the one of the receiver's
\* two that the choice bit of the first base OT names.
SeedsMatch ==
    sInstalled > 0 /\ rInstalled > 0 =>
        \A i \in 1 .. Rows :
            sPrng[i].seed = rPrng[i][BitFromBlocks(baseOts[1].choices, i - 1)].seed

\* No block of a generator masks the choices of two calls: the ranges that the
\* calls of receive drew are disjoint, also across set_base_ots.
PadsFresh ==
    \A k, l \in DOMAIN received :
        k < l => received[k].from + Cols <= received[l].from

\* A call one party refuses by an exception leaves nothing on the stream that
\* the other waits for or that the next protocol would read ("IKNP is only
\* supported by 128-bit base-OT": the checks of send and of receive agree).
RejectedAlike ==
    sStatus = "threw" \/ rStatus = "threw" =>
        net = <<>> /\ sent = <<>> /\ received = <<>>

\* The calls of the receiver as RandomOt sees them.
Outcomes == [k \in DOMAIN received |->
                [choices  |-> [x \in Transfers |-> BitFromBlocks(received[k].choices, x)],
                 messages |-> received[k].messages]]

Abstract == INSTANCE RandomOt WITH
    Message  <- Block,
    Sizes    <- {p.ext_ot_sizes : p \in Params},
    received <- Outcomes

\* The extension implements a random OT: each return of send or receive is a
\* step of RandomOt, and nothing else the parties do is visible there.
ImplementsRandomOt == Abstract!Spec

\* With parameters both support, every receive is answered: the sender returns
\* as many times as the receiver and the stream is drained; with others both
\* throw.  No party is left blocked in recv_data for good.
AllCallsReturn ==
    <>[](IF params.base_ot_sizes = W /\ params.ext_ot_sizes % W = 0
         THEN /\ net = <<>>
              /\ Len(sent) = StreamLen \div Cols
              /\ Len(received) = StreamLen \div Cols
         ELSE sStatus = "threw" /\ rStatus = "threw")
=============================================================================
