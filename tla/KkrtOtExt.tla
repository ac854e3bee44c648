------------------------------ MODULE KkrtOtExt ------------------------------
(***************************************************************************)
(* The KKRT 1-out-of-n OT extension of                                     *)
(* src/verse/n-choose-one/kkrt/kkrt_nco_ot_ext.cpp: a KkrtNcoOtExtSender   *)
(* and a KkrtNcoOtExtReceiver, installed with the results of base OTs and  *)
(* then called any number of times, with a number of transfers that may    *)
(* differ from call to call and is padded to whole blocks.  After a send   *)
(* the sender answers encode from q_mat until the next send replaces it.   *)
(***************************************************************************)
EXTENDS Seeds

CONSTANTS BaseOtSizes,  \* the VerseParams::base_ot_sizes of the parties
          Sizes,        \* the numbers of transfers a call may ask for
          Input,        \* the blocks a receiver chooses
          MaxBaseOts    \* bound: the number of base OT runs

ASSUME SizesAssumption == BaseOtSizes \subseteq Nat \ {0} /\ Sizes \subseteq Nat \ {0}

ASSUME InputAssumption == Input \subseteq Block

ASSUME BoundsAssumption == MaxBaseOts \in Nat

VARIABLES base_ot_sizes, \* NcoOtExtSender::base_ot_sizes_, the receiver's as well
          baseOts,       \* the results of the base OTs run so far
          sInstalled,    \* how many of them the sender was given
          rInstalled,    \* how many of them the receiver was given
          sPrng,         \* KkrtNcoOtExtSender::prng_
          base_choices,  \* KkrtNcoOtExtSender::base_choices_
          q_mat,         \* KkrtNcoOtExtSender::q_mat
          rPrng,         \* KkrtNcoOtExtReceiver::prng_
          net,           \* the matrices sent and not yet received
          sends,         \* how many calls of send returned
          received,      \* the choices and messages of each receive that
                         \* returned, and the position its pads start from
          sStatus,       \* how the last call of the sender ended ...
          rStatus        \* ... and of the receiver

sVars == <<sInstalled, sPrng, base_choices, q_mat, sends, sStatus>>
rVars == <<rInstalled, rPrng, received, rStatus>>
vars == <<base_ot_sizes, baseOts, net, sVars, rVars>>

-----------------------------------------------------------------------------
(* Sizes, code words and matrices.                                         *)

Rows == base_ot_sizes
Threshold == base_ot_sizes \div W      \* blocks in a row of a matrix

\* ext_ot_sizes_: whole blocks of transfers.
Pad(n) == IF n % W # 0 THEN (n + W) - (n % W) ELSE n
Cols(n) == Pad(n) \div W

\* The code word of an input, block by block.
CodeWord(input, j) == Hash[input (+) IntBlock(j)] (+) input

\* Transfers beyond the choices are made with the choice 0.
PaddedChoice(choices, x) == IF x < Len(choices) THEN choices[x + 1] ELSE {}

\* The nested loops around matrix_transpose: row x of the result is bit x of
\* every generator's output, in blocks.
RowMatrix(columns, n) ==
    [x \in 0 .. Pad(n) - 1 |-> [j \in 0 .. Threshold - 1 |->
        Transposed([k \in Bit |-> columns[j * W + k][x \div W]])[x % W]]]

\* The hash chain over the blocks of a row, tweaked with the index.
Chain(row, x) ==
    LET out[j \in 0 .. Threshold] ==
            IF j = 0 THEN {} ELSE Hash[(out[j - 1] (+) row[j - 1]) (+) IntBlock(x)]
    IN  out[Threshold]

-----------------------------------------------------------------------------
(* Initial states: the constructors.                                       *)

Init == /\ base_ot_sizes \in BaseOtSizes
        /\ baseOts = <<>>
        /\ sInstalled = 0 /\ rInstalled = 0
        /\ sPrng = <<>> /\ base_choices = <<>> /\ q_mat = <<>> /\ rPrng = <<>>
        /\ net = <<>>
        /\ sends = 0 /\ received = <<>>
        /\ sStatus = "ready" /\ rStatus = "ready"

\* The programs run a base OT, each party keeping its half of the result.
RunBaseOt ==
    /\ Len(baseOts) < MaxBaseOts
    /\ \E b \in BaseOts : /\ Len(b.pairs) = base_ot_sizes
                          /\ baseOts' = Append(baseOts, b)
    /\ UNCHANGED <<base_ot_sizes, net, sVars, rVars>>

-----------------------------------------------------------------------------
(* The sender.                                                             *)

\* set_base_ots: generators go to the back of prng_, choices to the front of
\* base_choices_.
SenderSetBaseOts ==
    /\ sInstalled < Len(baseOts)
    /\ LET base == baseOts[sInstalled + 1]
       IN  /\ sPrng' = sPrng \o CreatedChosen(base)
           /\ base_choices' = base.choices \o base_choices
    /\ sInstalled' = sInstalled + 1
    /\ UNCHANGED <<base_ot_sizes, baseOts, net, q_mat, sends, sStatus, rVars>>

Rejected == base_ot_sizes % W # 0

SenderThrow ==
    /\ sInstalled > 0
    /\ sStatus = "ready"
    /\ Rejected
    /\ sStatus' = "threw"
    /\ UNCHANGED <<base_ot_sizes, baseOts, net, sInstalled, sPrng, base_choices, q_mat,
                   sends, rVars>>

\* The sender's rows, corrected where the bits of base_choices_ are 1.
QMatrix(matrix, n) ==
    LET q == RowMatrix([i \in 0 .. Rows - 1 |-> Drawn(sPrng[i + 1], Cols(n))], n)
    IN  [x \in 0 .. Pad(n) - 1 |-> [j \in 0 .. Threshold - 1 |->
            q[x][j] (+) (matrix[x][j] \cap base_choices[j + 1])]]

SenderGeneratorsUnpadded(n) ==   \* variant: the generators move by whole blocks asked for
    [g \in DOMAIN sPrng |-> IF g <= Rows THEN Advanced(sPrng[g], n \div W) ELSE sPrng[g]]
SenderGenerators(n) ==
    [g \in DOMAIN sPrng |-> IF g <= Rows THEN Advanced(sPrng[g], Cols(n)) ELSE sPrng[g]]

CanSendUnpadded(n) ==            \* variant: it waits for the rows asked for only
    /\ sInstalled > 0
    /\ sStatus = "ready"
    /\ ~Rejected
    /\ net # <<>>
    /\ DOMAIN Head(net) = 0 .. n - 1
\* A send of n transfers blocks until its Pad(n) rows are there.
CanSend(n) ==
    /\ sInstalled > 0
    /\ sStatus = "ready"
    /\ ~Rejected
    /\ net # <<>>
    /\ DOMAIN Head(net) = 0 .. Pad(n) - 1

SenderSendKeepingRows(n) ==      \* variant: q_mat is not overwritten where it has rows
    /\ CanSend(n)
    /\ LET q == QMatrix(Head(net), n)
       IN  q_mat' = [x \in DOMAIN q |-> IF x \in DOMAIN q_mat THEN q_mat[x] ELSE q[x]]
    /\ sPrng' = SenderGenerators(n)
    /\ net' = Tail(net)
    /\ sends' = sends + 1
    /\ UNCHANGED <<base_ot_sizes, baseOts, sInstalled, base_choices, sStatus, rVars>>
\* send.  The two programs agree on the size of a call up to the padding.
SenderSend(n) ==
    /\ CanSend(n)
    /\ q_mat' = QMatrix(Head(net), n)
    /\ sPrng' = SenderGenerators(n)
    /\ net' = Tail(net)
    /\ sends' = sends + 1
    /\ UNCHANGED <<base_ot_sizes, baseOts, sInstalled, base_choices, sStatus, rVars>>

EncodeUnmasked(x, input) ==      \* variant: the code word is not cut to base_choices_
    Chain([j \in 0 .. Threshold - 1 |-> CodeWord(input, j) (+) q_mat[x][j]], x)
\* encode: it reads the state that the last send left and changes nothing.
Encode(x, input) ==
    Chain([j \in 0 .. Threshold - 1 |->
              (base_choices[j + 1] \cap CodeWord(input, j)) (+) q_mat[x][j]], x)

-----------------------------------------------------------------------------
(* The receiver.                                                           *)

ReceiverSetBaseOts ==
    /\ rInstalled < Len(baseOts)
    /\ rPrng' = rPrng \o CreatedPairs(baseOts[rInstalled + 1])
    /\ rInstalled' = rInstalled + 1
    /\ UNCHANGED <<base_ot_sizes, baseOts, net, received, rStatus, sVars>>

ReceiverThrow ==
    /\ rInstalled > 0
    /\ rStatus = "ready"
    /\ Rejected
    /\ rStatus' = "threw"
    /\ UNCHANGED <<base_ot_sizes, baseOts, net, rInstalled, rPrng, received, sVars>>

\* row_mat0 and row_mat1 of a call with n choices.
PadRows(b, n) == RowMatrix([i \in 0 .. Rows - 1 |-> Drawn(rPrng[i + 1][b], Cols(n))], n)

RowMatUnpadded(choices) ==       \* variant: no rows beyond the choices
    LET n == Len(choices)
    IN  [x \in 0 .. n - 1 |-> [j \in 0 .. Threshold - 1 |->
            CodeWord(choices[x + 1], j) (+) (PadRows(0, n)[x][j] (+) PadRows(1, n)[x][j])]]
\* row_mat, the matrix the receiver sends.
RowMat(choices) ==
    LET n == Len(choices)
    IN  [x \in 0 .. Pad(n) - 1 |-> [j \in 0 .. Threshold - 1 |->
            CodeWord(PaddedChoice(choices, x), j) (+) (PadRows(0, n)[x][j] (+) PadRows(1, n)[x][j])]]

ReceiverGeneratorsUnpadded(n) == \* variant: they move by whole blocks asked for
    [g \in DOMAIN rPrng |->
        IF g <= Rows THEN [b \in 0 .. 1 |-> Advanced(rPrng[g][b], n \div W)] ELSE rPrng[g]]
ReceiverGenerators(n) ==
    [g \in DOMAIN rPrng |->
        IF g <= Rows THEN [b \in 0 .. 1 |-> Advanced(rPrng[g][b], Cols(n))] ELSE rPrng[g]]

\* receive: nothing in it blocks.
ReceiverReceive(choices) ==
    LET n == Len(choices)
    IN  /\ rInstalled > 0
        /\ rStatus = "ready"
        /\ ~Rejected
        /\ rPrng[1][0].pos + Cols(n) <= StreamLen
        /\ net' = Append(net, RowMat(choices))
        /\ rPrng' = ReceiverGenerators(n)
        /\ received' = Append(received,
               [from     |-> rPrng[1][0].pos,
                choices  |-> choices,
                messages |-> [x \in 0 .. n - 1 |-> Chain(PadRows(0, n)[x], x)]])
        /\ UNCHANGED <<base_ot_sizes, baseOts, rInstalled, rStatus, sVars>>

-----------------------------------------------------------------------------
(* The specification.                                                      *)

Choices == UNION {[1 .. n -> Input] : n \in Sizes}

SenderStep == SenderSetBaseOts \/ SenderThrow \/ \E n \in Sizes : SenderSend(n)

ReceiverStep == \/ ReceiverSetBaseOts
                \/ ReceiverThrow
                \/ \E choices \in Choices : ReceiverReceive(choices)

Next == RunBaseOt \/ SenderStep \/ ReceiverStep

Spec == Init /\ [][Next]_vars

\* Each program goes on: after the base OT it installs the result and calls
\* send or receive in a loop (verse_bench.cpp, kkrt_ot_bench).
Fairness == WF_vars(RunBaseOt) /\ WF_vars(SenderStep) /\ WF_vars(ReceiverStep)

FairSpec == Spec /\ Fairness

-----------------------------------------------------------------------------
(* Properties.                                                             *)

Matrices == {[0 .. Pad(n) - 1 -> [0 .. Threshold - 1 -> Block]] : n \in Sizes}
Messages == UNION {[0 .. n - 1 -> Block] : n \in Sizes}
Status == {"ready", "threw"}

\* Every variable keeps its type: the matrices have whole blocks of rows, the
\* results one message per choice.
TypeOK ==
    /\ base_ot_sizes \in BaseOtSizes
    /\ baseOts \in Seq(BaseOts)
    /\ sInstalled \in 0 .. Len(baseOts)
    /\ rInstalled \in 0 .. Len(baseOts)
    /\ sPrng \in Seq(Generator)
    /\ base_choices \in Seq(Block)
    /\ q_mat = <<>> \/ \E M \in Matrices : q_mat \in M
    /\ rPrng \in Seq([0 .. 1 -> Generator])
    /\ net \in Seq(UNION Matrices)
    /\ sends \in Nat
    /\ received \in Seq([from : Nat, choices : Choices, messages : Messages])
    /\ \A k \in DOMAIN received :
           DOMAIN received[k].messages = 0 .. Len(received[k].choices) - 1
    /\ sStatus \in Status
    /\ rStatus \in Status

\* Where the receiver's pads for its k-th call start, past calls included.
PadsFrom(k) == IF k \in DOMAIN received THEN received[k].from ELSE rPrng[1][0].pos

\* "The OT message encoding the input": for every transfer of the call the
\* sender made last, and whatever the receiver went on to do, encode maps the
\* receiver's choice to the receiver's message.  The rows of q_mat are those of
\* this call and of no earlier, longer one.
EncodesChosen ==
    sends > 0 =>
        LET call == received[sends]
        IN  /\ DOMAIN q_mat = 0 .. Pad(Len(call.choices)) - 1
            /\ \A x \in DOMAIN call.messages :
                   Encode(x, call.choices[x + 1]) = call.messages[x]

\* With calls of different sizes, too, the sender's generators stand where the
\* receiver's stood when it made the matrix at the head of the stream, and that
\* matrix has the rows that its call was padded to.
StreamsInStep ==
    sInstalled > 0 /\ rInstalled > 0 =>
        /\ Len(net) = Len(received) - sends
        /\ \A i \in 1 .. Rows : sPrng[i].pos = PadsFrom(sends + 1)
        /\ \A k \in DOMAIN net :
               DOMAIN net[k] = 0 .. Pad(Len(received[sends + k].choices)) - 1

\* No block of a generator is drawn for two calls: the padded ranges of the
\* calls of receive follow one another.
PadsFresh ==
    \A k, l \in DOMAIN received :
        k < l => received[k].from + Cols(Len(received[k].choices)) <= received[l].from

\* A matrix on the stream is one that the sender's next call can take: a call of
\* as many transfers as the receiver's finds all its rows, and the sender has not
\* thrown where the receiver went on.
NeverStuck ==
    net # <<>> /\ sInstalled > 0 => CanSend(Len(received[sends + 1].choices))

\* What RandomNcoOt sees: the answers encode would give now, and the calls of
\* the receiver.
Oracle == [x \in DOMAIN q_mat |-> [input \in Block |-> Encode(x, input)]]
Outcomes == [k \in DOMAIN received |->
                [choices  |-> [x \in DOMAIN received[k].messages |-> received[k].choices[x + 1]],
                 messages |-> received[k].messages]]

Abstract == INSTANCE RandomNcoOt WITH
    Input    <- Block,
    Message  <- Block,
    calls    <- sends,
    oracle   <- Oracle,
    received <- Outcomes

\* The extension implements a random 1-out-of-n OT: a return of send replaces
\* the oracle by one that fits the receiver's call, and nothing else changes it.
ImplementsRandomNcoOt == Abstract!Spec

\* Every receive is answered by a send, or both throw: no party is left blocked
\* in recv_data and no rows are left on the stream.
AllCallsReturn ==
    <>[](IF Rejected
         THEN sStatus = "threw" /\ rStatus = "threw"
         ELSE /\ net = <<>>
              /\ sends = Len(received)
              /\ rInstalled > 0 /\ rPrng[1][0].pos = StreamLen)
=============================================================================
