---------------------------- MODULE KkrtOtExtInv ----------------------------
(***************************************************************************)
(* The inductive invariant of KkrtOtExt.  As in IknpOtExtInv,              *)
(* received[k].from fixes the pads of the k-th call; here the number of    *)
(* choices of that call fixes how many there are, whatever number of       *)
(* transfers the sender asks for, as long as it pads to the same size.     *)
(* What encode answers from is tied to the last call returned, as long as  *)
(* the sender's choices are those of the first base OT; the rest survives  *)
(* any number of set_base_ots on either side.                              *)
(***************************************************************************)
EXTENDS KkrtOtExt

\* Where the receiver's generators stand, and where the pads of its k-th call
\* (made, or the next one) start.
RPos == IF rInstalled = 0 THEN 0 ELSE rPrng[1][0].pos
From(k) == IF k \in DOMAIN received THEN received[k].from ELSE RPos

\* The number of transfers of the receiver's k-th call.
Asked(k) == Len(received[k].choices)

\* The rows that the seeds of the base OT give from a position on.
SeedRows(b, from, n) ==
    RowMatrix([i \in 0 .. Rows - 1 |->
                  [j \in 0 .. Cols(n) - 1 |-> Prg[baseOts[1].pairs[i + 1][b]][from + j]]], n)

\* The pads of the receiver's k-th call.
CallRows(k, b) == SeedRows(b, received[k].from, Asked(k))

\* Block j of the code word of transfer x in the k-th call.
CallWord(k, x, j) == CodeWord(PaddedChoice(received[k].choices, x), j)

\* The matrix of the receiver's k-th call, and what is left of it in q_mat.
CallMatrix(k) ==
    [x \in 0 .. Pad(Asked(k)) - 1 |-> [j \in 0 .. Threshold - 1 |->
        CallWord(k, x, j) (+) (CallRows(k, 0)[x][j] (+) CallRows(k, 1)[x][j])]]
CallQMat(k) ==
    [x \in 0 .. Pad(Asked(k)) - 1 |-> [j \in 0 .. Threshold - 1 |->
        CallRows(k, 0)[x][j] (+) (CallWord(k, x, j) \cap base_choices[j + 1])]]

\* set_base_ots: the first generators, which the calls use, have the seeds of
\* the first base OT, however many are appended behind them.
BaseOtSize == \A k \in DOMAIN baseOts : Len(baseOts[k].pairs) = Rows
SenderInstalled ==
    /\ sInstalled = 0 => sPrng = <<>> /\ base_choices = <<>> /\ sends = 0
    /\ sInstalled = 1 => base_choices = baseOts[1].choices
    /\ sInstalled > 0 =>
           /\ Len(sPrng) >= Rows
           /\ \A i \in 1 .. Rows : sPrng[i].seed = Chosen(baseOts[1])[i]
ReceiverInstalled ==
    /\ rInstalled = 0 => rPrng = <<>> /\ received = <<>> /\ net = <<>>
    /\ rInstalled > 0 =>
           /\ Len(rPrng) >= Rows
           /\ \A i \in 1 .. Rows, b \in 0 .. 1 :
                  rPrng[i][b] = [seed |-> baseOts[1].pairs[i][b], pos |-> RPos]
BaseOtInstalled == BaseOtSize /\ SenderInstalled /\ ReceiverInstalled

\* The sender's generators trail by the pads of the matrices on the stream.
PositionsInStep ==
    /\ Len(received) = sends + Len(net)
    /\ From(1) = 0
    /\ \A k \in DOMAIN received : From(k + 1) = received[k].from + Cols(Asked(k))
    /\ sInstalled > 0 => \A i \in 1 .. Rows : sPrng[i].pos = From(sends + 1)

\* No call drew what another one drew, and what is left to draw is fresh.
PositionsFresh ==
    /\ \A k \in DOMAIN received : received[k].from + Cols(Asked(k)) <= RPos
    /\ PadsFresh

Positions == PositionsInStep /\ PositionsFresh

\* The stream holds the matrices of the receiver's last calls, in order, its
\* messages are the chained rows of its first pads, and q_mat is left by the
\* last call of the sender, corrected by the choices of the first base OT.
StreamContents == \A k \in DOMAIN net : net[k] = CallMatrix(sends + k)
Messaged ==
    \A k \in DOMAIN received : \A x \in 0 .. Asked(k) - 1 :
        received[k].messages[x] = Chain(CallRows(k, 0)[x], x)
QMatContents == /\ sends = 0 => q_mat = <<>>
                /\ sends > 0 /\ sInstalled <= 1 => q_mat = CallQMat(sends)
Contents == StreamContents /\ Messaged /\ QMatContents

\* The inductive invariant: types, seeds, positions and contents, of
\* set_base_ots, send and receive together, for any number of base OTs that
\* either party is given at any time.
IInv == TypeOK /\ BaseOtInstalled /\ Positions /\ Contents

\* What NeverStuck needs besides: of a refused size nothing is sent, and only
\* this makes a party throw.
RefusedInv ==
    /\ Rejected => net = <<>>
    /\ sStatus # "ready" => Rejected
=============================================================================
