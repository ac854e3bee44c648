---------------------------- MODULE IknpOtExtInv ----------------------------
(***************************************************************************)
(* The inductive invariant of IknpOtExt: what has to hold of seeds,        *)
(* positions, stream and results for the next call to keep the promises.   *)
(* Its idea is that received[k].from, the position the k-th call drew      *)
(* from, fixes every block of that call: the matrix while it is on the     *)
(* stream, the receiver's messages, and the pads the sender will draw when *)
(* it gets there.  All of it survives any number of set_base_ots on either *)
(* side, but for one thing: the sender's choices.                          *)
(***************************************************************************)
EXTENDS IknpOtExt

\* Where the receiver's generators stand, and where the pads of its k-th call
\* (made, or the next one) start.
RPos == IF rInstalled = 0 THEN 0 ELSE rPrng[1][0].pos
From(k) == IF k \in DOMAIN received THEN received[k].from ELSE RPos

\* The pads that the seeds of the base OT give from a position on.
PadMatrix(b, from) ==
    [i \in 0 .. Rows - 1 |->
        [j \in 0 .. Cols - 1 |-> Prg[baseOts[1].pairs[i + 1][b]][from + j]]]

\* The matrix of the receiver's k-th call.
CallMatrix(k) ==
    [i \in 0 .. Rows - 1 |-> Masked(PadMatrix(0, received[k].from)[i],
                                    PadMatrix(1, received[k].from)[i],
                                    received[k].choices)]

\* set_base_ots: the first generators, which the calls use, have the seeds of
\* the first base OT, however many are appended behind them; the choices are
\* those of the first base OT only as long as there is no second one.
BaseOtSize == \A k \in DOMAIN baseOts : Len(baseOts[k].pairs) = Rows
SenderInstalled ==
    /\ sInstalled = 0 => sPrng = <<>> /\ base_choices = <<>> /\ sent = <<>>
    /\ sInstalled = 1 => base_choices = baseOts[1].choices
    /\ sInstalled > 0 =>
           /\ base_choices # <<>>
           /\ Len(sPrng) >= Rows
           /\ \A i \in 1 .. Rows : sPrng[i].seed = Chosen(baseOts[1])[i]
ReceiverInstalled ==
    /\ rInstalled = 0 => rPrng = <<>> /\ received = <<>> /\ net = <<>>
    /\ rInstalled > 0 =>
           /\ Len(rPrng) >= Rows
           /\ \A i \in 1 .. Rows, b \in 0 .. 1 :
                  rPrng[i][b] = [seed |-> baseOts[1].pairs[i][b], pos |-> RPos]
BaseOtInstalled == BaseOtSize /\ SenderInstalled /\ ReceiverInstalled

\* Calls only return for supported parameters.
OnlySupported ==
    Rows # W \/ params.ext_ot_sizes % W # 0 => sent = <<>> /\ received = <<>>

\* The sender's generators trail by the matrices on the stream.
PositionsInStep ==
    Rows = W =>
        /\ Len(received) = Len(sent) + Len(net)
        /\ From(1) = 0
        /\ \A k \in DOMAIN received : received[k].from + Cols <= StreamLen
        /\ \A k \in DOMAIN received : From(k + 1) = received[k].from + Cols
        /\ sInstalled > 0 => \A i \in 1 .. Rows : sPrng[i].pos = From(Len(sent) + 1)

\* No call drew what another one drew, and what is left to draw is fresh.
PositionsFresh ==
    /\ \A k \in DOMAIN received : received[k].from + Cols <= RPos
    /\ PadsFresh

\* With other parameters nothing is drawn or sent until a party leaves the
\* defined behaviour.
PositionsIdle ==
    Rows # W =>
        /\ rStatus # "undefined" => RPos = 0 /\ net = <<>>
        /\ sInstalled > 0 => \A i \in 1 .. Rows : sPrng[i].pos = 0

Positions == PositionsInStep /\ PositionsFresh /\ PositionsIdle

\* The stream holds the matrices of the receiver's last calls, in order, and
\* its messages are the hashed rows of its first pads.
Contents ==
    Rows = W =>
        /\ \A k \in DOMAIN net : net[k] = CallMatrix(Len(sent) + k)
        /\ \A k \in DOMAIN received, x \in Transfers :
               received[k].messages[x] =
                   Tweaked(Row(PadMatrix(0, received[k].from), x), x)

\* The inductive invariant: types, seeds, positions, contents and the promise
\* itself, of set_base_ots, send and receive together, for any number of base
\* OTs that either party is given at any time.
IInv == /\ TypeOK
        /\ BaseOtInstalled
        /\ OnlySupported
        /\ Positions
        /\ Contents
        /\ ChosenUntilRenewed

-----------------------------------------------------------------------------
(* Refusals.                                                               *)

\* The inductive invariant of RejectedAlike: a call of refused parameters
\* returns on neither side, and only their refusal makes a party throw.
RefusedInv ==
    /\ params \in Params
    /\ ReceiverRejects => net = <<>> /\ sent = <<>> /\ received = <<>>
    /\ sStatus = "threw" \/ rStatus = "threw" => ReceiverRejects
=============================================================================
