----------------------------- MODULE RandomNcoOt -----------------------------
(***************************************************************************)
(* What a random 1-out-of-n oblivious transfer promises: a call leaves the *)
(* sender with an oracle, from the index of a transfer and any input to a  *)
(* message (encode), and gives the receiver, per transfer, the message of  *)
(* the one input it chose (nco_ot_ext_sender.h, nco_ot_ext_receiver.h).    *)
(* The receiver returns first, the oracle is that of the sender's last     *)
(* call, and it may have more transfers than the receiver asked for.       *)
(***************************************************************************)
EXTENDS Integers, Sequences

CONSTANTS Input,        \* what the receiver may choose and the sender encode
          Message,      \* what a transfer carries
          Sizes         \* the numbers of transfers a receiver may ask for

VARIABLES calls,        \* how many calls of the sender returned
          oracle,       \* oracle[x][input]: the message of the last one
          received      \* the choices and messages of the receiver's calls

vars == <<calls, oracle, received>>

Results(n) == [choices : [0 .. n - 1 -> Input], messages : [0 .. n - 1 -> Message]]

\* The messages of a call are those the oracle has for the choices.
Answers(table, result) ==
    \A x \in DOMAIN result.messages :
        /\ x \in DOMAIN table
        /\ result.messages[x] = table[x][result.choices[x]]

Init == calls = 0 /\ oracle = <<>> /\ received = <<>>

ReceiverReturns ==
    LET k == Len(received) + 1
    IN  /\ Len(received') = k
        /\ received' = Append(received, received'[k])
        /\ \E n \in Sizes : received'[k] \in Results(n)
        /\ UNCHANGED <<calls, oracle>>

SenderReturns ==
    /\ calls < Len(received)
    /\ calls' = calls + 1
    /\ \A x \in DOMAIN oracle' : oracle'[x] \in [Input -> Message]
    /\ Answers(oracle', received[calls + 1])
    /\ UNCHANGED received

Next == ReceiverReturns \/ SenderReturns

Spec == Init /\ [][Next]_vars
=============================================================================
