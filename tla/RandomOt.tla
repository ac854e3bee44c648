------------------------------ MODULE RandomOt ------------------------------
(***************************************************************************)
(* What a random 1-out-of-2 oblivious transfer promises its two callers,   *)
(* whatever the protocol behind it: in the k-th call of each party the     *)
(* sender gets a pair of messages per transfer and the receiver gets, per  *)
(* transfer, the one of the pair that its choice bit names.  Either party  *)
(* may return first; the one that returns second must fit the first.  The  *)
(* headers state it as "the receiver gets chosen messages indexed by       *)
(* choices" (base_ot_receiver.h, ot_ext_receiver.h).                       *)
(***************************************************************************)
EXTENDS Integers, Sequences

CONSTANTS Message,      \* what a transfer carries
          Sizes         \* the numbers of transfers a call can make

VARIABLES sent,         \* sent[k]: the pairs the sender's k-th call returned
          received      \* received[k]: the choices given to the receiver's
                        \* k-th call and the messages it returned

vars == <<sent, received>>

Pairs(n) == [0 .. n - 1 -> [0 .. 1 -> Message]]
Results(n) == [choices : [0 .. n - 1 -> 0 .. 1], messages : [0 .. n - 1 -> Message]]

\* The k-th calls of the two parties fit.
Fits(pairs, result) ==
    /\ DOMAIN pairs = DOMAIN result.messages
    /\ \A x \in DOMAIN pairs : result.messages[x] = pairs[x][result.choices[x]]

Init == sent = <<>> /\ received = <<>>

SenderReturns ==
    LET k == Len(sent) + 1
    IN  /\ Len(sent') = k
        /\ sent' = Append(sent, sent'[k])
        /\ \E n \in Sizes : sent'[k] \in Pairs(n)
        /\ k \in DOMAIN received => Fits(sent'[k], received[k])
        /\ UNCHANGED received

ReceiverReturns ==
    LET k == Len(received) + 1
    IN  /\ Len(received') = k
        /\ received' = Append(received, received'[k])
        /\ \E n \in Sizes : received'[k] \in Results(n)
        /\ k \in DOMAIN sent => Fits(sent[k], received'[k])
        /\ UNCHANGED sent

Next == SenderReturns \/ ReceiverReturns

Spec == Init /\ [][Next]_vars
=============================================================================
