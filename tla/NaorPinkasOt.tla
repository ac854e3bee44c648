----------------------------- MODULE NaorPinkasOt -----------------------------
(***************************************************************************)
(* The Naor-Pinkas base OT of                                              *)
(* src/verse/base-ot/naor-pinkas-ot/naor_pinkas_ot.cpp: a sender and a     *)
(* receiver that make random 1-out-of-2 OTs, base_ot_sizes of them in a    *)
(* call, from an elliptic curve.  The curve, its encoding of points and    *)
(* the hash belong to the Solo library; they are constants here, with the  *)
(* laws of the group.  The bits of the blocks "choices" are a function.    *)
(***************************************************************************)
EXTENDS Integers, Sequences

CONSTANTS Sizes,          \* the base_ot_sizes the parties may be built with
          MaxTransfers,   \* bound: the OTs of all calls together
          Secret,         \* what create_secret_key may draw
          Point,          \* the points of the curve
          Infinity,       \* its neutral element
          Generator,      \* the point whose multiples are the public keys
          Add(_, _),      \* EC::add
          Invert(_),      \* EC::invert
          Times(_, _),    \* EC::encrypt: a point times a secret key
          FirstByte(_),   \* the first byte of point_to_bytes, ...
          OtherBytes(_),  \* ... which tells a point from its inverse, the rest
          Hash(_)         \* SHA-256 of an encoded point, cut to a block

ASSUME BoundsAssumption == Sizes \subseteq Nat \ {0} /\ MaxTransfers \in Nat

ASSUME GroupAssumption ==
    /\ Infinity \in Point /\ Generator \in Point
    /\ \A P \in Point : Invert(P) \in Point /\ Invert(Invert(P)) = P
    /\ \A P, Q \in Point : /\ Add(P, Q) \in Point
                           /\ Add(P, Q) = Add(Q, P)
                           /\ Add(Add(P, Q), Invert(Q)) = P
                           /\ Invert(Add(P, Q)) = Add(Invert(P), Invert(Q))
                           /\ Add(P, Q) = Infinity <=> Q = Invert(P)

ASSUME MultiplesAssumption ==
    \A k \in Secret, P \in Point :
        /\ Times(P, k) \in Point
        /\ Times(Invert(P), k) = Invert(Times(P, k))
        /\ \A Q \in Point : Times(Add(P, Q), k) = Add(Times(P, k), Times(Q, k))
        /\ \A l \in Secret : /\ Times(Times(P, k), l) = Times(Times(P, l), k)
                             /\ Times(Times(Generator, k), l) # Infinity

\* Compressed points: a first byte that tells a point from its inverse, which
\* agree on the rest.
ASSUME EncodingAssumption ==
    \A P \in Point :
        /\ FirstByte(P) \in {0, 2, 3}
        /\ FirstByte(P) = 0 <=> P = Infinity
        /\ P # Infinity => FirstByte(Invert(P)) # FirstByte(P)
        /\ \A Q \in Point : OtherBytes(P) = OtherBytes(Q) => Q \in {P, Invert(P)}

VARIABLES base_ot_sizes,  \* BaseOtSender::base_ot_sizes_, the receiver's as well
          toReceiver,     \* the keys sent and not yet received, ...
          toSender,       \* ... in both directions
          pending,        \* c_pk and gr_sk of the send that waits for an answer
          sent,           \* the messages of each send that returned
          received        \* the choices and messages of each receive

vars == <<base_ot_sizes, toReceiver, toSender, pending, sent, received>>

Transfers == 0 .. base_ot_sizes - 1
Bits == 0 .. 1

-----------------------------------------------------------------------------
(* Keys and messages.                                                      *)

PublicKey(sk) == Times(Generator, sk)

\* msg[..] ^= bit, on the first byte of an encoded point.
Xor(byte, bit) ==
    IF bit = 0 THEN byte ELSE IF byte % 2 = 0 THEN byte + 1 ELSE byte - 1

\* The bytes of a point, the first one XORed with a bit, and their hash.
Encoded(point, bit) ==
    [first |-> Xor(FirstByte(point), bit), other |-> OtherBytes(point)]
Digest(point, bit) == Hash(Encoded(point, bit))

\* The hash is taken as free of collisions on the bytes it is applied to.
ASSUME HashAssumption ==
    \A P, Q \in Point, a, b \in Bits :
        Digest(P, a) = Digest(Q, b) => Encoded(P, a) = Encoded(Q, b)

\* What the receiver offers as its key for message 0: the one whose secret it
\* knows, or the one that makes this its key for message 1.
Offer(c, k, choice) ==
    IF choice = 1 THEN Add(Invert(PublicKey(k)), c) ELSE PublicKey(k)

KeysSwapped(c, r, pk0) ==        \* variant: the difference is taken the other way round
    [b \in Bits |-> IF b = 0 THEN Times(pk0, r)
                             ELSE Add(Times(pk0, r), Invert(Times(c, r)))]
\* The sender's two shared keys: pk0_r and c_r - pk0_r.
Keys(c, r, pk0) ==
    [b \in Bits |-> IF b = 0 THEN Times(pk0, r)
                             ELSE Add(Times(c, r), Invert(Times(pk0, r)))]

PairUnflipped(c, r, pk0) ==      \* variant: the first byte of pk1_r is left alone
    [b \in Bits |-> Digest(Keys(c, r, pk0)[b], 0)]
PairSecondOnly(c, r, pk0) ==     \* variant: messages[i][0] is not written
    [b \in {1} |-> Digest(Keys(c, r, pk0)[b], b)]
Pair(c, r, pk0) == [b \in Bits |-> Digest(Keys(c, r, pk0)[b], b)]

-----------------------------------------------------------------------------
(* Initial states: the constructors.                                       *)

Init == /\ base_ot_sizes \in Sizes
        /\ toReceiver = <<>> /\ toSender = <<>>
        /\ pending = <<>>
        /\ sent = <<>> /\ received = <<>>

-----------------------------------------------------------------------------
(* The parties.                                                            *)

\* NaorPinkasSender::send up to recv_data: fresh keys, and the public ones sent.
SenderOffers ==
    /\ pending = <<>>
    /\ (Len(sent) + 1) * base_ot_sizes <= MaxTransfers
    /\ \E c_sk, gr_sk \in [Transfers -> Secret] :
          LET c_pk == [i \in Transfers |-> PublicKey(c_sk[i])]
              gr_pk == [i \in Transfers |-> PublicKey(gr_sk[i])]
          IN  /\ pending' = <<[c_pk |-> c_pk, gr_sk |-> gr_sk]>>
              /\ toReceiver' = Append(toReceiver, [c_pk |-> c_pk, gr_pk |-> gr_pk])
    /\ UNCHANGED <<base_ot_sizes, toSender, sent, received>>

\* NaorPinkasReceiver::receive: it waits for the sender's keys, the rest does
\* not block.  A draw of k that equals the sender's secret c_sk, which makes an
\* offer the point at infinity, has probability 2^-256 and is left out.
ReceiverReceive(choices) ==
    /\ toReceiver # <<>>
    /\ LET keys == Head(toReceiver)
       IN  \E k \in [Transfers -> Secret] :
              /\ \A i \in Transfers : PublicKey(k[i]) # keys.c_pk[i]
              /\ toSender' = Append(toSender,
                    [i \in Transfers |-> Offer(keys.c_pk[i], k[i], choices[i])])
              /\ received' = Append(received,
                    [choices  |-> choices,
                     messages |-> [i \in Transfers |->
                                      Digest(Times(keys.gr_pk[i], k[i]), choices[i])]])
    /\ toReceiver' = Tail(toReceiver)
    /\ UNCHANGED <<base_ot_sizes, pending, sent>>

SenderReturnsLate ==             \* variant: the answer is read but not consumed
    /\ pending # <<>>
    /\ toSender # <<>>
    /\ LET keys == Head(pending)
       IN  sent' = Append(sent, [i \in Transfers |->
                      Pair(keys.c_pk[i], keys.gr_sk[i], Head(toSender)[i])])
    /\ pending' = <<>>
    /\ UNCHANGED <<base_ot_sizes, toReceiver, toSender, received>>
\* NaorPinkasSender::send from recv_data on.
SenderReturns ==
    /\ pending # <<>>
    /\ toSender # <<>>
    /\ LET keys == Head(pending)
       IN  sent' = Append(sent, [i \in Transfers |->
                      Pair(keys.c_pk[i], keys.gr_sk[i], Head(toSender)[i])])
    /\ toSender' = Tail(toSender)
    /\ pending' = <<>>
    /\ UNCHANGED <<base_ot_sizes, toReceiver, received>>

Choices == [Transfers -> Bits]

SenderStep == SenderOffers \/ SenderReturns
ReceiverStep == \E choices \in Choices : ReceiverReceive(choices)

Next == SenderStep \/ ReceiverStep

Spec == Init /\ [][Next]_vars

\* Each program goes on calling send or receive (verse_bench.cpp, np_bench).
Fairness == WF_vars(SenderStep) /\ WF_vars(ReceiverStep)

FairSpec == Spec /\ Fairness

-----------------------------------------------------------------------------
(* Properties.                                                             *)

Digests == {Digest(P, b) : P \in Point, b \in Bits}
PointVector == [Transfers -> Point]
Results == [choices : Choices, messages : [Transfers -> Digests]]

\* Every variable keeps its type: vectors of one key or message per transfer.
TypeOK ==
    /\ base_ot_sizes \in Sizes
    /\ toReceiver \in Seq([c_pk : PointVector, gr_pk : PointVector])
    /\ toSender \in Seq(PointVector)
    /\ pending \in Seq([c_pk : PointVector, gr_sk : [Transfers -> Secret]])
    /\ sent \in Seq([Transfers -> [Bits -> Digests]])
    /\ received \in Seq(Results)

\* The receiver's message of a transfer is the one of the sender's pair that its
\* choice names: the two parties' exponentiations meet although neither knows
\* the other's secret, and both flip the first byte for the same choice.
ChosenMessages ==
    \A k \in DOMAIN sent \cap DOMAIN received :
        \A i \in Transfers :
            received[k].messages[i] = sent[k][i][received[k].choices[i]]

\* The two messages of a pair differ, also when the receiver's draw makes the
\* two keys the same point: the XOR of the first byte keeps their encodings apart.
MessagesDiffer ==
    \A k \in DOMAIN sent : \A i \in Transfers : sent[k][i][0] # sent[k][i][1]

\* A call has one message in flight at a time, and only while the sender waits
\* for it: what a party reads belongs to the call that it is in, and the next
\* call of either cannot read keys of this one.
OneInFlight ==
    /\ Len(toReceiver) + Len(toSender) = Len(pending)
    /\ Len(received) - Len(sent) = Len(toSender)

\* The base OT implements a random OT: each return of send or receive is a
\* step of RandomOt, the key exchange is not visible there.
Abstract == INSTANCE RandomOt WITH Message <- Digests

ImplementsRandomOt == Abstract!Spec

\* Neither party stays blocked in recv_data: all calls return, the stream is empty.
AllCallsReturn ==
    <>[](/\ Len(sent) = MaxTransfers \div base_ot_sizes
         /\ Len(received) = Len(sent)
         /\ toReceiver = <<>> /\ toSender = <<>>)
=============================================================================
