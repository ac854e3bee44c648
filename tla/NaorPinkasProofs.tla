--------------------------- MODULE NaorPinkasProofs ---------------------------
(***************************************************************************)
(* Proofs about NaorPinkasOt, for every group with the laws of             *)
(* GroupAssumption and MultiplesAssumption, every encoding and hash, and   *)
(* any number and size of calls.  The algebra is in SharedKeys; the rest   *)
(* is the invariant that ties the message in flight to the call that       *)
(* waits for it.                                                           *)
(***************************************************************************)
EXTENDS NaorPinkasOt, TLAPS

-----------------------------------------------------------------------------
(* The inductive invariant.                                                *)

\* The keys on the way to the receiver are those the waiting send drew.
KeysInFlight ==
    toReceiver # <<>> =>
        /\ toReceiver[1].c_pk = pending[1].c_pk
        /\ toReceiver[1].gr_pk = [i \in Transfers |-> PublicKey(pending[1].gr_sk[i])]

\* An answer on the way to the sender makes it compute pairs that fit what the
\* receiver's last call returned.
AnswerInFlight ==
    toSender # <<>> =>
        \A i \in Transfers :
            received[Len(received)].messages[i] =
                Pair(pending[1].c_pk[i], pending[1].gr_sk[i], toSender[1][i])
                    [received[Len(received)].choices[i]]

\* The waiting send drew secrets for the public keys it uses.
KeysDrawn ==
    \A j \in DOMAIN pending : \A i \in Transfers :
        \E k \in Secret : pending[j].c_pk[i] = PublicKey(k)

IInv == /\ TypeOK
        /\ Len(pending) <= 1
        /\ KeysDrawn
        /\ MessagesDiffer
        /\ OneInFlight
        /\ KeysInFlight
        /\ AnswerInFlight
        /\ ChosenMessages

-----------------------------------------------------------------------------
(* The algebra of the keys.                                                *)

\* A multiple of a public key is a point.
LEMMA PublicKeyType ==
    ASSUME NEW k \in Secret
    PROVE  PublicKey(k) \in Point
BY GroupAssumption, MultiplesAssumption DEF PublicKey

\* An offer is a point.
LEMMA OfferType ==
    ASSUME NEW c \in Point, NEW k \in Secret, NEW choice
    PROVE  Offer(c, k, choice) \in Point
BY PublicKeyType, GroupAssumption DEF Offer

\* The sender's shared keys are points.
LEMMA KeysType ==
    ASSUME NEW c \in Point, NEW r \in Secret, NEW pk0 \in Point
    PROVE  Keys(c, r, pk0) \in [Bits -> Point]
<1>1. Times(pk0, r) \in Point /\ Times(c, r) \in Point
  BY MultiplesAssumption
<1>2. Add(Times(c, r), Invert(Times(pk0, r))) \in Point
  BY <1>1, GroupAssumption
<1> QED  BY <1>1, <1>2 DEF Keys

\* The key the sender shares for the receiver's choice is the one the receiver
\* computes from its own secret and the sender's public key.
LEMMA SharedKeys ==
    ASSUME NEW c \in Point, NEW r \in Secret, NEW k \in Secret, NEW choice \in Bits
    PROVE  Keys(c, r, Offer(c, k, choice))[choice] = Times(PublicKey(r), k)
<1> DEFINE K == PublicKey(k)
           X == Times(K, r)
           Y == Times(c, r)
<1>1. X = Times(PublicKey(r), k)
  BY GroupAssumption, MultiplesAssumption DEF PublicKey
<1>2. K \in Point /\ Invert(K) \in Point
  BY PublicKeyType, GroupAssumption
<1>3. X \in Point /\ Y \in Point
  BY <1>2, MultiplesAssumption
<1>4. CASE choice = 0
  BY <1>1, <1>4 DEF Keys, Offer, Bits
<1>5. CASE choice = 1
  <2>1. Offer(c, k, choice) = Add(Invert(K), c)
    BY <1>5 DEF Offer
  <2>2. Times(Add(Invert(K), c), r) = Add(Times(Invert(K), r), Y)
    BY <1>2, MultiplesAssumption
  <2>3. Times(Invert(K), r) = Invert(X)
    BY <1>2, MultiplesAssumption
  <2>4. Keys(c, r, Offer(c, k, choice))[1] = Add(Y, Invert(Add(Invert(X), Y)))
    BY <2>1, <2>2, <2>3 DEF Keys, Bits
  <2> HIDE DEF K, X, Y
  <2>5. Invert(Add(Invert(X), Y)) = Add(X, Invert(Y))
    <3>1. Invert(X) \in Point /\ Invert(Invert(X)) = X
      BY <1>3, GroupAssumption
    <3> QED  BY <3>1, <1>3, GroupAssumption
  <2>6. Add(Y, Add(X, Invert(Y))) = X
    <3>1. Invert(Y) \in Point /\ Invert(Invert(Y)) = Y /\ Add(X, Invert(Y)) \in Point
      BY <1>3, GroupAssumption
    <3>2. Add(Add(X, Invert(Y)), Invert(Invert(Y))) = X
      BY <3>1, <1>3, GroupAssumption
    <3>3. Add(Add(X, Invert(Y)), Y) = Add(Y, Add(X, Invert(Y)))
      BY <3>1, <1>3, GroupAssumption
    <3> QED  BY <3>1, <3>2, <3>3
  <2> QED  BY <2>4, <2>5, <2>6, <1>1, <1>5
<1> QED  BY <1>4, <1>5 DEF Bits

\* The digest of a point is a message.
LEMMA DigestType ==
    ASSUME NEW P \in Point, NEW b \in Bits
    PROVE  Digest(P, b) \in Digests
BY DEF Digests

\* The bytes hashed for message 0 and message 1 are the same for inverse points
\* only: for equal ones the XOR of the first byte keeps them apart.
LEMMA EncodingsDiffer ==
    ASSUME NEW P \in Point, NEW Q \in Point, Encoded(P, 0) = Encoded(Q, 1)
    PROVE  Q = Invert(P)
<1>1. FirstByte(P) = Xor(FirstByte(Q), 1) /\ OtherBytes(P) = OtherBytes(Q)
  <2>1. /\ Encoded(P, 0).first = FirstByte(P) /\ Encoded(P, 0).other = OtherBytes(P)
        /\ Encoded(Q, 1).first = Xor(FirstByte(Q), 1) /\ Encoded(Q, 1).other = OtherBytes(Q)
    BY DEF Encoded, Xor
  <2> QED  BY <2>1
<1>2. Q = P \/ Q = Invert(P)
  BY <1>1, EncodingAssumption
<1>3. CASE Q = P
  <2>1. \A byte \in {0, 2, 3} : Xor(byte, 1) # byte
    BY DEF Xor
  <2> QED  BY <1>1, <1>3, <2>1, EncodingAssumption
<1> QED  BY <1>2, <1>3

\* The two messages of a pair differ: the points they are hashed from add up to
\* a multiple of c, which is not the point at infinity.
LEMMA PairDiffers ==
    ASSUME NEW k \in Secret, NEW r \in Secret, NEW pk0 \in Point
    PROVE  Pair(PublicKey(k), r, pk0)[0] # Pair(PublicKey(k), r, pk0)[1]
<1> DEFINE Y == Times(PublicKey(k), r)
           P == Times(pk0, r)
           Q == Add(Y, Invert(P))
<1>1. Y \in Point /\ P \in Point /\ Invert(P) \in Point /\ Q \in Point
  BY PublicKeyType, GroupAssumption, MultiplesAssumption
<1>2. Y # Infinity
  BY MultiplesAssumption, GroupAssumption DEF PublicKey
<1>3. /\ Pair(PublicKey(k), r, pk0)[0] = Digest(P, 0)
      /\ Pair(PublicKey(k), r, pk0)[1] = Digest(Q, 1)
  BY DEF Pair, Keys, Bits
<1> HIDE DEF Y, P
<1>4. Add(P, Q) = Y
  <2>1. Add(Add(Y, Invert(P)), Invert(Invert(P))) = Y /\ Invert(Invert(P)) = P
    BY <1>1, GroupAssumption
  <2>2. Add(Q, P) = Add(P, Q)
    BY <1>1, GroupAssumption
  <2> QED  BY <2>1, <2>2
<1> HIDE DEF Q
<1>5. Q # Invert(P)
  BY <1>1, <1>2, <1>4, GroupAssumption
<1>6. Encoded(P, 0) # Encoded(Q, 1)
  BY <1>1, <1>5, EncodingsDiffer
<1> QED  BY <1>1, <1>3, <1>6, HashAssumption DEF Bits

\* Elements of a sequence over S are in S.
LEMMA Element ==
    ASSUME NEW S, NEW s \in Seq(S), NEW k \in DOMAIN s
    PROVE  s[k] \in S
OBVIOUS

\* What Append does.
LEMMA Appended ==
    ASSUME NEW S, NEW s \in Seq(S), NEW e \in S, NEW t, t = Append(s, e)
    PROVE  /\ t \in Seq(S) /\ Len(t) = Len(s) + 1
           /\ DOMAIN s = 1 .. Len(s) /\ DOMAIN t = 1 .. Len(s) + 1
           /\ \A k \in DOMAIN s : t[k] = s[k]
           /\ t[Len(s) + 1] = e
OBVIOUS

\* What Head and Tail do to a sequence of one element.
LEMMA Single ==
    ASSUME NEW S, NEW s \in Seq(S), Len(s) = 1
    PROVE  Head(s) = s[1] /\ s[1] \in S /\ Tail(s) = <<>> /\ s # <<>>
<1>1. Tail(s) \in Seq(S) /\ Len(Tail(s)) = 0
  OBVIOUS
<1>2. Tail(s) = <<>>
  <2>1. \A t \in Seq(S) : Len(t) = 0 => t = <<>>
    OBVIOUS
  <2> QED  BY <1>1, <2>1
<1>3. Head(s) = s[1] /\ s[1] \in S /\ s # <<>>
  OBVIOUS
<1> QED  BY <1>2, <1>3

-----------------------------------------------------------------------------
(* The invariant holds initially and every action keeps it.                *)

\* Two new objects.
LEMMA InitInvariant == Init => IInv
BY DEF Init, IInv, TypeOK, OneInFlight, KeysInFlight, AnswerInFlight, ChosenMessages,
       KeysDrawn, MessagesDiffer

\* Vectors depend on the size only.
LEMMA Frame ==
    ASSUME base_ot_sizes' = base_ot_sizes
    PROVE  /\ Transfers' = Transfers /\ Choices' = Choices
           /\ PointVector' = PointVector /\ Results' = Results
BY DEF Transfers, Choices, PointVector, Results

\* The lengths of the queues are small numbers.
LEMMA Queues ==
    ASSUME IInv
    PROVE  /\ Len(pending) \in 0 .. 1
           /\ Len(toReceiver) \in 0 .. Len(pending)
           /\ Len(toSender) = Len(pending) - Len(toReceiver)
           /\ Len(received) = Len(sent) + Len(toSender)
           /\ Len(received) \in Nat /\ Len(sent) \in Nat
           /\ pending = <<>> <=> Len(pending) = 0
           /\ toReceiver = <<>> <=> Len(toReceiver) = 0
           /\ toSender = <<>> <=> Len(toSender) = 0
<1>1. /\ Len(pending) \in Nat /\ Len(toReceiver) \in Nat /\ Len(toSender) \in Nat
      /\ Len(received) \in Nat /\ Len(sent) \in Nat
      /\ pending = <<>> <=> Len(pending) = 0
      /\ toReceiver = <<>> <=> Len(toReceiver) = 0
      /\ toSender = <<>> <=> Len(toSender) = 0
  BY DEF IInv, TypeOK
<1>2. \A p \in Nat, r \in Nat, s \in Nat, m \in Nat, n \in Nat :
          p <= 1 /\ r + s = p /\ m - n = s
          => p \in 0 .. 1 /\ r \in 0 .. p /\ s = p - r /\ m = n + s
  OBVIOUS
<1> QED  BY <1>1, <1>2 DEF IInv, OneInFlight

\* A first half of send makes fresh keys, which the stream carries.
LEMMA SenderOffersKeeps ==
    ASSUME IInv, SenderOffers
    PROVE  IInv'
<1>1. PICK c_sk \in [Transfers -> Secret], gr_sk \in [Transfers -> Secret] :
          /\ pending' = <<[c_pk |-> [i \in Transfers |-> PublicKey(c_sk[i])], gr_sk |-> gr_sk]>>
          /\ toReceiver' = Append(toReceiver,
                 [c_pk  |-> [i \in Transfers |-> PublicKey(c_sk[i])],
                  gr_pk |-> [i \in Transfers |-> PublicKey(gr_sk[i])]])
  BY DEF SenderOffers
<1> DEFINE c_pk == [i \in Transfers |-> PublicKey(c_sk[i])]
           gr_pk == [i \in Transfers |-> PublicKey(gr_sk[i])]
<1>2. /\ UNCHANGED <<base_ot_sizes, toSender, sent, received>>
      /\ pending = <<>> /\ toReceiver = <<>> /\ toSender = <<>>
      /\ Len(pending) = 0 /\ Len(toReceiver) = 0 /\ Len(toSender) = 0
  BY Queues DEF SenderOffers
<1>3. c_pk \in PointVector /\ gr_pk \in PointVector
  BY PublicKeyType DEF PointVector
<1>4. toReceiver' = <<[c_pk |-> c_pk, gr_pk |-> gr_pk]>>
  BY <1>1, <1>2
<1>5. TypeOK'
  BY <1>1, <1>2, <1>3, <1>4, Frame DEF IInv, TypeOK
<1>6. Len(pending') = 1 /\ Len(toReceiver') = 1 /\ Len(toSender') = 0
  BY <1>1, <1>2, <1>4
<1>7. OneInFlight'
  <2>1. Len(received) = Len(sent) /\ Len(received) \in Nat
    BY <1>2, Queues
  <2> QED  BY <2>1, <1>2, <1>6 DEF OneInFlight
<1>8. KeysInFlight'
  BY <1>1, <1>2, <1>4, Frame DEF KeysInFlight
<1>9. AnswerInFlight' /\ ChosenMessages'
  BY <1>2, Frame DEF IInv, AnswerInFlight, ChosenMessages
<1>10. KeysDrawn'
  BY <1>1, <1>2, Frame DEF KeysDrawn
<1>11. MessagesDiffer'
  BY <1>2, Frame DEF IInv, MessagesDiffer
<1> QED  BY <1>5, <1>6, <1>7, <1>8, <1>9, <1>10, <1>11 DEF IInv

\* A receive answers the keys of the waiting send and returns messages that the
\* sender will compute, too.
LEMMA ReceiverReceiveKeeps ==
    ASSUME IInv, NEW choices \in Choices, ReceiverReceive(choices)
    PROVE  IInv'
<1> DEFINE c_pk == pending[1].c_pk
           gr_sk == pending[1].gr_sk
           messages(k) == [i \in Transfers |->
                              Digest(Times(PublicKey(gr_sk[i]), k[i]), choices[i])]
<1>1. /\ Len(pending) = 1 /\ Len(toReceiver) = 1 /\ Len(toSender) = 0
      /\ toSender = <<>> /\ toReceiver # <<>> /\ Len(received) = Len(sent)
  <2>1. toReceiver # <<>>
    BY DEF ReceiverReceive
  <2>2. \A p \in 0 .. 1 : \A r \in 0 .. p : r # 0 => p = 1 /\ r = 1 /\ p - r = 0
    OBVIOUS
  <2>3. Len(pending) = 1 /\ Len(toReceiver) = 1 /\ Len(toSender) = 0
    BY <2>1, <2>2, Queues
  <2> QED  BY <2>1, <2>3, Queues
<1>2. /\ toReceiver \in Seq([c_pk : PointVector, gr_pk : PointVector])
      /\ pending \in Seq([c_pk : PointVector, gr_sk : [Transfers -> Secret]])
      /\ received \in Seq(Results)
  BY DEF IInv, TypeOK
<1>3. pending[1] \in [c_pk : PointVector, gr_sk : [Transfers -> Secret]]
  BY <1>1, <1>2, Single
<1>4. c_pk \in PointVector /\ gr_sk \in [Transfers -> Secret]
  BY <1>3
<1>5. /\ Head(toReceiver) = toReceiver[1] /\ Tail(toReceiver) = <<>>
      /\ toReceiver[1].c_pk = c_pk
      /\ toReceiver[1].gr_pk = [i \in Transfers |-> PublicKey(gr_sk[i])]
  BY <1>1, <1>2, Single DEF IInv, KeysInFlight
<1>6. PICK k \in [Transfers -> Secret] :
          /\ toSender' = Append(toSender, [i \in Transfers |-> Offer(c_pk[i], k[i], choices[i])])
          /\ received' = Append(received, [choices |-> choices, messages |-> messages(k)])
  <2>1. PICK k \in [Transfers -> Secret] :
            /\ toSender' = Append(toSender,
                  [i \in Transfers |-> Offer(toReceiver[1].c_pk[i], k[i], choices[i])])
            /\ received' = Append(received,
                  [choices  |-> choices,
                   messages |-> [i \in Transfers |->
                       Digest(Times(toReceiver[1].gr_pk[i], k[i]), choices[i])]])
    BY <1>5 DEF ReceiverReceive
  <2>2. [i \in Transfers |-> Digest(Times(toReceiver[1].gr_pk[i], k[i]), choices[i])]
            = messages(k)
    BY <1>5
  <2> QED  BY <2>1, <2>2, <1>5
<1> DEFINE offers == [i \in Transfers |-> Offer(c_pk[i], k[i], choices[i])]
           result == [choices |-> choices, messages |-> messages(k)]
<1>7. /\ UNCHANGED <<base_ot_sizes, pending, sent>> /\ toReceiver' = <<>>
      /\ toSender' = <<offers>>
  BY <1>1, <1>5, <1>6 DEF ReceiverReceive
<1>8. offers \in PointVector
  BY <1>4, OfferType DEF PointVector
<1>9. messages(k) \in [Transfers -> Digests]
  <2>1. ASSUME NEW i \in Transfers
        PROVE  Digest(Times(PublicKey(gr_sk[i]), k[i]), choices[i]) \in Digests
    <3>1. Times(PublicKey(gr_sk[i]), k[i]) \in Point
      BY <1>4, PublicKeyType, MultiplesAssumption
    <3>2. choices[i] \in Bits
      BY DEF Choices
    <3> QED  BY <3>1, <3>2, DigestType
  <2> QED  BY <2>1
<1>10. ASSUME NEW i \in Transfers
       PROVE  messages(k)[i] = Pair(c_pk[i], gr_sk[i], offers[i])[choices[i]]
  <2>1. choices[i] \in Bits /\ c_pk[i] \in Point /\ gr_sk[i] \in Secret /\ k[i] \in Secret
    BY <1>4 DEF Choices, PointVector
  <2>2. Keys(c_pk[i], gr_sk[i], offers[i])[choices[i]] = Times(PublicKey(gr_sk[i]), k[i])
    BY <2>1, SharedKeys
  <2> QED  BY <2>1, <2>2 DEF Pair
<1> HIDE DEF messages, offers
<1>11. result \in Results /\ result.choices = choices /\ result.messages = messages(k)
  BY <1>9 DEF Results
<1> HIDE DEF result
<1>12. PICK n \in Nat : n = Len(received) + 1
  BY <1>2
<1>13. /\ received' \in Seq(Results) /\ Len(received') = n /\ DOMAIN received = 1 .. n - 1
       /\ \A l \in DOMAIN received : received'[l] = received[l]
       /\ received'[n] = result /\ n - 1 = Len(received)
  BY <1>2, <1>6, <1>11, <1>12, Appended DEF result
<1>14. toSender' \in Seq(PointVector) /\ Len(toSender') = 1 /\ toSender'[1] = offers
  BY <1>7, <1>8
<1>15. TypeOK'
  BY <1>7, <1>13, <1>14, Frame DEF IInv, TypeOK
<1>16. OneInFlight'
  <2>1. Len(toReceiver') = 0 /\ Len(received') - Len(sent') = 1
    BY <1>1, <1>2, <1>7, <1>12, <1>13
  <2> QED  BY <2>1, <1>1, <1>7, <1>14 DEF OneInFlight
<1>17. KeysInFlight'
  BY <1>7 DEF KeysInFlight
<1>18. AnswerInFlight'
  BY <1>7, <1>10, <1>11, <1>13, <1>14, Frame DEF AnswerInFlight
<1>19. ChosenMessages'
  <2>1. \A l \in DOMAIN sent : l \in DOMAIN received
    BY <1>1, <1>2 DEF IInv, TypeOK
  <2> QED  BY <2>1, <1>7, <1>13, Frame DEF IInv, ChosenMessages
<1>20. KeysDrawn' /\ MessagesDiffer'
  BY <1>7, Frame DEF IInv, KeysDrawn, MessagesDiffer
<1> QED  BY <1>1, <1>7, <1>15, <1>16, <1>17, <1>18, <1>19, <1>20 DEF IInv

\* The second half of send consumes the answer and returns what fits it.
LEMMA SenderReturnsKeeps ==
    ASSUME IInv, SenderReturns
    PROVE  IInv'
<1> DEFINE pairs == [i \in Transfers |->
                        Pair(pending[1].c_pk[i], pending[1].gr_sk[i], toSender[1][i])]
<1>1. /\ Len(pending) = 1 /\ Len(toSender) = 1 /\ Len(toReceiver) = 0
      /\ toSender # <<>> /\ toReceiver = <<>> /\ Len(received) = Len(sent) + 1
  <2>1. toSender # <<>>
    BY DEF SenderReturns
  <2>2. \A p \in 0 .. 1 : \A r \in 0 .. p : p - r # 0 => p = 1 /\ r = 0 /\ p - r = 1
    OBVIOUS
  <2>3. Len(pending) = 1 /\ Len(toReceiver) = 0 /\ Len(toSender) = 1
    BY <2>1, <2>2, Queues
  <2> QED  BY <2>1, <2>3, Queues
<1>2. /\ toSender \in Seq(PointVector)
      /\ pending \in Seq([c_pk : PointVector, gr_sk : [Transfers -> Secret]])
      /\ sent \in Seq([Transfers -> [Bits -> Digests]])
      /\ received \in Seq(Results)
  BY DEF IInv, TypeOK
<1>3. /\ Head(pending) = pending[1] /\ Head(toSender) = toSender[1] /\ Tail(toSender) = <<>>
      /\ pending[1] \in [c_pk : PointVector, gr_sk : [Transfers -> Secret]]
      /\ toSender[1] \in PointVector
  BY <1>1, <1>2, Single
<1>4. /\ UNCHANGED <<base_ot_sizes, toReceiver, received>>
      /\ pending' = <<>> /\ toSender' = <<>>
      /\ sent' = Append(sent, pairs)
  BY <1>3 DEF SenderReturns
<1>5. pairs \in [Transfers -> [Bits -> Digests]]
  <2>1. ASSUME NEW i \in Transfers, NEW b \in Bits
        PROVE  Digest(Keys(pending[1].c_pk[i], pending[1].gr_sk[i], toSender[1][i])[b], b)
                   \in Digests
    <3>1. /\ pending[1].c_pk[i] \in Point /\ pending[1].gr_sk[i] \in Secret
          /\ toSender[1][i] \in Point
      BY <1>3 DEF PointVector
    <3>2. PICK P : P = Keys(pending[1].c_pk[i], pending[1].gr_sk[i], toSender[1][i])
      OBVIOUS
    <3>3. P \in [Bits -> Point]
      BY <3>1, <3>2, KeysType
    <3>4. PICK K \in Point : K = P[b]
      BY <3>3
    <3>5. Digest(K, b) \in Digests
      BY DigestType
    <3> QED  BY <3>2, <3>4, <3>5
  <2> QED  BY <2>1 DEF Pair
<1>6. PICK n \in Nat : n = Len(sent) + 1
  BY <1>2
<1>7. ASSUME NEW i \in Transfers
      PROVE  received[n].messages[i] = pairs[i][received[n].choices[i]]
  BY <1>1, <1>6 DEF IInv, AnswerInFlight
<1> HIDE DEF pairs
<1>8. /\ sent' \in Seq([Transfers -> [Bits -> Digests]]) /\ Len(sent') = n
      /\ DOMAIN sent = 1 .. n - 1 /\ DOMAIN sent' = 1 .. n
      /\ \A l \in DOMAIN sent : sent'[l] = sent[l]
      /\ sent'[n] = pairs
  BY <1>2, <1>4, <1>5, <1>6, Appended
<1>9. TypeOK'
  BY <1>4, <1>8, Frame DEF IInv, TypeOK
<1>10. OneInFlight'
  <2>1. Len(received') - Len(sent') = 0
    BY <1>1, <1>2, <1>4, <1>6, <1>8
  <2> QED  BY <2>1, <1>1, <1>4 DEF OneInFlight
<1>11. KeysInFlight' /\ AnswerInFlight'
  BY <1>1, <1>4 DEF KeysInFlight, AnswerInFlight
<1>12. ChosenMessages'
  <2>1. ASSUME NEW l \in DOMAIN sent' \cap DOMAIN received, NEW i \in Transfers
        PROVE  received[l].messages[i] = sent'[l][i][received[l].choices[i]]
    <3>1. CASE l \in DOMAIN sent
      BY <3>1, <1>8 DEF IInv, ChosenMessages
    <3>2. CASE l = n
      BY <3>2, <1>7, <1>8
    <3> QED  BY <3>1, <3>2, <1>6, <1>8
  <2> QED  BY <2>1, <1>4, Frame DEF ChosenMessages
<1>13. MessagesDiffer'
  <2>1. ASSUME NEW i \in Transfers
        PROVE  sent'[n][i][0] # sent'[n][i][1]
    <3>1. PICK k \in Secret : pending[1].c_pk[i] = PublicKey(k)
      BY <1>1, <1>2 DEF IInv, KeysDrawn
    <3>2. pending[1].gr_sk[i] \in Secret /\ toSender[1][i] \in Point
      BY <1>3 DEF PointVector
    <3> QED  BY <3>1, <3>2, <1>8, PairDiffers DEF pairs
  <2> QED  BY <2>1, <1>4, <1>6, <1>8, Frame DEF IInv, MessagesDiffer
<1>14. KeysDrawn'
  BY <1>4 DEF KeysDrawn
<1> QED  BY <1>4, <1>9, <1>10, <1>11, <1>12, <1>13, <1>14 DEF IInv

\* Every step keeps the invariant.
LEMMA StepKeeps ==
    ASSUME IInv, [Next]_vars
    PROVE  IInv'
<1>1. CASE SenderOffers
  BY <1>1, SenderOffersKeeps
<1>2. CASE SenderReturns
  BY <1>2, SenderReturnsKeeps
<1>3. CASE ReceiverStep
  BY <1>3, ReceiverReceiveKeeps DEF ReceiverStep
<1>4. CASE UNCHANGED vars
  BY <1>4, Frame
     DEF vars, IInv, TypeOK, OneInFlight, KeysInFlight, AnswerInFlight, ChosenMessages,
         KeysDrawn, MessagesDiffer
<1> QED  BY <1>1, <1>2, <1>3, <1>4 DEF Next, SenderStep

-----------------------------------------------------------------------------
(* The theorems.                                                           *)

\* The inductive invariant holds in every behaviour.
THEOREM Invariance == Spec => []IInv
BY InitInvariant, StepKeeps, PTL DEF Spec

\* Every variable keeps its type.
THEOREM TypeCorrectness == Spec => []TypeOK
<1>1. IInv => TypeOK
  BY DEF IInv
<1> QED  BY <1>1, Invariance, PTL

\* In every call the receiver's messages are those of the sender's pairs that
\* its choices name.
THEOREM ChosenMessagesHold == Spec => []ChosenMessages
<1>1. IInv => ChosenMessages
  BY DEF IInv
<1> QED  BY <1>1, Invariance, PTL

\* The two messages of a pair always differ, under the assumptions on encoding
\* and hash.
THEOREM MessagesDifferHold == Spec => []MessagesDiffer
<1>1. IInv => MessagesDiffer
  BY DEF IInv
<1> QED  BY <1>1, Invariance, PTL

\* A call has one message in flight, and it is for the party that waits.
THEOREM OneInFlightHolds == Spec => []OneInFlight
<1>1. IInv => OneInFlight
  BY DEF IInv
<1> QED  BY <1>1, Invariance, PTL

-----------------------------------------------------------------------------
(* The base OT implements RandomOt.                                        *)

\* The second half of send is SenderReturns of RandomOt.
LEMMA SenderImplements ==
    ASSUME IInv, IInv', SenderReturns
    PROVE  Abstract!SenderReturns
<1>1. PICK k \in Nat : k = Len(sent) + 1
  BY DEF IInv, TypeOK
<1>2. PICK pairs : sent' = Append(sent, pairs)
  BY DEF SenderReturns
<1>3. UNCHANGED <<base_ot_sizes, received>>
  BY DEF SenderReturns
<1>4. /\ sent \in Seq([Transfers -> [Bits -> Digests]])
      /\ sent' \in Seq([Transfers -> [Bits -> Digests]])
      /\ received \in Seq(Results)
  BY <1>3, Frame DEF IInv, TypeOK
<1>5. Len(sent') = k /\ k \in DOMAIN sent' /\ sent'[k] = pairs
  BY <1>1, <1>2, <1>4
<1>6. sent'[k] \in [Transfers -> [Bits -> Digests]]
  BY <1>4, <1>5, Element
<1>7. base_ot_sizes \in Sizes /\ sent'[k] \in Abstract!Pairs(base_ot_sizes)
  BY <1>6 DEF IInv, TypeOK, Abstract!Pairs, Transfers, Bits
<1>8. ASSUME k \in DOMAIN received
      PROVE  Abstract!Fits(sent'[k], received[k])
  <2>1. received[k] \in Results
    BY <1>4, <1>8, Element
  <2>2. DOMAIN received[k].messages = Transfers
    BY <2>1 DEF Results
  <2>3. \A i \in Transfers : received[k].messages[i] = sent'[k][i][received[k].choices[i]]
    BY <1>3, <1>5, <1>8, Frame DEF IInv, ChosenMessages
  <2> QED  BY <1>6, <2>2, <2>3 DEF Abstract!Fits
<1> QED  BY <1>1, <1>2, <1>3, <1>5, <1>7, <1>8 DEF Abstract!SenderReturns

\* A receive is ReceiverReturns of RandomOt.
LEMMA ReceiverImplements ==
    ASSUME IInv, IInv', NEW choices \in Choices, ReceiverReceive(choices)
    PROVE  Abstract!ReceiverReturns
<1>1. PICK k \in Nat : k = Len(received) + 1
  BY DEF IInv, TypeOK
<1>2. PICK result : received' = Append(received, result)
  BY DEF ReceiverReceive
<1>3. UNCHANGED <<base_ot_sizes, sent>>
  BY DEF ReceiverReceive
<1>4. received \in Seq(Results) /\ received' \in Seq(Results)
  BY <1>3, Frame DEF IInv, TypeOK
<1>5. Len(received') = k /\ k \in DOMAIN received' /\ received'[k] = result
  BY <1>1, <1>2, <1>4
<1>6. received'[k] \in Results
  BY <1>4, <1>5, Element
<1>7. base_ot_sizes \in Sizes /\ received'[k] \in Abstract!Results(base_ot_sizes)
  BY <1>6 DEF IInv, TypeOK, Abstract!Results, Results, Choices, Transfers, Bits
<1>8. k \notin DOMAIN sent
  <2>1. \A m \in Nat, n \in Nat, s \in Nat : m = n + s => m + 1 \notin 1 .. n
    OBVIOUS
  <2>2. Len(toSender) \in Nat /\ DOMAIN sent = 1 .. Len(sent)
    BY DEF IInv, TypeOK
  <2> QED  BY <1>1, <2>1, <2>2, Queues
<1> QED  BY <1>1, <1>2, <1>3, <1>5, <1>7, <1>8 DEF Abstract!ReceiverReturns

\* Every behaviour of the two parties is, seen by what the calls return, one of
\* a random OT.
THEOREM Refinement == Spec => ImplementsRandomOt
<1>1. Init => Abstract!Init
  BY DEF Init, Abstract!Init
<1>2. ASSUME IInv, IInv', [Next]_vars
      PROVE  [Abstract!Next]_(Abstract!vars)
  <2>1. CASE SenderReturns
    BY <1>2, <2>1, SenderImplements DEF Abstract!Next
  <2>2. CASE ReceiverStep
    BY <1>2, <2>2, ReceiverImplements DEF ReceiverStep, Abstract!Next
  <2>3. CASE SenderOffers \/ UNCHANGED vars
    BY <2>3 DEF SenderOffers, vars, Abstract!vars
  <2> QED  BY <1>2, <2>1, <2>2, <2>3 DEF Next, SenderStep
<1> QED  BY <1>1, <1>2, Invariance, PTL DEF Spec, ImplementsRandomOt, Abstract!Spec
=============================================================================
