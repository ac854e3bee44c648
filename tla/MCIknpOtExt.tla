----------------------------- MODULE MCIknpOtExt -----------------------------
(***************************************************************************)
(* Small instances of IknpOtExt: blocks of two bits, so that a base OT of  *)
(* a block's size has two instances.  The generator is a table that tells  *)
(* all seeds and positions apart and the hash is a permutation that is no  *)
(* translation, so that blocks agree only when the protocol makes them.    *)
(***************************************************************************)
EXTENDS IknpOtExtInv

MCW == 2
MCStreamLen == 4

Number(block) == (IF 0 \in block THEN 1 ELSE 0) + (IF 1 \in block THEN 2 ELSE 0)

Streams == << <<1, 0, 2, 3>>, <<2, 3, 3, 0>>, <<0, 1, 3, 2>>, <<3, 1, 0, 1>> >>

MCPrg == [seed \in Block |->
             [p \in 0 .. MCStreamLen - 1 |-> IntBlock(Streams[Number(seed) + 1][p + 1])]]

MCHash == [block \in Block |-> IntBlock(<<2, 0, 1, 3>>[Number(block) + 1])]

SeedPair(m, n) == [b \in 0 .. 1 |-> IntBlock(IF b = 0 THEN m ELSE n)]

SomePairs == <<SeedPair(0, 1), SeedPair(3, 2), SeedPair(1, 3), SeedPair(2, 0)>>
OtherPairs == <<SeedPair(2, 1), SeedPair(0, 3)>>

\* Base OTs of the size of a block, with each value of the sender's choices.
BlockSizedBaseOts == [choices : {<<c>> : c \in Block},
                      pairs : {SubSeq(SomePairs, 1, 2), OtherPairs}]

\* Base OTs of one instance more, which both parties refuse.
OddBaseOts == [choices : {<<{}, {0}>>, <<{1}, {0}>>}, pairs : {SubSeq(SomePairs, 1, 3)}]

\* Base OTs of two blocks, which only the sender refuses.
DoubleBaseOts == [choices : {<<{}, {0}>>, <<{1}, {0, 1}>>}, pairs : {SomePairs}]

P(base, ext) == [base_ot_sizes |-> base, ext_ot_sizes |-> ext]

AgreedParams == {P(2, 4), P(2, 2), P(2, 3), P(3, 4)}
RepeatedParams == {P(2, 4), P(4, 2)}
SupportedParams == {P(2, 2)}
DoubleParams == {P(4, 4)}

RepeatedBaseOts == DoubleBaseOts \cup
    {b \in BlockSizedBaseOts : b.choices \in {<<{0}>>, <<{1}>>}}
AgreedBaseOts == BlockSizedBaseOts \cup OddBaseOts

\* Programs that renew the base OTs: both parties are given every base OT
\* before the first call.
AllInstalled == sInstalled = MaxBaseOts /\ rInstalled = MaxBaseOts
RenewedSpec == Init /\ [][Next /\ (received' # received => AllInstalled)]_vars
=============================================================================
