----------------------------- MODULE MCKkrtOtExt -----------------------------
(***************************************************************************)
(* A small instance of KkrtOtExt: blocks of two bits, base OTs of one      *)
(* block, of two, and of a size both parties refuse; calls of one to three *)
(* transfers, so that some are padded and the matrices differ in length.   *)
(***************************************************************************)
EXTENDS KkrtOtExtInv

MCW == 2
MCStreamLen == 3

Number(block) == (IF 0 \in block THEN 1 ELSE 0) + (IF 1 \in block THEN 2 ELSE 0)

Streams == << <<1, 0, 2>>, <<2, 3, 3>>, <<0, 1, 3>>, <<3, 1, 0>> >>

MCPrg == [seed \in Block |->
             [p \in 0 .. MCStreamLen - 1 |-> IntBlock(Streams[Number(seed) + 1][p + 1])]]

MCHash == [block \in Block |-> IntBlock(<<2, 0, 1, 3>>[Number(block) + 1])]

MCSizes == {1, 2, 3}
MCInput == {{0}, {0, 1}}

SeedPair(m, n) == [b \in 0 .. 1 |-> IntBlock(IF b = 0 THEN m ELSE n)]
Pairs == <<SeedPair(0, 1), SeedPair(3, 2), SeedPair(1, 3), SeedPair(2, 0)>>

BaseOtsOf(choices, n) == [choices |-> choices, pairs |-> SubSeq(Pairs, 1, n)]

MCBaseOtSizes == {2, 3, 4}
MCBaseOts == {BaseOtsOf(<<{1}>>, 2), BaseOtsOf(<<{0, 1}>>, 2),
              BaseOtsOf(<<{0}, {1}>>, 3),
              BaseOtsOf(<<{0}, {1}>>, 4), BaseOtsOf(<<{0, 1}, {0}>>, 4)}

\* Programs that renew the base OTs: both parties are given every base OT
\* before the first call.
OneBlock == {2}
OneBlockSizes == {1, 2}
AllInstalled == sInstalled = MaxBaseOts /\ rInstalled = MaxBaseOts
RenewedSpec == Init /\ [][Next /\ (received' # received => AllInstalled)]_vars
=============================================================================
