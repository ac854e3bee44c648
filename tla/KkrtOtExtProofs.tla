-------------------------- MODULE KkrtOtExtProofs --------------------------
(***************************************************************************)
(* Proofs about KkrtOtExt, for blocks of any size, any parameters, base    *)
(* OTs, generator and hash, any number of calls of any sizes and any       *)
(* number of base OTs, installed by either party at any time.  Only what   *)
(* depends on the sender's choices ends when the sender is given a second  *)
(* base OT: the run kkrt_second_base_ot shows that EncodesChosen fails.    *)
(*                                                                         *)
(* The argument: the hash chain is a block; padded sizes; the lemma        *)
(* MaskedRow, which says what the sender's corrected matrix has in each    *)
(* block; one lemma per action that it keeps IInv; the theorems.           *)
(***************************************************************************)
EXTENDS KkrtOtExtInv, SeedLemmas, WellFoundedInduction

-----------------------------------------------------------------------------
(* The hash chain.                                                         *)

\* A set of naturals has a least element.
LEMMA LeastElement ==
    ASSUME NEW S \in SUBSET Nat, S # {}
    PROVE  \E k \in S : \A l \in S : k <= l
<1>1. PICK k \in S : \A l \in S : ~(<<l, k>> \in OpToRel(<, Nat))
  BY NatLessThanWellFounded, WFMin
<1>2. ASSUME NEW l \in S PROVE k <= l
  <2>1. SUFFICES ASSUME l < k PROVE FALSE
    OBVIOUS
  <2>2. <<l, k>> \in OpToRel(<, Nat)
    BY <2>1 DEF OpToRel
  <2> QED  BY <1>1, <2>2
<1> QED  BY <1>2

\* One link of the chain.
Link(block, row, x, j) == Hash[(block (+) row[j - 1]) (+) IntBlock(x)]

\* The first n links of a chain over a row.
Links(g, row, x, n) ==
    /\ g \in [0 .. n -> Block]
    /\ g[0] = {}
    /\ \A j \in 1 .. n : g[j] = Link(g[j - 1], row, x, j)

\* A link is a block.
LEMMA LinkType ==
    ASSUME NEW t \in Nat, NEW row \in [0 .. t - 1 -> Block], NEW x,
           NEW block \in Block, NEW j \in 1 .. t
    PROVE  Link(block, row, x, j) \in Block
<1>1. j - 1 \in 0 .. t - 1
  OBVIOUS
<1>2. row[j - 1] \in Block
  BY <1>1
<1> QED  BY <1>2, XorBlock, IntBlockType, PrimitivesAssumption DEF Link

\* Chains of every length exist: the least length without one has a predecessor.
LEMMA LinksExist ==
    ASSUME NEW t \in Nat, NEW row \in [0 .. t - 1 -> Block], NEW x
    PROVE  \E g : Links(g, row, x, t)
<1> DEFINE Missing == {n \in 0 .. t : ~ \E g : Links(g, row, x, n)}
<1>1. SUFFICES ASSUME Missing # {} PROVE FALSE
  <2>1. t \in 0 .. t
    OBVIOUS
  <2> QED  BY <2>1, Zenon
<1> Missing \in SUBSET Nat
  OBVIOUS
<1>2. PICK n \in Missing : \A l \in Missing : n <= l
  BY <1>1, LeastElement
<1>3. n # 0
  <2>1. Links([j \in 0 .. 0 |-> {}], row, x, 0)
    BY DEF Links, Block
  <2> QED  BY <2>1, <1>2
<1>4. n - 1 \in 0 .. t /\ n - 1 \notin Missing /\ n \in 1 .. t
  BY <1>2, <1>3
<1>5. PICK g : Links(g, row, x, n - 1)
  BY <1>4
<1> DEFINE h == [j \in 0 .. n |-> IF j = n THEN Link(g[n - 1], row, x, n) ELSE g[j]]
<1>6. g \in [0 .. n - 1 -> Block]
  BY <1>5 DEF Links
<1>7. Link(g[n - 1], row, x, n) \in Block
  <2>1. g[n - 1] \in Block
    BY <1>4, <1>6
  <2> QED  BY <1>4, <2>1, LinkType
<1>8. ASSUME NEW j \in 0 .. n PROVE h[j] \in Block
  <2>1. CASE j = n
    BY <2>1, <1>7
  <2>2. CASE j # n
    <3>1. j \in 0 .. n - 1
      BY <2>2, <1>4
    <3> QED  BY <3>1, <1>6, <2>2
  <2> QED  BY <2>1, <2>2
<1>9. h[0] = {}
  BY <1>3, <1>4, <1>5 DEF Links
<1>10. ASSUME NEW j \in 1 .. n PROVE h[j] = Link(h[j - 1], row, x, j)
  <2>1. h[j - 1] = g[j - 1]
    BY <1>4
  <2>2. CASE j = n
    BY <2>1, <2>2
  <2>3. CASE j # n
    <3>1. j \in 1 .. n - 1 /\ h[j] = g[j]
      BY <2>3, <1>4
    <3> QED  BY <2>1, <3>1, <1>5 DEF Links
  <2> QED  BY <2>2, <2>3
<1>11. Links(h, row, x, n)
  <2>1. h \in [0 .. n -> Block]
    BY <1>8
  <2> HIDE DEF h
  <2> QED  BY <2>1, <1>9, <1>10 DEF Links
<1> QED  BY <1>11, <1>2

\* The chain over a row of blocks is a block.
LEMMA ChainType ==
    ASSUME Threshold \in Nat, NEW row \in [0 .. Threshold - 1 -> Block], NEW x
    PROVE  Chain(row, x) \in Block
<1> DEFINE T == Threshold
           Next1(out, j) == IF j = 0 THEN {} ELSE Link(out[j - 1], row, x, j)
           out == CHOOSE o : o = [j \in 0 .. T |-> Next1(o, j)]
<1>1. Chain(row, x) = out[T]
  BY DEF Chain, Link
<1>2. PICK g : Links(g, row, x, T)
  BY LinksExist
<1>3. g = [j \in 0 .. T |-> Next1(g, j)]
  <2>1. ASSUME NEW j \in 0 .. T PROVE g[j] = Next1(g, j)
    <3>1. CASE j = 0
      BY <1>2, <3>1 DEF Links
    <3>2. CASE j # 0
      <4>1. j \in 1 .. T
        BY <3>2
      <4> QED  BY <4>1, <3>2, <1>2 DEF Links
    <3> QED  BY <3>1, <3>2
  <2> HIDE DEF Next1
  <2> QED  BY <2>1, <1>2 DEF Links
<1>4. out = [j \in 0 .. T |-> Next1(out, j)]
  <2> HIDE DEF Next1
  <2> QED  BY <1>3
<1> HIDE DEF out
<1> DEFINE Wrong == {j \in 0 .. T : out[j] \notin Block}
<1>5. Wrong = {}
  <2>1. SUFFICES ASSUME Wrong # {} PROVE FALSE
    OBVIOUS
  <2> Wrong \in SUBSET Nat
    OBVIOUS
  <2>2. PICK j \in Wrong : \A l \in Wrong : j <= l
    BY <2>1, LeastElement
  <2>3. out[j] = Next1(out, j)
    <3> HIDE DEF Next1
    <3> QED  BY <1>4
  <2>4. j # 0
    BY <2>2, <2>3 DEF Block
  <2>5. j - 1 \in 0 .. T /\ j \in 1 .. T /\ j - 1 \notin Wrong
    BY <2>2, <2>4
  <2>6. Link(out[j - 1], row, x, j) \in Block
    BY <2>5, LinkType
  <2> QED  BY <2>2, <2>3, <2>4, <2>6
<1>6. T \in 0 .. T
  OBVIOUS
<1> QED  BY <1>1, <1>5, <1>6

-----------------------------------------------------------------------------
(* Sizes and matrices.                                                     *)

\* A size is padded to the next whole number of blocks.
LEMMA PadFacts ==
    ASSUME NEW n \in Nat \ {0}
    PROVE  /\ Pad(n) \in Nat \ {0} /\ n <= Pad(n)
           /\ Cols(n) \in Nat
<1>1. ASSUME NEW w \in Nat \ {0}
      PROVE  n % w \in Nat /\ n % w < w
  OBVIOUS
<1>2. Pad(n) \in Nat \ {0} /\ n <= Pad(n)
  BY <1>1, WAssumption DEF Pad
<1>3. ASSUME NEW w \in Nat \ {0}, NEW p \in Nat PROVE p \div w \in Nat
  OBVIOUS
<1> QED  BY <1>2, <1>3, WAssumption DEF Cols

\* Matrices of the same rows have the same padded size.
LEMMA SameRows ==
    ASSUME NEW m \in Nat \ {0}, NEW n \in Nat \ {0}, 0 .. m - 1 = 0 .. n - 1
    PROVE  m = n
<1>1. m - 1 \in 0 .. n - 1 /\ n - 1 \in 0 .. m - 1
  <2>1. m - 1 \in 0 .. m - 1 /\ n - 1 \in 0 .. n - 1
    OBVIOUS
  <2> QED  BY <2>1
<1> QED  BY <1>1

\* The sizes of a base OT.
LEMMA RowsTypes ==
    ASSUME base_ot_sizes \in BaseOtSizes
    PROVE  Rows \in Nat \ {0} /\ Threshold \in Nat
<1>1. base_ot_sizes \in Nat \ {0}
  BY SizesAssumption
<1>2. ASSUME NEW w \in Nat \ {0}, NEW r \in Nat PROVE r \div w \in Nat
  OBVIOUS
<1> QED  BY <1>1, <1>2, WAssumption DEF Rows, Threshold

\* Bit k of block j of a row belongs to instance j * W + k of the base OT.
LEMMA RowIndex ==
    ASSUME base_ot_sizes \in BaseOtSizes, base_ot_sizes % W = 0,
           NEW j \in 0 .. Threshold - 1, NEW k \in Bit
    PROVE  /\ j * W + k \in 0 .. Rows - 1
           /\ (j * W + k) % W = k /\ (j * W + k) \div W = j
<1>1. Rows \in Nat \ {0} /\ Threshold \in Nat
  BY RowsTypes
<1>2. ASSUME NEW w \in Nat \ {0}, NEW t \in Nat, NEW i \in 0 .. t - 1, NEW b \in 0 .. w - 1
      PROVE  /\ i * w + b \in 0 .. t * w - 1
             /\ (i * w + b) % w = b /\ (i * w + b) \div w = i
  <2>1. i * w \in Nat /\ (i + 1) * w = i * w + w /\ t * w \in Nat
    OBVIOUS
  <2>2. (i + 1) * w <= t * w
    <3>1. \A a \in Nat, c \in Nat, d \in Nat : a <= c => a * d <= c * d
      OBVIOUS
    <3> QED  BY <3>1
  <2>3. i * w + b \in 0 .. t * w - 1
    BY <2>1, <2>2
  <2>4. (i * w + b) \div w = i
    OBVIOUS
  <2>5. (i * w + b) % w = b
    BY <2>4
  <2> QED  BY <2>3, <2>4, <2>5
<1>3. Rows = Threshold * W
  <2>1. ASSUME NEW w \in Nat \ {0}, NEW r \in Nat, r % w = 0 PROVE r = (r \div w) * w
    BY <2>1
  <2> QED  BY <2>1, <1>1, WAssumption DEF Threshold, Rows
<1>4. Bit = 0 .. W - 1
  BY DEF Bit
<1>5. PICK w \in Nat \ {0}, t \in Nat : w = W /\ t = Threshold
  BY <1>1, WAssumption
<1>6. /\ j * w + k \in 0 .. t * w - 1
      /\ (j * w + k) % w = k /\ (j * w + k) \div w = j
  <2>1. j \in 0 .. t - 1 /\ k \in 0 .. w - 1
    BY <1>4, <1>5
  <2> QED  BY <1>2, <2>1
<1> QED  BY <1>3, <1>5, <1>6

\* The blocks of a matrix, bit by bit.
LEMMA RowElement ==
    ASSUME NEW columns, NEW n, NEW x \in 0 .. Pad(n) - 1, NEW j \in 0 .. Threshold - 1, NEW e
    PROVE  /\ x % W \in Bit
           /\ e \in RowMatrix(columns, n)[x][j] <=>
                  e \in Bit /\ x % W \in columns[j * W + e][x \div W]
<1>1. x % W \in Bit
  <2>1. x \in Nat
    OBVIOUS
  <2>2. ASSUME NEW w \in Nat \ {0}, NEW y \in Nat PROVE y % w \in 0 .. w - 1
    OBVIOUS
  <2> QED  BY <2>1, <2>2, WAssumption DEF Bit
<1>2. RowMatrix(columns, n)[x][j] =
          Transposed([k \in Bit |-> columns[j * W + k][x \div W]])[x % W]
  BY DEF RowMatrix
<1>3. RowMatrix(columns, n)[x][j] = {k \in Bit : x % W \in columns[j * W + k][x \div W]}
  BY <1>1, <1>2 DEF Transposed
<1> QED  BY <1>1, <1>3

\* A matrix has rows of blocks.
LEMMA RowMatrixType ==
    ASSUME NEW columns, NEW n
    PROVE  /\ RowMatrix(columns, n) \in [0 .. Pad(n) - 1 -> [0 .. Threshold - 1 -> Block]]
           /\ \A x \in 0 .. Pad(n) - 1 : \A j \in 0 .. Threshold - 1 :
                  RowMatrix(columns, n)[x][j] \in Block
<1>1. ASSUME NEW x \in 0 .. Pad(n) - 1, NEW j \in 0 .. Threshold - 1
      PROVE  Transposed([k \in Bit |-> columns[j * W + k][x \div W]])[x % W] \in Block
  BY RowElement, TransposedBlock
<1> QED  BY <1>1 DEF RowMatrix

\* Columns that are, one by one, those that the bits name.
Selects(c, bits, c0, c1) ==
    \A i \in 0 .. Rows - 1 : c[i] = IF BitFromBlocks(bits, i) = 1 THEN c1[i] ELSE c0[i]

\* A block that, corrected by a masked one, is the first pad and the word cut to
\* the choices.
Unmasks(q, word, r0, r1, choices) ==
    q (+) ((word (+) (r0 (+) r1)) \cap choices) = r0 (+) (word \cap choices)

\* The heart of the protocol: the sender has, of each column, the one that its
\* base choice bit names; masking the received matrix by the choices turns a
\* block of its row into that of the receiver's first pads, XORed with the code
\* word where the choices are 1.
LEMMA MaskedRow ==
    ASSUME base_ot_sizes \in BaseOtSizes, base_ot_sizes % W = 0,
           NEW bits, NEW c0, NEW c1, NEW c, NEW n, NEW word, Selects(c, bits, c0, c1),
           NEW x \in 0 .. Pad(n) - 1, NEW j \in 0 .. Threshold - 1
    PROVE  Unmasks(RowMatrix(c, n)[x][j], word, RowMatrix(c0, n)[x][j], RowMatrix(c1, n)[x][j],
                   bits[j + 1])
<1> DEFINE q == RowMatrix(c, n)[x][j]
           r0 == RowMatrix(c0, n)[x][j]
           r1 == RowMatrix(c1, n)[x][j]
<1>1. ASSUME NEW e PROVE e \in q <=> IF e \in bits[j + 1] THEN e \in r1 ELSE e \in r0
  <2>1. CASE e \notin Bit
    BY <2>1, RowElement
  <2>2. CASE e \in Bit
    <3> DEFINE i == j * W + e
    <3>1. i \in 0 .. Rows - 1 /\ i % W = e /\ i \div W = j
      BY <2>2, RowIndex
    <3> HIDE DEF i
    <3>2. BitFromBlocks(bits, i) = IF e \in bits[j + 1] THEN 1 ELSE 0
      BY <3>1 DEF BitFromBlocks
    <3>3. c[i] = IF e \in bits[j + 1] THEN c1[i] ELSE c0[i]
      BY <3>1, <3>2 DEF Selects
    <3>4. /\ e \in q <=> x % W \in c[i][x \div W]
          /\ e \in r0 <=> x % W \in c0[i][x \div W]
          /\ e \in r1 <=> x % W \in c1[i][x \div W]
      BY <2>2, RowElement DEF i
    <3> QED  BY <3>3, <3>4
  <2> QED  BY <2>1, <2>2
<1> HIDE DEF q, r0, r1
<1>2. ASSUME NEW e
      PROVE  e \in q (+) ((word (+) (r0 (+) r1)) \cap bits[j + 1])
                 <=> e \in r0 (+) (word \cap bits[j + 1])
  <2>1. e \in q (+) ((word (+) (r0 (+) r1)) \cap bits[j + 1])
            <=> ~(e \in q <=> ((~(e \in word <=> ~(e \in r0 <=> e \in r1))) /\ e \in bits[j + 1]))
    BY XorElement
  <2>2. e \in r0 (+) (word \cap bits[j + 1])
            <=> ~(e \in r0 <=> (e \in word /\ e \in bits[j + 1]))
    BY XorElement
  <2> QED  BY <2>1, <2>2, <1>1
<1>3. q (+) ((word (+) (r0 (+) r1)) \cap bits[j + 1]) = r0 (+) (word \cap bits[j + 1])
  BY <1>2
<1> QED  BY <1>3 DEF q, r0, r1, Unmasks

\* The blocks of code words are blocks.
LEMMA CodeWordType ==
    ASSUME NEW input \in Block, NEW j
    PROVE  CodeWord(input, j) \in Block
BY XorBlock, IntBlockType, PrimitivesAssumption DEF CodeWord

\* The choices of a call, and what is taken for those it does not have.
LEMMA ChoicesTypes ==
    ASSUME NEW choices \in Choices
    PROVE  /\ choices \in Seq(Input) /\ Len(choices) \in Sizes
           /\ Len(choices) \in Nat \ {0}
           /\ \A x \in Nat : PaddedChoice(choices, x) \in Block
<1>1. PICK n \in Sizes : choices \in [1 .. n -> Input]
  BY DEF Choices
<1>2. n \in Nat \ {0}
  BY SizesAssumption
<1>3. choices \in Seq(Input) /\ Len(choices) = n
  BY <1>1, <1>2
<1>4. ASSUME NEW x \in Nat PROVE PaddedChoice(choices, x) \in Block
  <2>1. CASE x < Len(choices)
    <3>1. x + 1 \in 1 .. n
      BY <1>2, <1>3, <2>1
    <3>2. choices[x + 1] \in Input
      BY <1>1, <3>1
    <3> QED  BY <2>1, <3>2, InputAssumption DEF PaddedChoice
  <2>2. CASE ~(x < Len(choices))
    BY <2>2 DEF PaddedChoice, Block
  <2> QED  BY <2>1, <2>2
<1> QED  BY <1>2, <1>3, <1>4

-----------------------------------------------------------------------------
(* The invariant holds initially and every action keeps it.                *)

Call == [from : Nat, choices : Choices, messages : Messages]

\* The invariant holds of two new objects.
LEMMA InitInvariant == Init => IInv
<1> SUFFICES ASSUME Init PROVE IInv
  OBVIOUS
<1>1. TypeOK
  BY DEF Init, TypeOK, Status
<1>2. BaseOtInstalled /\ Positions
  BY DEF Init, BaseOtInstalled, BaseOtSize, SenderInstalled, ReceiverInstalled, Positions,
         PositionsInStep, PositionsFresh, PadsFresh, RPos, From
<1>3. Contents
  BY DEF Init, Contents, StreamContents, Messaged, QMatContents
<1> QED  BY <1>1, <1>2, <1>3 DEF IInv

\* Sizes depend on the parameters only, pads on the first base OT as well.
LEMMA Frame ==
    ASSUME base_ot_sizes' = base_ot_sizes
    PROVE  /\ Rows' = Rows /\ Threshold' = Threshold /\ Matrices' = Matrices
           /\ Rejected' = Rejected
           /\ \A columns, n : RowMatrix(columns, n)' = RowMatrix(columns, n)
           /\ \A row, x : Chain(row, x)' = Chain(row, x)
BY DEF Rows, Threshold, Matrices, Rejected, RowMatrix, Chain

LEMMA SeedFrame ==
    ASSUME base_ot_sizes' = base_ot_sizes, baseOts'[1] = baseOts[1]
    PROVE  \A b, from, n : SeedRows(b, from, n)' = SeedRows(b, from, n)
BY Frame DEF SeedRows

\* What is said of a call depends on its result only.
LEMMA CallFrame ==
    ASSUME base_ot_sizes' = base_ot_sizes, baseOts'[1] = baseOts[1],
           NEW k, received'[k] = received[k]
    PROVE  /\ Asked(k)' = Asked(k)
           /\ \A b : CallRows(k, b)' = CallRows(k, b)
           /\ \A x, j : CallWord(k, x, j)' = CallWord(k, x, j)
           /\ CallMatrix(k)' = CallMatrix(k)
           /\ base_choices' = base_choices => CallQMat(k)' = CallQMat(k)
<1>1. Asked(k)' = Asked(k)
  BY DEF Asked
<1>2. \A b : CallRows(k, b)' = CallRows(k, b)
  BY <1>1, SeedFrame DEF CallRows
<1>3. \A x, j : CallWord(k, x, j)' = CallWord(k, x, j)
  BY DEF CallWord
<1>4. CallMatrix(k)' = CallMatrix(k)
  BY <1>1, <1>2, <1>3, Frame DEF CallMatrix
<1>5. base_choices' = base_choices => CallQMat(k)' = CallQMat(k)
  BY <1>1, <1>2, <1>3, Frame DEF CallQMat
<1> QED  BY <1>1, <1>2, <1>3, <1>4, <1>5

\* The contents depend on the base OTs through the first one only, and q_mat on
\* the choices as long as they are those of the first one.
LEMMA ContentsFrame ==
    ASSUME Contents, UNCHANGED <<base_ot_sizes, net, sends, received, q_mat>>,
           baseOts'[1] = baseOts[1], sInstalled' <= 1 => sInstalled <= 1,
           base_choices' = base_choices \/ sends = 0 \/ ~(sInstalled' <= 1), sends \in Nat
    PROVE  Contents'
<1>1. StreamContents'
  <2>1. ASSUME NEW k PROVE CallMatrix(k)' = CallMatrix(k)
    BY CallFrame
  <2> QED  BY <2>1 DEF Contents, StreamContents
<1>2. Messaged'
  <2>1. ASSUME NEW k
        PROVE  Asked(k)' = Asked(k) /\ \A b : CallRows(k, b)' = CallRows(k, b)
    BY CallFrame
  <2> QED  BY <2>1, Frame DEF Contents, Messaged
<1>3. QMatContents'
  <2>1. CASE base_choices' = base_choices
    <3>1. PICK k : k = sends
      OBVIOUS
    <3>2. CallQMat(k)' = CallQMat(k)
      BY <2>1, CallFrame
    <3> QED  BY <3>1, <3>2 DEF Contents, QMatContents
  <2>2. CASE sends = 0
    BY <2>2 DEF Contents, QMatContents
  <2>3. CASE ~(sInstalled' <= 1)
    BY <2>3 DEF Contents, QMatContents
  <2> QED  BY <2>1, <2>2, <2>3
<1> QED  BY <1>1, <1>2, <1>3 DEF Contents

\* The parties are given base OTs that were run, each of the size that the
\* parameters say.
LEMMA BaseOtsRun ==
    ASSUME IInv
    PROVE  /\ baseOts \in Seq(BaseOts) /\ Len(baseOts) \in Nat
           /\ sInstalled \in 0 .. Len(baseOts)
           /\ rInstalled \in 0 .. Len(baseOts)
           /\ \A k \in 1 .. Len(baseOts) : baseOts[k] \in BaseOts /\ Len(baseOts[k].pairs) = Rows
           /\ sInstalled > 0 \/ rInstalled > 0 => 1 \in 1 .. Len(baseOts)
<1>1. baseOts \in Seq(BaseOts) /\ Len(baseOts) \in Nat
  BY DEF IInv, TypeOK
<1>2. sInstalled \in 0 .. Len(baseOts) /\ rInstalled \in 0 .. Len(baseOts)
  BY DEF IInv, TypeOK
<1>3. ASSUME NEW k \in 1 .. Len(baseOts)
      PROVE  baseOts[k] \in BaseOts /\ Len(baseOts[k].pairs) = Rows
  <2>1. k \in DOMAIN baseOts
    BY <1>1
  <2> QED  BY <2>1, <1>1, Element DEF IInv, BaseOtInstalled, BaseOtSize
<1>4. sInstalled > 0 \/ rInstalled > 0 => 1 \in 1 .. Len(baseOts)
  BY <1>1, <1>2
<1> QED  BY <1>1, <1>2, <1>3, <1>4

\* A further base OT leaves the first one as it is.
LEMMA RunBaseOtKeeps ==
    ASSUME IInv, RunBaseOt
    PROVE  IInv'
<1>1. PICK b \in BaseOts : Len(b.pairs) = Rows /\ baseOts' = Append(baseOts, b)
  BY DEF RunBaseOt, Rows
<1>2. /\ UNCHANGED <<base_ot_sizes, net, sInstalled, sPrng, base_choices, q_mat, sends, sStatus>>
      /\ UNCHANGED <<rInstalled, rPrng, received, rStatus>>
  BY DEF RunBaseOt, sVars, rVars
<1>3. /\ baseOts \in Seq(BaseOts) /\ Len(baseOts) \in Nat
      /\ sInstalled \in 0 .. Len(baseOts) /\ rInstalled \in 0 .. Len(baseOts)
      /\ \A k \in 1 .. Len(baseOts) : Len(baseOts[k].pairs) = Rows
  BY BaseOtsRun
<1>4. /\ baseOts' \in Seq(BaseOts) /\ Len(baseOts') = Len(baseOts) + 1
      /\ DOMAIN baseOts = 1 .. Len(baseOts) /\ DOMAIN baseOts' = 1 .. Len(baseOts) + 1
      /\ \A k \in DOMAIN baseOts : baseOts'[k] = baseOts[k]
      /\ baseOts'[Len(baseOts) + 1] = b
  BY <1>1, <1>3, Appended
<1>5. TypeOK'
  <2>1. sInstalled' \in 0 .. Len(baseOts') /\ rInstalled' \in 0 .. Len(baseOts')
    BY <1>2, <1>3, <1>4
  <2> QED  BY <1>2, <1>4, <2>1, Frame DEF IInv, TypeOK
<1>6. BaseOtSize'
  <2>1. ASSUME NEW k \in DOMAIN baseOts' PROVE Len(baseOts'[k].pairs) = Rows
    <3>1. k \in DOMAIN baseOts \/ k = Len(baseOts) + 1
      BY <1>3, <1>4
    <3> QED  BY <3>1, <1>1, <1>3, <1>4
  <2> QED  BY <2>1, <1>2, Frame DEF BaseOtSize
<1>7. Positions'
  BY <1>2, Frame
     DEF IInv, Positions, PositionsInStep, PositionsFresh, PadsFresh, From, RPos, Asked
<1>8. CASE baseOts = <<>>
  <2>1. sInstalled = 0 /\ rInstalled = 0
    BY <1>3, <1>8
  <2>2. sends = 0 /\ received = <<>> /\ net = <<>>
    BY <2>1 DEF IInv, BaseOtInstalled, SenderInstalled, ReceiverInstalled
  <2>3. SenderInstalled' /\ ReceiverInstalled'
    BY <1>2, <2>1 DEF IInv, BaseOtInstalled, SenderInstalled, ReceiverInstalled
  <2>4. Contents'
    BY <1>2, <2>2 DEF IInv, Contents, StreamContents, Messaged, QMatContents
  <2> QED  BY <1>5, <1>6, <1>7, <2>3, <2>4 DEF IInv, BaseOtInstalled
<1>9. CASE baseOts # <<>>
  <2>1. baseOts'[1] = baseOts[1]
    BY <1>3, <1>4, <1>9
  <2>2. Chosen(baseOts[1])' = Chosen(baseOts[1]) /\ RPos' = RPos /\ Rows' = Rows
    BY <1>2, <2>1, Frame DEF Chosen, RPos
  <2>3. SenderInstalled'
    BY <1>2, <2>1, <2>2 DEF IInv, BaseOtInstalled, SenderInstalled
  <2>4. ReceiverInstalled'
    BY <1>2, <2>1, <2>2 DEF IInv, BaseOtInstalled, ReceiverInstalled
  <2>5. Contents'
    BY <1>2, <2>1, ContentsFrame DEF IInv, TypeOK
  <2> QED  BY <1>5, <1>6, <1>7, <2>3, <2>4, <2>5 DEF IInv, BaseOtInstalled
<1> QED  BY <1>8, <1>9

\* A refused call changes nothing but the status.
LEMMA ThrowKeeps ==
    ASSUME IInv, SenderThrow \/ ReceiverThrow
    PROVE  IInv'
<1>1. /\ UNCHANGED <<base_ot_sizes, baseOts, net, sInstalled, rInstalled, sPrng, base_choices,
                     q_mat, rPrng, sends, received>>
      /\ sStatus' \in Status /\ rStatus' \in Status
  BY DEF IInv, TypeOK, SenderThrow, ReceiverThrow, sVars, rVars, Status
<1>2. TypeOK'
  BY <1>1, Frame DEF IInv, TypeOK
<1>3. BaseOtInstalled'
  BY <1>1, Frame
     DEF IInv, BaseOtInstalled, BaseOtSize, SenderInstalled, ReceiverInstalled, RPos, Chosen
<1>4. Positions'
  BY <1>1, Frame
     DEF IInv, Positions, PositionsInStep, PositionsFresh, PadsFresh, From, RPos, Asked
<1>5. Contents'
  BY <1>1, ContentsFrame DEF IInv, TypeOK
<1> QED  BY <1>2, <1>3, <1>4, <1>5 DEF IInv

\* The sender's new generators go behind those in use.
LEMMA SenderSetBaseOtsKeeps ==
    ASSUME IInv, SenderSetBaseOts
    PROVE  IInv'
<1>1. PICK base \in BaseOts : base = baseOts[sInstalled + 1] /\ Len(base.pairs) = Rows
  <2>1. sInstalled + 1 \in 1 .. Len(baseOts)
    BY BaseOtsRun DEF SenderSetBaseOts
  <2> QED  BY <2>1, BaseOtsRun
<1>2. /\ sPrng' = sPrng \o CreatedChosen(base) /\ base_choices' = base.choices \o base_choices
      /\ sInstalled' = sInstalled + 1 /\ sInstalled < Len(baseOts)
      /\ UNCHANGED <<base_ot_sizes, baseOts, net, q_mat, sends, sStatus, rInstalled, rPrng, received, rStatus>>
  BY <1>1 DEF SenderSetBaseOts, rVars
<1>3. /\ base.choices \in Seq(Block) /\ base.choices # <<>>
      /\ CreatedChosen(base) \in Seq(Generator)
      /\ Len(CreatedChosen(base)) = Rows
      /\ <<>> \o CreatedChosen(base) = CreatedChosen(base)
      /\ \A i \in 1 .. Rows : CreatedChosen(base)[i] = [seed |-> Chosen(base)[i], pos |-> 0]
  BY <1>1, ChosenCreated, BaseOtsAssumption
<1>4. /\ sInstalled \in Nat /\ Rows \in Nat \ {0}
      /\ sPrng \in Seq(Generator) /\ base_choices \in Seq(Block)
  BY RowsTypes DEF IInv, TypeOK
<1>5. /\ base_choices' \in Seq(Block) /\ base_choices' # <<>>
      /\ sInstalled = 0 => base_choices' = base.choices
  <2>1. base_choices' \in Seq(Block) /\ base_choices' # <<>>
    BY <1>2, <1>3, <1>4
  <2>2. sInstalled = 0 => base_choices' = base.choices
    BY <1>2, <1>3 DEF IInv, BaseOtInstalled, SenderInstalled
  <2> QED  BY <2>1, <2>2
<1>6. /\ sPrng' \in Seq(Generator)
      /\ Len(sPrng') >= Rows
      /\ \A i \in 1 .. Rows : /\ sPrng'[i].seed = Chosen(baseOts[1])[i]
                              /\ sPrng'[i].pos = IF sInstalled = 0 THEN 0 ELSE sPrng[i].pos
  <2>1. CASE sInstalled = 0
    <3>1. sPrng = <<>>
      BY <2>1 DEF IInv, BaseOtInstalled, SenderInstalled
    <3>2. sPrng' = CreatedChosen(base) /\ base = baseOts[1]
      BY <3>1, <2>1, <1>1, <1>2, <1>3
    <3>3. Chosen(base) = Chosen(baseOts[1])
      BY <3>2
    <3>4. ASSUME NEW i \in 1 .. Rows
          PROVE  CreatedChosen(base)[i].seed = Chosen(base)[i] /\ CreatedChosen(base)[i].pos = 0
      <4>1. CreatedChosen(base)[i] = [seed |-> Chosen(base)[i], pos |-> 0]
        BY <1>3, Zenon
      <4> QED  BY <4>1
    <3>5. sPrng' \in Seq(Generator) /\ Len(sPrng') = Rows /\ Rows >= Rows
      BY <3>2, <1>3, <1>4
    <3>6. \A i \in 1 .. Rows : sPrng'[i].seed = Chosen(baseOts[1])[i] /\ sPrng'[i].pos = 0
      BY <3>2, <3>3, <3>4, Zenon
    <3> QED  BY <2>1, <3>5, <3>6
  <2>2. CASE sInstalled > 0
    <3>1. /\ Len(sPrng) >= Rows
          /\ \A i \in 1 .. Rows : sPrng[i].seed = Chosen(baseOts[1])[i]
      BY <2>2 DEF IInv, BaseOtInstalled, SenderInstalled
    <3>2. /\ sPrng' \in Seq(Generator) /\ Len(sPrng') = Len(sPrng) + Rows
          /\ \A i \in 1 .. Len(sPrng) : sPrng'[i] = sPrng[i]
      <4>1. PICK new \in Seq(Generator) : new = CreatedChosen(base) /\ Len(new) = Rows
        BY <1>3
      <4>2. /\ sPrng \o new \in Seq(Generator) /\ Len(sPrng \o new) = Len(sPrng) + Len(new)
            /\ \A i \in 1 .. Len(sPrng) : (sPrng \o new)[i] = sPrng[i]
        BY <1>4, Concatenated
      <4> QED  BY <4>1, <4>2, <1>2
    <3>3. \A i \in 1 .. Rows : i \in 1 .. Len(sPrng)
      BY <3>1, <1>4
    <3>4. Len(sPrng') >= Rows /\ sInstalled # 0
      BY <2>2, <3>1, <3>2, <1>4
    <3> QED  BY <3>1, <3>2, <3>3, <3>4
  <2>3. sInstalled = 0 \/ sInstalled > 0
    BY <1>4
  <2> QED  BY <2>1, <2>2, <2>3
<1>7. TypeOK'
  <2>1. sInstalled' \in 0 .. Len(baseOts')
    BY <1>2, <1>4, BaseOtsRun
  <2> QED  BY <1>2, <1>5, <1>6, <2>1, Frame DEF IInv, TypeOK
<1>8. BaseOtInstalled'
  <2>1. Chosen(baseOts[1])' = Chosen(baseOts[1]) /\ RPos' = RPos /\ Rows' = Rows
    BY <1>2, Frame DEF Chosen, RPos
  <2>2. SenderInstalled'
    <3>1. sInstalled' # 0 /\ (sInstalled' = 1 => sInstalled = 0)
      BY <1>2, <1>4
    <3>2. sInstalled' = 1 => base_choices' = baseOts'[1].choices
      BY <1>1, <1>2, <1>5, <3>1
    <3> QED  BY <3>1, <3>2, <2>1, <1>5, <1>6 DEF SenderInstalled
  <2>3. (BaseOtSize /\ ReceiverInstalled)'
    BY <1>2, <2>1 DEF IInv, BaseOtInstalled, BaseOtSize, ReceiverInstalled
  <2> QED  BY <2>2, <2>3 DEF BaseOtInstalled
<1>9. Positions'
  <2>1. sInstalled = 0 => sends = 0
    BY DEF IInv, BaseOtInstalled, SenderInstalled
  <2>2. \A l : From(l)' = From(l) /\ Asked(l)' = Asked(l)
    BY <1>2 DEF From, RPos, Asked
  <2>3. \A i \in 1 .. Rows : sPrng'[i].pos = From(sends + 1)
    <3>1. CASE sInstalled = 0
      <4>1. sends + 1 = 1
        BY <2>1, <3>1
      <4> QED  BY <4>1, <3>1, <1>6 DEF IInv, Positions, PositionsInStep
    <3>2. CASE sInstalled > 0
      BY <3>2, <1>4, <1>6 DEF IInv, Positions, PositionsInStep
    <3> QED  BY <3>1, <3>2, <1>4
  <2>4. PositionsInStep'
    BY <2>2, <2>3, <1>2, Frame DEF IInv, Positions, PositionsInStep
  <2>5. PositionsFresh'
    BY <2>2, <1>2, Frame DEF IInv, Positions, PositionsFresh, PadsFresh, RPos
  <2> QED  BY <2>4, <2>5 DEF Positions
<1>10. Contents'
  <2>1. sends = 0 \/ ~(sInstalled' <= 1)
    <3>1. sInstalled = 0 => sends = 0
      BY DEF IInv, BaseOtInstalled, SenderInstalled
    <3> QED  BY <3>1, <1>2, <1>4
  <2>2. sInstalled' <= 1 => sInstalled <= 1
    BY <1>2, <1>4
  <2> QED  BY <2>1, <2>2, <1>2, ContentsFrame DEF IInv, TypeOK
<1> QED  BY <1>7, <1>8, <1>9, <1>10 DEF IInv

\* And so do the receiver's.
LEMMA ReceiverSetBaseOtsKeeps ==
    ASSUME IInv, ReceiverSetBaseOts
    PROVE  IInv'
<1>1. PICK base \in BaseOts : base = baseOts[rInstalled + 1] /\ Len(base.pairs) = Rows
  <2>1. rInstalled + 1 \in 1 .. Len(baseOts)
    BY BaseOtsRun DEF ReceiverSetBaseOts
  <2> QED  BY <2>1, BaseOtsRun
<1>2. /\ rPrng' = rPrng \o CreatedPairs(base)
      /\ rInstalled' = rInstalled + 1 /\ rInstalled < Len(baseOts)
      /\ UNCHANGED <<base_ot_sizes, baseOts, net, received, rStatus, sInstalled, sPrng, base_choices,
                     q_mat, sends, sStatus>>
  BY <1>1 DEF ReceiverSetBaseOts, sVars
<1>3. /\ CreatedPairs(base) \in Seq([0 .. 1 -> Generator])
      /\ Len(CreatedPairs(base)) = Rows
      /\ <<>> \o CreatedPairs(base) = CreatedPairs(base)
      /\ \A i \in 1 .. Rows, b \in 0 .. 1 :
             CreatedPairs(base)[i][b] = [seed |-> base.pairs[i][b], pos |-> 0]
  BY <1>1, PairsCreated
<1>4. rInstalled \in Nat /\ Rows \in Nat \ {0} /\ rPrng \in Seq([0 .. 1 -> Generator])
  BY RowsTypes DEF IInv, TypeOK
<1>5. /\ rPrng' \in Seq([0 .. 1 -> Generator])
      /\ Len(rPrng') >= Rows
      /\ \A i \in 1 .. Rows, b \in 0 .. 1 :
             rPrng'[i][b] = [seed |-> baseOts[1].pairs[i][b], pos |-> RPos]
  <2>1. CASE rInstalled = 0
    <3>1. rPrng = <<>> /\ RPos = 0
      BY <2>1 DEF IInv, BaseOtInstalled, ReceiverInstalled, RPos
    <3>2. rPrng' = CreatedPairs(base) /\ base = baseOts[1]
      BY <3>1, <2>1, <1>1, <1>2, <1>3
    <3>3. rPrng' \in Seq([0 .. 1 -> Generator]) /\ Len(rPrng') = Rows /\ Rows >= Rows
      BY <3>2, <1>3, <1>4
    <3>4. \A i \in 1 .. Rows, b \in 0 .. 1 :
              rPrng'[i][b] = [seed |-> baseOts[1].pairs[i][b], pos |-> RPos]
      BY <3>1, <3>2, <1>3, Zenon
    <3> QED  BY <3>3, <3>4
  <2>2. CASE rInstalled > 0
    <3>1. /\ Len(rPrng) >= Rows
          /\ \A i \in 1 .. Rows, b \in 0 .. 1 :
                 rPrng[i][b] = [seed |-> baseOts[1].pairs[i][b], pos |-> RPos]
      BY <2>2 DEF IInv, BaseOtInstalled, ReceiverInstalled
    <3>2. /\ rPrng' \in Seq([0 .. 1 -> Generator]) /\ Len(rPrng') = Len(rPrng) + Rows
          /\ \A i \in 1 .. Len(rPrng) : rPrng'[i] = rPrng[i]
      <4>1. PICK new \in Seq([0 .. 1 -> Generator]) : new = CreatedPairs(base) /\ Len(new) = Rows
        BY <1>3
      <4>2. /\ rPrng \o new \in Seq([0 .. 1 -> Generator]) /\ Len(rPrng \o new) = Len(rPrng) + Len(new)
            /\ \A i \in 1 .. Len(rPrng) : (rPrng \o new)[i] = rPrng[i]
        BY <1>4, Concatenated
      <4> QED  BY <4>1, <4>2, <1>2
    <3>3. \A i \in 1 .. Rows : i \in 1 .. Len(rPrng)
      BY <3>1, <1>4
    <3>4. Len(rPrng') >= Rows
      BY <3>1, <3>2, <1>4
    <3> QED  BY <3>1, <3>2, <3>3, <3>4
  <2> QED  BY <2>1, <2>2, <1>4
<1>6. RPos' = RPos /\ (rInstalled' # 0)
  <2>1. rInstalled' # 0
    BY <1>2, <1>4
  <2>2. rPrng'[1][0] = [seed |-> baseOts[1].pairs[1][0], pos |-> RPos]
    <3>1. 1 \in 1 .. Rows /\ 0 \in 0 .. 1
      BY <1>4
    <3> QED  BY <3>1, <1>5
  <2>3. rPrng'[1][0].pos = RPos
    BY <2>2
  <2>4. RPos' = rPrng'[1][0].pos
    BY <2>1 DEF RPos
  <2> QED  BY <2>1, <2>3, <2>4
<1>7. TypeOK'
  <2>1. rInstalled' \in 0 .. Len(baseOts')
    BY <1>2, <1>4, BaseOtsRun
  <2> QED  BY <1>2, <1>5, <2>1, Frame DEF IInv, TypeOK
<1>8. BaseOtInstalled'
  <2>1. Chosen(baseOts[1])' = Chosen(baseOts[1]) /\ Rows' = Rows
    BY <1>2, Frame DEF Chosen
  <2>2. ReceiverInstalled'
    BY <1>2, <1>5, <1>6, <2>1 DEF ReceiverInstalled
  <2>3. (BaseOtSize /\ SenderInstalled)'
    BY <1>2, <2>1 DEF IInv, BaseOtInstalled, BaseOtSize, SenderInstalled
  <2> QED  BY <2>2, <2>3 DEF BaseOtInstalled
<1>9. Positions'
  <2>1. \A l : From(l)' = From(l) /\ Asked(l)' = Asked(l)
    BY <1>2, <1>6 DEF From, Asked
  <2>2. PositionsInStep'
    BY <2>1, <1>2, Frame DEF IInv, Positions, PositionsInStep
  <2>3. PositionsFresh'
    BY <2>1, <1>2, <1>6, Frame DEF IInv, Positions, PositionsFresh, PadsFresh
  <2> QED  BY <2>2, <2>3 DEF Positions
<1>10. Contents'
  BY <1>2, ContentsFrame DEF IInv, TypeOK
<1> QED  BY <1>7, <1>8, <1>9, <1>10 DEF IInv

\* The words of a call are blocks.
LEMMA CallWordType ==
    ASSUME NEW k, received[k].choices \in Choices, NEW x \in Nat, NEW j
    PROVE  CallWord(k, x, j) \in Block
BY ChoicesTypes, CodeWordType DEF CallWord

\* A call's matrix, and what is left of it, have the rows that its size is padded to.
LEMMA CallTypes ==
    ASSUME NEW k, received[k].choices \in Choices
    PROVE  /\ Asked(k) \in Sizes /\ Asked(k) \in Nat \ {0}
           /\ CallMatrix(k) \in [0 .. Pad(Asked(k)) - 1 -> [0 .. Threshold - 1 -> Block]]
           /\ CallQMat(k) \in [0 .. Pad(Asked(k)) - 1 -> [0 .. Threshold - 1 -> Block]]
           /\ [0 .. Pad(Asked(k)) - 1 -> [0 .. Threshold - 1 -> Block]] \in Matrices
<1>1. Asked(k) \in Sizes /\ Asked(k) \in Nat \ {0}
  BY ChoicesTypes DEF Asked
<1>2. [0 .. Pad(Asked(k)) - 1 -> [0 .. Threshold - 1 -> Block]] \in Matrices
  BY <1>1 DEF Matrices
<1>3. Pad(Asked(k)) \in Nat
  BY <1>1, PadFacts
<1>4. ASSUME NEW x \in 0 .. Pad(Asked(k)) - 1, NEW j \in 0 .. Threshold - 1
      PROVE  /\ CallWord(k, x, j) (+) (CallRows(k, 0)[x][j] (+) CallRows(k, 1)[x][j]) \in Block
             /\ CallRows(k, 0)[x][j] (+) (CallWord(k, x, j) \cap base_choices[j + 1]) \in Block
  <2>1. CallWord(k, x, j) \in Block
    <3>1. x \in Nat
      BY <1>3
    <3> QED  BY <3>1, CallWordType
  <2>2. CallRows(k, 0)[x][j] \in Block /\ CallRows(k, 1)[x][j] \in Block
    BY RowMatrixType DEF CallRows, SeedRows
  <2>3. CallWord(k, x, j) \cap base_choices[j + 1] \in Block
    BY <2>1 DEF Block
  <2> QED  BY <2>1, <2>2, <2>3, XorBlock
<1> QED  BY <1>1, <1>2, <1>4 DEF CallMatrix, CallQMat

\* What the receiver's generators yield for n transfers, and where they stand
\* afterwards.
LEMMA PadsDrawn ==
    ASSUME IInv, rInstalled > 0, NEW n \in Nat \ {0}
    PROVE  /\ RPos \in Nat /\ RPos = rPrng[1][0].pos
           /\ \A b \in 0 .. 1 : PadRows(b, n) = SeedRows(b, RPos, n)
           /\ ReceiverGenerators(n) \in Seq([0 .. 1 -> Generator])
           /\ Len(ReceiverGenerators(n)) >= Rows
           /\ \A i \in 1 .. Rows, b \in 0 .. 1 :
                  ReceiverGenerators(n)[i][b] =
                      [seed |-> baseOts[1].pairs[i][b], pos |-> RPos + Cols(n)]
<1>1. rInstalled # 0
  BY BaseOtsRun
<1>2. Rows \in Nat \ {0} /\ Cols(n) \in Nat
  BY RowsTypes, PadFacts DEF IInv, TypeOK
<1>3. /\ rPrng \in Seq([0 .. 1 -> Generator]) /\ Len(rPrng) >= Rows
      /\ \A i \in 1 .. Rows, b \in 0 .. 1 :
             rPrng[i][b] = [seed |-> baseOts[1].pairs[i][b], pos |-> RPos]
  BY <1>1 DEF IInv, TypeOK, BaseOtInstalled, ReceiverInstalled
<1>4. RPos \in Nat /\ RPos = rPrng[1][0].pos
  BY <1>1, <1>2, <1>3 DEF RPos, Generator
<1>5. ASSUME NEW b \in 0 .. 1
      PROVE  PadRows(b, n) = SeedRows(b, RPos, n)
  <2>1. ASSUME NEW i \in 0 .. Rows - 1
        PROVE  Drawn(rPrng[i + 1][b], Cols(n)) =
                   [j \in 0 .. Cols(n) - 1 |-> Prg[baseOts[1].pairs[i + 1][b]][RPos + j]]
    <3>1. i + 1 \in 1 .. Rows
      BY <1>2
    <3>2. rPrng[i + 1][b] = [seed |-> baseOts[1].pairs[i + 1][b], pos |-> RPos]
      BY <1>3, <3>1
    <3>3. rPrng[i + 1][b].seed = baseOts[1].pairs[i + 1][b] /\ rPrng[i + 1][b].pos = RPos
      BY <3>2
    <3> QED  BY <3>3 DEF Drawn
  <2>2. [i \in 0 .. Rows - 1 |-> Drawn(rPrng[i + 1][b], Cols(n))] =
            [i \in 0 .. Rows - 1 |->
                [j \in 0 .. Cols(n) - 1 |-> Prg[baseOts[1].pairs[i + 1][b]][RPos + j]]]
    BY <2>1
  <2> QED  BY <2>2 DEF PadRows, SeedRows
<1>6. /\ ReceiverGenerators(n) = [g \in 1 .. Len(rPrng) |-> ReceiverGenerators(n)[g]]
      /\ \A g \in 1 .. Len(rPrng) :
             ReceiverGenerators(n)[g] =
                 IF g <= Rows THEN [b \in 0 .. 1 |-> Advanced(rPrng[g][b], Cols(n))] ELSE rPrng[g]
  <2> DEFINE G(g) == IF g <= Rows THEN [b \in 0 .. 1 |-> Advanced(rPrng[g][b], Cols(n))]
                     ELSE rPrng[g]
  <2>1. ReceiverGenerators(n) = [g \in 1 .. Len(rPrng) |-> G(g)]
    BY <1>3 DEF ReceiverGenerators
  <2>2. /\ ReceiverGenerators(n) = [g \in 1 .. Len(rPrng) |-> ReceiverGenerators(n)[g]]
        /\ \A g \in 1 .. Len(rPrng) : ReceiverGenerators(n)[g] = G(g)
    <3> HIDE DEF G
    <3> QED  BY <2>1
  <2> QED  BY <2>2
<1>7. ASSUME NEW g \in 1 .. Len(rPrng), NEW b \in 0 .. 1
      PROVE  Advanced(rPrng[g][b], Cols(n)) \in Generator
  <2>1. rPrng[g] \in [0 .. 1 -> Generator]
    BY <1>3, Element
  <2>2. PICK gen \in Generator : gen = rPrng[g][b]
    BY <2>1
  <2>3. gen.pos + Cols(n) \in Nat
    BY <1>2 DEF Generator
  <2>4. Advanced(gen, Cols(n)) \in Generator
    BY <2>3 DEF Advanced, Generator
  <2> QED  BY <2>2, <2>4
<1>8. ReceiverGenerators(n) \in Seq([0 .. 1 -> Generator]) /\ Len(ReceiverGenerators(n)) >= Rows
  <2>1. ASSUME NEW g \in 1 .. Len(rPrng)
        PROVE  ReceiverGenerators(n)[g] \in [0 .. 1 -> Generator]
    <3>1. rPrng[g] \in [0 .. 1 -> Generator]
      BY <1>3, Element
    <3>2. [b \in 0 .. 1 |-> Advanced(rPrng[g][b], Cols(n))] \in [0 .. 1 -> Generator]
      BY <1>7
    <3> QED  BY <3>1, <3>2, <1>6
  <2>2. Len(rPrng) \in Nat
    BY <1>3
  <2>3. /\ ReceiverGenerators(n) \in Seq([0 .. 1 -> Generator])
        /\ Len(ReceiverGenerators(n)) = Len(rPrng)
    BY <1>6, <2>1, <2>2
  <2> QED  BY <2>3, <1>3
<1>9. ASSUME NEW i \in 1 .. Rows, NEW b \in 0 .. 1
      PROVE  ReceiverGenerators(n)[i][b] =
                 [seed |-> baseOts[1].pairs[i][b], pos |-> RPos + Cols(n)]
  <2>1. i \in 1 .. Len(rPrng) /\ i <= Rows
    BY <1>2, <1>3
  <2>2. ReceiverGenerators(n)[i][b] = Advanced(rPrng[i][b], Cols(n))
    BY <2>1, <1>6
  <2>3. rPrng[i][b] = [seed |-> baseOts[1].pairs[i][b], pos |-> RPos]
    BY <1>3
  <2> QED  BY <2>2, <2>3 DEF Advanced
<1> QED  BY <1>4, <1>5, <1>8, <1>9

\* What the invariant says of the calls' results and the stream.
LEMMA CallsTyped ==
    ASSUME IInv
    PROVE  /\ received \in Seq(Call) /\ net \in Seq(UNION Matrices)
           /\ sends \in Nat /\ Len(received) = sends + Len(net)
           /\ Len(received) \in Nat /\ Len(net) \in Nat
           /\ DOMAIN received = 1 .. Len(received) /\ DOMAIN net = 1 .. Len(net)
           /\ \A k \in DOMAIN received :
                  /\ received[k] \in Call
                  /\ received[k].choices \in Choices /\ received[k].from \in Nat
                  /\ Cols(Asked(k)) \in Nat /\ Asked(k) \in Nat \ {0}
<1>1. received \in Seq(Call) /\ net \in Seq(UNION Matrices) /\ sends \in Nat
  BY DEF IInv, TypeOK, Call
<1>2. Len(received) = sends + Len(net)
  BY DEF IInv, Positions, PositionsInStep
<1>3. ASSUME NEW k \in DOMAIN received
      PROVE  /\ received[k] \in Call
             /\ received[k].choices \in Choices /\ received[k].from \in Nat
             /\ Cols(Asked(k)) \in Nat /\ Asked(k) \in Nat \ {0}
  <2>1. received[k] \in Call
    BY <1>1, Element
  <2>2. received[k].choices \in Choices /\ received[k].from \in Nat
    BY <2>1 DEF Call
  <2>3. Asked(k) \in Nat \ {0}
    BY <2>2, CallTypes
  <2> QED  BY <2>1, <2>2, <2>3, PadFacts
<1> QED  BY <1>1, <1>2, <1>3

\* A receive draws the next pads, and appends a matrix and a result that fit.
LEMMA ReceiverReceiveKeeps ==
    ASSUME IInv, NEW choices \in Choices, ReceiverReceive(choices)
    PROVE  IInv'
<1> DEFINE n == Len(choices)
           messages == [x \in 0 .. n - 1 |-> Chain(PadRows(0, n)[x], x)]
           result == [from |-> RPos, choices |-> choices, messages |-> messages]
<1>1. /\ UNCHANGED <<base_ot_sizes, baseOts, rInstalled, rStatus,
                     sInstalled, sPrng, base_choices, q_mat, sends, sStatus>>
      /\ rInstalled > 0
      /\ rPrng' = ReceiverGenerators(n)
      /\ net' = Append(net, RowMat(choices))
  BY DEF ReceiverReceive, sVars
<1>2. n \in Nat \ {0} /\ n \in Sizes /\ Cols(n) \in Nat /\ n <= Pad(n) /\ Pad(n) \in Nat
      /\ Threshold \in Nat
  BY ChoicesTypes, PadFacts, RowsTypes DEF IInv, TypeOK
<1>3. /\ RPos \in Nat /\ RPos = rPrng[1][0].pos
      /\ \A b \in 0 .. 1 : PadRows(b, n) = SeedRows(b, RPos, n)
      /\ rPrng' \in Seq([0 .. 1 -> Generator]) /\ Len(rPrng') >= Rows
      /\ \A i \in 1 .. Rows, b \in 0 .. 1 :
             rPrng'[i][b] = [seed |-> baseOts[1].pairs[i][b], pos |-> RPos + Cols(n)]
  BY <1>1, <1>2, PadsDrawn
<1>4. RPos' = RPos + Cols(n)
  <2>1. 1 \in 1 .. Rows /\ 0 \in 0 .. 1
    BY RowsTypes DEF IInv, TypeOK
  <2>2. rPrng'[1][0] = [seed |-> baseOts[1].pairs[1][0], pos |-> RPos + Cols(n)]
    BY <2>1, <1>3
  <2>3. rPrng'[1][0].pos = RPos + Cols(n) /\ rInstalled' # 0
    BY <2>2, <1>1, BaseOtsRun
  <2> QED  BY <2>3 DEF RPos
<1>5. received' = Append(received, result)
  BY <1>3 DEF ReceiverReceive
<1>6. messages \in [0 .. n - 1 -> Block]
  <2>1. ASSUME NEW x \in 0 .. n - 1 PROVE Chain(PadRows(0, n)[x], x) \in Block
    <3>1. x \in 0 .. Pad(n) - 1
      BY <1>2
    <3>2. PadRows(0, n)[x] \in [0 .. Threshold - 1 -> Block]
      BY <3>1, RowMatrixType DEF PadRows
    <3> QED  BY <3>2, <1>2, ChainType
  <2> QED  BY <2>1
<1>7. /\ result \in Call
      /\ result.from = RPos /\ result.choices = choices /\ result.messages = messages
  BY <1>2, <1>3, <1>6 DEF Call, Messages
<1> HIDE DEF messages, result
<1>8. PICK N \in Nat \ {0} : N = Len(received) + 1
  BY CallsTyped
<1>9. /\ DOMAIN received = 1 .. N - 1 /\ DOMAIN received' = 1 .. N
      /\ \A k \in DOMAIN received : received'[k] = received[k]
      /\ received'[N] = result /\ Len(received') = N
      /\ received' \in Seq(Call)
  BY <1>5, <1>7, <1>8, CallsTyped, Appended
<1>10. /\ Asked(N)' = n
       /\ received'[N].from = RPos /\ received'[N].choices = choices
       /\ received'[N].messages = messages
  BY <1>7, <1>9 DEF Asked
<1>11. ASSUME NEW k \in DOMAIN received
       PROVE  /\ received'[k] = received[k] /\ Asked(k)' = Asked(k)
              /\ \A b : CallRows(k, b)' = CallRows(k, b)
              /\ CallMatrix(k)' = CallMatrix(k)
              /\ CallQMat(k)' = CallQMat(k)
  BY <1>1, <1>9, CallFrame
<1>12. /\ \A b \in 0 .. 1 : CallRows(N, b)' = PadRows(b, n)
       /\ CallMatrix(N)' = RowMat(choices)
  <2>1. \A b \in 0 .. 1 : CallRows(N, b)' = SeedRows(b, RPos, n)
    BY <1>1, <1>10, SeedFrame DEF CallRows
  <2>2. \A b \in 0 .. 1 : CallRows(N, b)' = PadRows(b, n)
    BY <2>1, <1>3
  <2>3. \A x, j : CallWord(N, x, j)' = CodeWord(PaddedChoice(choices, x), j)
    BY <1>10 DEF CallWord
  <2>4. CallMatrix(N)' =
            [x \in 0 .. Pad(n) - 1 |-> [j \in 0 .. Threshold - 1 |->
                CodeWord(PaddedChoice(choices, x), j)
                    (+) (PadRows(0, n)[x][j] (+) PadRows(1, n)[x][j])]]
    <3>1. CallRows(N, 0)' = PadRows(0, n) /\ CallRows(N, 1)' = PadRows(1, n)
      BY <2>2
    <3> QED  BY <3>1, <2>3, <1>1, <1>10, Frame DEF CallMatrix
  <2> QED  BY <2>2, <2>4 DEF RowMat
<1>13. RowMat(choices) \in UNION Matrices
  <2>1. ASSUME NEW x \in 0 .. Pad(n) - 1, NEW j \in 0 .. Threshold - 1
        PROVE  CodeWord(PaddedChoice(choices, x), j)
                   (+) (PadRows(0, n)[x][j] (+) PadRows(1, n)[x][j]) \in Block
    <3>1. CodeWord(PaddedChoice(choices, x), j) \in Block
      <4>1. x \in Nat
        BY <1>2
      <4> QED  BY <4>1, ChoicesTypes, CodeWordType
    <3>2. PadRows(0, n)[x][j] \in Block /\ PadRows(1, n)[x][j] \in Block
      BY RowMatrixType DEF PadRows
    <3> QED  BY <3>1, <3>2, XorBlock
  <2>2. RowMat(choices) \in [0 .. Pad(n) - 1 -> [0 .. Threshold - 1 -> Block]]
    BY <2>1 DEF RowMat
  <2>3. [0 .. Pad(n) - 1 -> [0 .. Threshold - 1 -> Block]] \in Matrices
    BY <1>2 DEF Matrices
  <2> QED  BY <2>2, <2>3
<1>14. TypeOK'
  <2>1. net' \in Seq(UNION Matrices)
    BY <1>1, <1>13, CallsTyped
  <2>2. \A k \in DOMAIN received' :
            DOMAIN received'[k].messages = 0 .. Len(received'[k].choices) - 1
    <3>1. DOMAIN messages = 0 .. n - 1
      BY <1>6
    <3>2. ASSUME NEW k \in DOMAIN received'
          PROVE  DOMAIN received'[k].messages = 0 .. Len(received'[k].choices) - 1
      <4>1. CASE k = N
        BY <3>1, <4>1, <1>10
      <4>2. CASE k \in DOMAIN received
        BY <4>2, <1>9 DEF IInv, TypeOK
      <4> QED  BY <4>1, <4>2, <1>9
    <3> QED  BY <3>2
  <2>3. received' \in Seq([from : Nat, choices : Choices, messages : Messages])
    BY <1>9 DEF Call
  <2> QED  BY <2>1, <2>2, <2>3, <1>1, <1>3, Frame DEF IInv, TypeOK
<1>15. BaseOtInstalled'
  <2>1. (BaseOtSize /\ SenderInstalled)'
    BY <1>1, Frame DEF IInv, BaseOtInstalled, BaseOtSize, SenderInstalled, Chosen
  <2>2. ReceiverInstalled'
    <3>1. rInstalled' # 0
      BY <1>1, BaseOtsRun
    <3> QED  BY <3>1, <1>1, <1>3, <1>4, Frame DEF ReceiverInstalled
  <2> QED  BY <2>1, <2>2 DEF BaseOtInstalled
<1>16. /\ \A k \in 1 .. N : From(k)' = From(k)
       /\ From(N) = RPos /\ From(N + 1)' = RPos + Cols(n)
  BY <1>4, <1>8, <1>9, <1>10 DEF From
<1>17. Positions'
  <2>1. Len(received') = sends' + Len(net')
    <3>1. Len(net') = Len(net) + 1
      BY <1>1, CallsTyped
    <3> QED  BY <3>1, <1>1, <1>8, <1>9, CallsTyped
  <2>2. From(1)' = 0
    <3>1. From(1)' = From(1)
      BY <1>16
    <3> QED  BY <3>1 DEF IInv, Positions, PositionsInStep
  <2>3. ASSUME NEW k \in DOMAIN received'
        PROVE  From(k + 1)' = received'[k].from + Cols(Asked(k)')
    <3>1. CASE k = N
      BY <3>1, <1>10, <1>16
    <3>2. CASE k \in DOMAIN received
      <4>1. k + 1 \in 1 .. N
        BY <3>2, <1>9
      <4> QED  BY <3>2, <4>1, <1>11, <1>16 DEF IInv, Positions, PositionsInStep
    <3> QED  BY <3>1, <3>2, <1>9
  <2>4. sInstalled' > 0 => \A i \in 1 .. Rows : sPrng'[i].pos = From(sends + 1)'
    <3>1. PICK m \in 1 .. N : m = sends + 1
      BY <1>8, CallsTyped
    <3>2. From(m)' = From(m)
      BY <3>1, <1>16
    <3> QED  BY <3>1, <3>2, <1>1 DEF IInv, Positions, PositionsInStep
  <2>5. PositionsInStep'
    BY <2>1, <2>2, <2>3, <2>4, <1>1, Frame DEF PositionsInStep
  <2>6. ASSUME NEW k \in DOMAIN received'
        PROVE  received'[k].from + Cols(Asked(k)') <= RPos'
    <3>1. CASE k \in DOMAIN received
      <4>1. received[k].from + Cols(Asked(k)) <= RPos
        BY <3>1 DEF IInv, Positions, PositionsFresh
      <4>2. received[k].from \in Nat /\ Cols(Asked(k)) \in Nat
        BY <3>1, CallsTyped
      <4>3. \A a, b, c, d \in Nat : a + b <= c => a + b <= c + d
        OBVIOUS
      <4>4. RPos \in Nat /\ Cols(n) \in Nat /\ RPos' = RPos + Cols(n)
        BY <1>2, <1>3, <1>4
      <4>5. received'[k] = received[k] /\ Cols(Asked(k)') = Cols(Asked(k))
        BY <3>1, <1>11
      <4> QED  BY <4>1, <4>2, <4>3, <4>4, <4>5
    <3>2. CASE k = N
      BY <3>2, <1>2, <1>3, <1>4, <1>10
    <3> QED  BY <3>1, <3>2, <1>9
  <2>7. ASSUME NEW k \in DOMAIN received', NEW l \in DOMAIN received', k < l
        PROVE  received'[k].from + Cols(Len(received'[k].choices)) <= received'[l].from
    <3>1. k \in DOMAIN received
      BY <2>7, <1>9
    <3>2. CASE l = N
      <4>1. received[k].from + Cols(Asked(k)) <= RPos
        BY <3>1 DEF IInv, Positions, PositionsFresh
      <4> QED  BY <3>1, <3>2, <4>1, <1>10, <1>11 DEF Asked
    <3>3. CASE l \in DOMAIN received
      BY <2>7, <3>1, <3>3, <1>9 DEF IInv, Positions, PositionsFresh, PadsFresh
    <3> QED  BY <3>2, <3>3, <1>9
  <2>8. PadsFresh'
    BY <2>7 DEF PadsFresh
  <2> QED  BY <2>5, <2>6, <2>8 DEF Positions, PositionsFresh
<1>18. StreamContents'
  <2>1. ASSUME NEW k \in DOMAIN net'
        PROVE  net'[k] = CallMatrix(sends + k)'
    <3>1. PICK m \in 1 .. N : m = sends + k
      BY <1>1, <1>8, <1>13, CallsTyped
    <3>2. CASE k \in DOMAIN net
      <4>1. m \in DOMAIN received /\ net'[k] = net[k]
        BY <3>1, <3>2, <1>1, <1>8, <1>9, <1>13, CallsTyped
      <4>2. net'[k] = CallMatrix(m)'
        BY <3>1, <3>2, <4>1, <1>11 DEF IInv, Contents, StreamContents
      <4> QED  BY <4>2, <3>1, <1>1
    <3>3. CASE k = Len(net) + 1
      <4>1. m = N /\ net'[k] = RowMat(choices)
        BY <3>1, <3>3, <1>1, <1>8, <1>13, CallsTyped
      <4>2. net'[k] = CallMatrix(m)'
        BY <4>1, <1>12
      <4> QED  BY <4>2, <3>1, <1>1
    <3> QED  BY <3>2, <3>3, <1>1, <1>13, CallsTyped
  <2> QED  BY <2>1 DEF StreamContents
<1>19. Messaged'
  <2>1. ASSUME NEW k \in DOMAIN received', NEW x \in 0 .. Asked(k)' - 1
        PROVE  received'[k].messages[x] = Chain(CallRows(k, 0)'[x], x)
    <3>1. CASE k = N
      BY <3>1, <1>10, <1>12 DEF messages
    <3>2. CASE k \in DOMAIN received
      BY <3>2, <1>11 DEF IInv, Contents, Messaged
    <3> QED  BY <3>1, <3>2, <1>9
  <2> QED  BY <2>1, <1>1, Frame DEF Messaged
<1>20. QMatContents'
  <2>1. CASE sends = 0
    BY <2>1, <1>1, CallsTyped DEF IInv, Contents, QMatContents
  <2>2. CASE sends > 0
    <3>1. PICK m \in DOMAIN received : m = sends
      BY <2>2, CallsTyped
    <3>2. sInstalled' <= 1 => q_mat' = CallQMat(m)'
      BY <2>2, <3>1, <1>1, <1>11 DEF IInv, Contents, QMatContents
    <3>3. sends' = m /\ sends' # 0
      BY <2>2, <3>1, <1>1
    <3> QED  BY <3>2, <3>3 DEF QMatContents
  <2> QED  BY <2>1, <2>2, CallsTyped
<1> QED  BY <1>14, <1>15, <1>17, <1>18, <1>19, <1>20 DEF IInv, Contents

\* What the sender computes from the matrix at the head of the stream are blocks,
\* and with its choices of the first base OT what the invariant says of the
\* receiver's call, whatever number of transfers it was asked for, as it pads to
\* the same size.
LEMMA SenderRows ==
    ASSUME IInv, NEW n \in Sizes, SenderSend(n), NEW k \in Nat, k = sends + 1
    PROVE  /\ sInstalled > 0
           /\ k \in DOMAIN received
           /\ Cols(n) = Cols(Asked(k)) /\ Cols(n) \in Nat
           /\ \A i \in 1 .. Rows : sPrng[i].pos = received[k].from
           /\ QMatrix(Head(net), n) \in [0 .. Pad(n) - 1 -> [0 .. Threshold - 1 -> Block]]
           /\ sInstalled <= 1 => QMatrix(Head(net), n) = CallQMat(k)
<1>1. sInstalled > 0 /\ sInstalled \in Nat /\ 1 \in 1 .. Len(baseOts)
  <2>1. sInstalled > 0
    BY DEF SenderSend, CanSend
  <2> QED  BY <2>1, BaseOtsRun
<1>2. /\ base_ot_sizes \in BaseOtSizes /\ base_ot_sizes % W = 0
      /\ Rows \in Nat \ {0} /\ Threshold \in Nat
  BY RowsTypes DEF IInv, TypeOK, SenderSend, CanSend, Rejected
<1>3. /\ net # <<>> /\ 1 \in DOMAIN net /\ Head(net) = net[1]
      /\ k \in DOMAIN received /\ DOMAIN Head(net) = 0 .. Pad(n) - 1
  BY CallsTyped DEF SenderSend, CanSend
<1>4. /\ received[k].choices \in Choices /\ received[k].from \in Nat
      /\ Asked(k) \in Nat \ {0} /\ n \in Nat \ {0}
  BY <1>3, CallsTyped, SizesAssumption
<1>5. Head(net) = CallMatrix(k)
  BY <1>3 DEF IInv, Contents, StreamContents
<1>6. Pad(n) = Pad(Asked(k)) /\ Cols(n) = Cols(Asked(k)) /\ Cols(n) \in Nat
  <2>1. DOMAIN CallMatrix(k) = 0 .. Pad(Asked(k)) - 1
    BY DEF CallMatrix
  <2>2. Pad(n) \in Nat \ {0} /\ Pad(Asked(k)) \in Nat \ {0}
    BY <1>4, PadFacts
  <2>3. Pad(n) = Pad(Asked(k))
    BY <2>1, <2>2, <1>3, <1>5, SameRows
  <2> QED  BY <2>3, <1>4, PadFacts DEF Cols
<1> DEFINE m == Asked(k)
           from == received[k].from
           column(b) == [i \in 0 .. Rows - 1 |->
                            [j \in 0 .. Cols(m) - 1 |-> Prg[baseOts[1].pairs[i + 1][b]][from + j]]]
           drawn == [i \in 0 .. Rows - 1 |-> Drawn(sPrng[i + 1], Cols(n))]
<1>7. /\ \A i \in 1 .. Rows : sPrng[i].seed = Chosen(baseOts[1])[i] /\ sPrng[i].pos = from
      /\ sInstalled <= 1 => base_choices = baseOts[1].choices
      /\ Len(baseOts[1].pairs) = Rows
  <2>1. From(k) = from
    BY <1>3 DEF From
  <2>2. \A i \in 1 .. Rows : sPrng[i].seed = Chosen(baseOts[1])[i]
    BY <1>1 DEF IInv, BaseOtInstalled, SenderInstalled
  <2>3. \A i \in 1 .. Rows : sPrng[i].pos = from
    BY <1>1, <2>1 DEF IInv, Positions, PositionsInStep
  <2>4. sInstalled <= 1 => base_choices = baseOts[1].choices
    BY <1>1 DEF IInv, BaseOtInstalled, SenderInstalled
  <2> QED  BY <1>1, <2>2, <2>3, <2>4, BaseOtsRun
<1>8. ASSUME sInstalled <= 1, NEW i \in 0 .. Rows - 1
      PROVE  drawn[i] = IF BitFromBlocks(base_choices, i) = 1
                        THEN column(1)[i] ELSE column(0)[i]
  <2>1. i + 1 \in 1 .. Rows /\ (i + 1) - 1 = i
    BY <1>2
  <2>2. sPrng[i + 1].seed = baseOts[1].pairs[i + 1][BitFromBlocks(base_choices, i)]
    BY <1>7, <1>8, <2>1 DEF Chosen
  <2>3. sPrng[i + 1].pos = from
    BY <1>7, <2>1
  <2>4. Drawn(sPrng[i + 1], Cols(n)) =
            [j \in 0 .. Cols(m) - 1 |->
                Prg[baseOts[1].pairs[i + 1][BitFromBlocks(base_choices, i)]][from + j]]
    BY <2>2, <2>3, <1>6 DEF Drawn
  <2>5. drawn[i] = column(BitFromBlocks(base_choices, i))[i]
    BY <2>4
  <2> HIDE DEF drawn, column
  <2> QED  BY <2>5 DEF BitFromBlocks
<1>9. /\ CallRows(k, 0) = RowMatrix(column(0), m)
      /\ CallRows(k, 1) = RowMatrix(column(1), m)
      /\ RowMatrix(drawn, n) = RowMatrix(drawn, m)
  <2>1. RowMatrix(drawn, n) = RowMatrix(drawn, m)
    BY <1>6 DEF RowMatrix
  <2> QED  BY <2>1 DEF CallRows, SeedRows
<1> HIDE DEF drawn, column, from
<1>10. ASSUME sInstalled <= 1, NEW x \in 0 .. Pad(n) - 1, NEW j \in 0 .. Threshold - 1
       PROVE  RowMatrix(drawn, n)[x][j] (+) (Head(net)[x][j] \cap base_choices[j + 1])
                  = CallRows(k, 0)[x][j] (+) (CallWord(k, x, j) \cap base_choices[j + 1])
  <2>1. x \in 0 .. Pad(m) - 1
    BY <1>6
  <2>2. Head(net)[x][j] = CallWord(k, x, j) (+) (CallRows(k, 0)[x][j] (+) CallRows(k, 1)[x][j])
    <3>1. CallMatrix(k)[x][j] =
              CallWord(k, x, j) (+) (CallRows(k, 0)[x][j] (+) CallRows(k, 1)[x][j])
      BY <2>1 DEF CallMatrix
    <3> QED  BY <3>1, <1>5
  <2>3. Unmasks(RowMatrix(drawn, m)[x][j], CallWord(k, x, j), RowMatrix(column(0), m)[x][j],
                RowMatrix(column(1), m)[x][j], base_choices[j + 1])
    <3>1. Selects(drawn, base_choices, column(0), column(1))
      BY <1>8, <1>10 DEF Selects
    <3> QED  BY <2>1, <3>1, <1>2, MaskedRow, Zenon
  <2> QED  BY <2>2, <2>3, <1>9 DEF Unmasks
<1>11. ASSUME sInstalled <= 1
       PROVE  QMatrix(Head(net), n) = CallQMat(k)
  <2>1. QMatrix(Head(net), n) =
            [x \in 0 .. Pad(n) - 1 |-> [j \in 0 .. Threshold - 1 |->
                RowMatrix(drawn, n)[x][j] (+) (Head(net)[x][j] \cap base_choices[j + 1])]]
    BY DEF QMatrix, drawn
  <2>2. CallQMat(k) =
            [x \in 0 .. Pad(n) - 1 |-> [j \in 0 .. Threshold - 1 |->
                CallRows(k, 0)[x][j] (+) (CallWord(k, x, j) \cap base_choices[j + 1])]]
    BY <1>6 DEF CallQMat
  <2> DEFINE F(x, j) == RowMatrix(drawn, n)[x][j] (+) (Head(net)[x][j] \cap base_choices[j + 1])
             G(x, j) == CallRows(k, 0)[x][j] (+) (CallWord(k, x, j) \cap base_choices[j + 1])
  <2>3. \A x \in 0 .. Pad(n) - 1, j \in 0 .. Threshold - 1 : F(x, j) = G(x, j)
    BY <1>10, <1>11
  <2>4. /\ QMatrix(Head(net), n) =
               [x \in 0 .. Pad(n) - 1 |-> [j \in 0 .. Threshold - 1 |-> F(x, j)]]
        /\ CallQMat(k) = [x \in 0 .. Pad(n) - 1 |-> [j \in 0 .. Threshold - 1 |-> G(x, j)]]
    BY <2>1, <2>2
  <2> HIDE DEF F, G
  <2> QED  BY <2>3, <2>4
<1>12. QMatrix(Head(net), n) \in [0 .. Pad(n) - 1 -> [0 .. Threshold - 1 -> Block]]
  <2>1. ASSUME NEW x \in 0 .. Pad(n) - 1, NEW j \in 0 .. Threshold - 1
        PROVE  RowMatrix(drawn, n)[x][j] (+) (Head(net)[x][j] \cap base_choices[j + 1]) \in Block
    <3>1. RowMatrix(drawn, n)[x][j] \in Block
      BY RowMatrixType
    <3>2. Head(net)[x][j] \in Block
      <4>1. CallMatrix(k) \in [0 .. Pad(n) - 1 -> [0 .. Threshold - 1 -> Block]]
        BY <1>4, <1>6, CallTypes
      <4> QED  BY <4>1, <1>5
    <3>3. Head(net)[x][j] \cap base_choices[j + 1] \in Block
      BY <3>2 DEF Block
    <3> QED  BY <3>1, <3>3, XorBlock
  <2> QED  BY <2>1 DEF QMatrix, drawn
<1> QED  BY <1>1, <1>3, <1>6, <1>7, <1>11, <1>12 DEF from

\* A send takes the head of the stream and replaces q_mat by what is left of it.
LEMMA SenderSendKeeps ==
    ASSUME IInv, NEW n \in Sizes, SenderSend(n)
    PROVE  IInv'
<1>1. PICK k \in Nat : k = sends + 1
  BY CallsTyped
<1>2. /\ UNCHANGED <<base_ot_sizes, baseOts, sInstalled, base_choices, sStatus,
                     rInstalled, rPrng, received, rStatus>>
      /\ net' = Tail(net) /\ net # <<>>
      /\ sPrng' = SenderGenerators(n)
      /\ q_mat' = QMatrix(Head(net), n)
      /\ sends' = k
  BY <1>1 DEF SenderSend, CanSend, rVars
<1> DEFINE from == received[k].from
<1>3. /\ sInstalled > 0
      /\ k \in DOMAIN received
      /\ Cols(n) = Cols(Asked(k)) /\ Cols(n) \in Nat
      /\ \A i \in 1 .. Rows : sPrng[i].pos = from
      /\ q_mat' \in [0 .. Pad(n) - 1 -> [0 .. Threshold - 1 -> Block]]
      /\ sInstalled <= 1 => q_mat' = CallQMat(k)
  BY <1>1, <1>2, SenderRows
<1>4. received[k].choices \in Choices /\ from \in Nat
  BY <1>3, CallsTyped
<1> HIDE DEF from
<1>5. /\ net' \in Seq(UNION Matrices) /\ Len(net') = Len(net) - 1
      /\ DOMAIN net' = 1 .. Len(net) - 1
      /\ \A l \in DOMAIN net' : l + 1 \in DOMAIN net /\ net'[l] = net[l + 1]
  BY <1>2, CallsTyped
<1>6. /\ sPrng' \in Seq(Generator) /\ Len(sPrng') >= Rows
      /\ \A i \in 1 .. Rows : /\ sPrng'[i].seed = Chosen(baseOts[1])[i]
                              /\ sPrng'[i].pos = from + Cols(n)
  <2>1. /\ sPrng \in Seq(Generator) /\ Len(sPrng) >= Rows /\ Rows \in Nat
        /\ \A i \in 1 .. Rows : sPrng[i].seed = Chosen(baseOts[1])[i]
    BY <1>3, RowsTypes DEF IInv, TypeOK, BaseOtInstalled, SenderInstalled
  <2>2. /\ \A g \in DOMAIN sPrng :
               sPrng'[g] = IF g <= Rows THEN Advanced(sPrng[g], Cols(n)) ELSE sPrng[g]
        /\ DOMAIN sPrng = 1 .. Len(sPrng) /\ Len(sPrng) \in Nat
    BY <1>2, <2>1 DEF SenderGenerators
  <2>3. ASSUME NEW g \in DOMAIN sPrng
        PROVE  /\ Advanced(sPrng[g], Cols(n)) \in Generator
               /\ Advanced(sPrng[g], Cols(n)).seed = sPrng[g].seed
               /\ Advanced(sPrng[g], Cols(n)).pos = sPrng[g].pos + Cols(n)
               /\ sPrng[g] \in Generator
    <3>1. sPrng[g] \in Generator
      BY <2>1, Element
    <3>2. sPrng[g].pos + Cols(n) \in Nat
      BY <3>1, <1>3 DEF Generator
    <3> QED  BY <3>1, <3>2 DEF Advanced, Generator
  <2>4. sPrng' = [g \in 1 .. Len(sPrng) |-> sPrng'[g]]
    BY <2>2, <1>2 DEF SenderGenerators
  <2>5. sPrng' \in Seq(Generator) /\ Len(sPrng') = Len(sPrng)
    BY <2>2, <2>3, <2>4
  <2>6. ASSUME NEW i \in 1 .. Rows
        PROVE  sPrng'[i].seed = Chosen(baseOts[1])[i] /\ sPrng'[i].pos = from + Cols(n)
    <3>1. i \in DOMAIN sPrng /\ i <= Rows
      BY <2>1, <2>2
    <3>2. sPrng'[i] = Advanced(sPrng[i], Cols(n))
      BY <3>1, <2>2
    <3> QED  BY <3>1, <3>2, <2>1, <2>3, <1>3
  <2> QED  BY <2>1, <2>5, <2>6
<1>7. TypeOK'
  <2>1. q_mat' \in UNION Matrices /\ \E M \in Matrices : q_mat' \in M
    BY <1>3 DEF Matrices
  <2>2. sends' \in Nat
    BY <1>2
  <2> QED  BY <2>1, <2>2, <1>2, <1>5, <1>6, Frame DEF IInv, TypeOK
<1>8. BaseOtInstalled'
  <2>1. Chosen(baseOts[1])' = Chosen(baseOts[1]) /\ RPos' = RPos
    BY <1>2 DEF Chosen, RPos
  <2>2. SenderInstalled'
    <3>1. sInstalled' # 0 /\ (sInstalled' = 1 => base_choices' = baseOts'[1].choices)
      <4>1. sInstalled # 0
        BY <1>3, BaseOtsRun
      <4> QED  BY <4>1, <1>2 DEF IInv, BaseOtInstalled, SenderInstalled
    <3> QED  BY <3>1, <1>2, <1>6, <2>1, Frame DEF SenderInstalled
  <2>3. rInstalled # 0
    BY <1>3 DEF IInv, BaseOtInstalled, ReceiverInstalled
  <2>4. ReceiverInstalled'
    BY <1>2, <2>1, <2>3, Frame DEF IInv, BaseOtInstalled, ReceiverInstalled
  <2>5. BaseOtSize'
    BY <1>2, Frame DEF IInv, BaseOtInstalled, BaseOtSize
  <2> QED  BY <2>2, <2>4, <2>5 DEF BaseOtInstalled
<1>9. /\ \A l : From(l)' = From(l)
      /\ \A l : Asked(l)' = Asked(l)
  BY <1>2 DEF From, RPos, Asked
<1>10. Positions'
  <2>1. Len(received') = sends' + Len(net')
    BY <1>1, <1>2, <1>5, CallsTyped
  <2>2. PICK m \in Nat : m = k + 1 /\ m = sends' + 1
    BY <1>2
  <2>3. From(m)' = from + Cols(n)
    <3>1. From(m) = from + Cols(n)
      BY <1>3, <2>2 DEF IInv, Positions, PositionsInStep, from
    <3> QED  BY <3>1, <1>9
  <2>4. \A i \in 1 .. Rows : sPrng'[i].pos = From(m)'
    BY <1>6, <2>3
  <2>5. From(1)' = 0 /\ \A l \in DOMAIN received' : From(l + 1)' = received'[l].from + Cols(Asked(l))'
    BY <1>2, <1>9 DEF IInv, Positions, PositionsInStep
  <2>6. PositionsInStep'
    BY <2>1, <2>2, <2>4, <2>5, <1>2, Frame DEF PositionsInStep
  <2>7. PositionsFresh'
    BY <1>2, <1>9 DEF IInv, Positions, PositionsFresh, PadsFresh, RPos
  <2> QED  BY <2>6, <2>7 DEF Positions
<1>11. \A l : /\ CallMatrix(l)' = CallMatrix(l) /\ CallQMat(l)' = CallQMat(l)
              /\ \A b : CallRows(l, b)' = CallRows(l, b)
  <2>1. ASSUME NEW l
        PROVE  /\ CallMatrix(l)' = CallMatrix(l) /\ CallQMat(l)' = CallQMat(l)
               /\ \A b : CallRows(l, b)' = CallRows(l, b)
    BY <1>2, CallFrame
  <2> QED  BY <2>1
<1>12. StreamContents'
  <2>1. ASSUME NEW l \in DOMAIN net'
        PROVE  net'[l] = CallMatrix(sends + l)'
    <3>1. PICK m \in Nat : m = k + l /\ m = sends + (l + 1) /\ m = sends' + l
      <4>1. l \in Nat /\ sends \in Nat
        BY <1>5, CallsTyped
      <4>2. \A a \in Nat, b \in Nat : (a + 1) + b = a + (b + 1) /\ (a + 1) + b \in Nat
        OBVIOUS
      <4>3. k + l \in Nat /\ k + l = sends + (l + 1) /\ k + l = sends' + l
        BY <4>1, <4>2, <1>1, <1>2
      <4> QED  BY <4>3
    <3>2. net'[l] = CallMatrix(m)
      BY <3>1, <1>5 DEF IInv, Contents, StreamContents
    <3> QED  BY <3>1, <3>2, <1>11
  <2> QED  BY <2>1 DEF StreamContents
<1>13. Messaged'
  BY <1>2, <1>9, <1>11, Frame DEF IInv, Contents, Messaged
<1>14. QMatContents'
  <2>1. sInstalled' <= 1 => q_mat' = CallQMat(k)'
    BY <1>2, <1>3, <1>11
  <2>2. k # 0
    BY <1>1, CallsTyped
  <2> QED  BY <2>1, <2>2, <1>2 DEF QMatContents
<1> QED  BY <1>7, <1>8, <1>10, <1>12, <1>13, <1>14 DEF IInv, Contents

\* Nothing changes, nothing breaks.
LEMMA StutterKeeps ==
    ASSUME IInv, UNCHANGED vars
    PROVE  IInv'
<1>1. /\ UNCHANGED <<base_ot_sizes, baseOts, net, sInstalled, sPrng, base_choices, q_mat, sends,
                     sStatus>>
      /\ UNCHANGED <<rInstalled, rPrng, received, rStatus>>
  BY DEF vars, sVars, rVars
<1>2. TypeOK'
  BY <1>1, Frame DEF IInv, TypeOK
<1>3. BaseOtInstalled'
  BY <1>1, Frame
     DEF IInv, BaseOtInstalled, BaseOtSize, SenderInstalled, ReceiverInstalled, RPos, Chosen
<1>4. Positions'
  BY <1>1, Frame
     DEF IInv, Positions, PositionsInStep, PositionsFresh, PadsFresh, From, RPos, Asked
<1>5. Contents'
  BY <1>1, ContentsFrame DEF IInv, TypeOK
<1> QED  BY <1>2, <1>3, <1>4, <1>5 DEF IInv

\* Every step keeps the invariant.
LEMMA StepKeeps ==
    ASSUME IInv, [Next]_vars
    PROVE  IInv'
<1>1. CASE RunBaseOt
  BY <1>1, RunBaseOtKeeps
<1>2. CASE SenderSetBaseOts
  BY <1>2, SenderSetBaseOtsKeeps
<1>3. CASE SenderThrow \/ ReceiverThrow
  BY <1>3, ThrowKeeps
<1>4. CASE \E n \in Sizes : SenderSend(n)
  BY <1>4, SenderSendKeeps
<1>5. CASE ReceiverSetBaseOts
  BY <1>5, ReceiverSetBaseOtsKeeps
<1>6. CASE \E choices \in Choices : ReceiverReceive(choices)
  BY <1>6, ReceiverReceiveKeeps
<1>7. CASE UNCHANGED vars
  BY <1>7, StutterKeeps
<1> QED  BY <1>1, <1>2, <1>3, <1>4, <1>5, <1>6, <1>7
         DEF Next, SenderStep, ReceiverStep

-----------------------------------------------------------------------------
(* The theorems: for every size of block, every parameters, base OTs,      *)
(* generator and hash, any number of calls and any number of base OTs.     *)

\* However often either party is given a base OT, before, between and after
\* calls, the inductive invariant holds.
THEOREM Invariance == Spec => []IInv
<1>1. Init => IInv
  BY InitInvariant
<1>2. IInv /\ [Next]_vars => IInv'
  BY StepKeeps
<1> QED  BY <1>1, <1>2, PTL DEF Spec

\* Every variable keeps its type: in particular matrices have whole blocks of
\* rows and every message, the end of a hash chain, is a block.
THEOREM TypeCorrectness == Spec => []TypeOK
<1>1. IInv => TypeOK
  BY DEF IInv
<1> QED  BY <1>1, Invariance, PTL

\* No two calls draw the same blocks of a generator, whatever their sizes.
THEOREM PadsStayFresh == Spec => []PadsFresh
<1>1. IInv => PadsFresh
  BY DEF IInv, Positions, PositionsFresh
<1> QED  BY <1>1, Invariance, PTL

\* What encode answers after the sender's last call, for that call's choices.
LEMMA Encoded == ASSUME IInv, sInstalled <= 1 PROVE EncodesChosen
<1> SUFFICES ASSUME sends > 0
             PROVE  LET call == received[sends]
                    IN  /\ DOMAIN q_mat = 0 .. Pad(Len(call.choices)) - 1
                        /\ \A x \in DOMAIN call.messages :
                               Encode(x, call.choices[x + 1]) = call.messages[x]
  BY DEF EncodesChosen
<1>1. PICK k \in DOMAIN received : k = sends
  BY CallsTyped
<1>2. q_mat = CallQMat(k)
  BY <1>1 DEF IInv, Contents, QMatContents
<1>3. DOMAIN q_mat = 0 .. Pad(Asked(k)) - 1
  BY <1>2 DEF CallQMat
<1>4. received[k].choices \in Choices /\ Asked(k) \in Nat \ {0} /\ Asked(k) <= Pad(Asked(k))
      /\ Pad(Asked(k)) \in Nat
  BY CallsTyped, PadFacts
<1>5. DOMAIN received[k].messages = 0 .. Asked(k) - 1
  BY DEF IInv, TypeOK, Asked
<1>6. ASSUME NEW x \in 0 .. Asked(k) - 1
      PROVE  Encode(x, received[k].choices[x + 1]) = received[k].messages[x]
  <2>1. x \in 0 .. Pad(Asked(k)) - 1
    BY <1>4
  <2>2. \A j : CallWord(k, x, j) = CodeWord(received[k].choices[x + 1], j)
    BY <1>4 DEF CallWord, PaddedChoice, Asked
  <2>3. ASSUME NEW j \in 0 .. Threshold - 1
        PROVE  (base_choices[j + 1] \cap CodeWord(received[k].choices[x + 1], j)) (+) q_mat[x][j]
                   = CallRows(k, 0)[x][j]
    <3>1. q_mat[x][j] = CallRows(k, 0)[x][j] (+) (CallWord(k, x, j) \cap base_choices[j + 1])
      BY <2>1, <1>2 DEF CallQMat
    <3>2. PICK word, choice, row : /\ word = CodeWord(received[k].choices[x + 1], j)
                                   /\ choice = base_choices[j + 1]
                                   /\ row = CallRows(k, 0)[x][j]
      OBVIOUS
    <3>3. q_mat[x][j] = row (+) (word \cap choice)
      BY <3>1, <3>2, <2>2
    <3>4. (choice \cap word) (+) (row (+) (word \cap choice)) = row
      BY DEF (+)
    <3> QED  BY <3>2, <3>3, <3>4
  <2>4. CallRows(k, 0)[x] = [j \in 0 .. Threshold - 1 |-> CallRows(k, 0)[x][j]]
    <3>1. CallRows(k, 0)[x] \in [0 .. Threshold - 1 -> Block]
      BY <2>1, RowMatrixType DEF CallRows, SeedRows
    <3> QED  BY <3>1
  <2>5. [j \in 0 .. Threshold - 1 |->
            (base_choices[j + 1] \cap CodeWord(received[k].choices[x + 1], j)) (+) q_mat[x][j]]
        = CallRows(k, 0)[x]
    BY <2>3, <2>4
  <2>6. received[k].messages[x] = Chain(CallRows(k, 0)[x], x)
    BY DEF IInv, Contents, Messaged
  <2> QED  BY <2>5, <2>6 DEF Encode
<1> QED  BY <1>1, <1>3, <1>5, <1>6 DEF Asked

\* Until the sender is given a second base OT, encode maps, after every send, the
\* receiver's choices in that call to its messages, for calls of any sizes and
\* however far the receiver is ahead; further base OTs of the receiver alone
\* change nothing.
THEOREM EncodesUntilRenewedHolds == Spec => [](sInstalled <= 1 => EncodesChosen)
<1>1. IInv => (sInstalled <= 1 => EncodesChosen)
  BY Encoded
<1> QED  BY <1>1, Invariance, PTL

\* The invariant relates generators and stream.
LEMMA InStep == ASSUME IInv PROVE StreamsInStep
<1> SUFFICES ASSUME sInstalled > 0, rInstalled > 0
             PROVE  /\ Len(net) = Len(received) - sends
                    /\ \A i \in 1 .. Rows : sPrng[i].pos = PadsFrom(sends + 1)
                    /\ \A k \in DOMAIN net :
                           DOMAIN net[k] = 0 .. Pad(Len(received[sends + k].choices)) - 1
  BY DEF StreamsInStep
<1>1. rInstalled # 0
  BY BaseOtsRun
<1>2. \A k : PadsFrom(k) = From(k)
  BY <1>1 DEF PadsFrom, From, RPos
<1>3. Len(net) = Len(received) - sends
  BY CallsTyped
<1>4. \A i \in 1 .. Rows : sPrng[i].pos = PadsFrom(sends + 1)
  BY <1>1, <1>2 DEF IInv, Positions, PositionsInStep
<1>5. \A k \in DOMAIN net : DOMAIN net[k] = 0 .. Pad(Len(received[sends + k].choices)) - 1
  BY DEF IInv, Contents, StreamContents, CallMatrix, Asked
<1> QED  BY <1>3, <1>4, <1>5

\* The sender's generators trail the receiver's by exactly the pads of the
\* matrices on the stream, each of which has the rows of its own call, across
\* any number of set_base_ots on either side.
THEOREM StreamsStayInStep == Spec => []StreamsInStep
<1>1. IInv => StreamsInStep
  BY InStep
<1> QED  BY <1>1, Invariance, PTL

\* The sender never waits in recv_data for rows that are not those of the call it
\* is in, and never throws where the receiver has sent.
THEOREM NeverStuckHolds == Spec => []NeverStuck
<1>1. Init => RefusedInv
  BY DEF Init, RefusedInv
<1>2. RefusedInv /\ [Next]_vars => RefusedInv'
  <2> SUFFICES ASSUME RefusedInv, [Next]_vars
               PROVE  RefusedInv'
    OBVIOUS
  <2>1. Rejected' <=> Rejected
    BY DEF Next, SenderStep, ReceiverStep, RunBaseOt, SenderSetBaseOts, SenderThrow, SenderSend,
           ReceiverSetBaseOts, ReceiverThrow, ReceiverReceive, vars, Rejected
  <2>2. CASE \/ \E n \in Sizes : SenderSend(n)
             \/ \E choices \in Choices : ReceiverReceive(choices)
    <3>1. ~Rejected /\ sStatus' = sStatus
      BY <2>2 DEF SenderSend, CanSend, ReceiverReceive, sVars
    <3> QED  BY <2>1, <3>1 DEF RefusedInv
  <2>3. CASE SenderThrow
    BY <2>1, <2>3 DEF SenderThrow, RefusedInv
  <2>4. CASE RunBaseOt \/ SenderSetBaseOts \/ ReceiverSetBaseOts \/ ReceiverThrow \/ UNCHANGED vars
    <3>1. UNCHANGED <<net, sStatus>>
      BY <2>4 DEF RunBaseOt, SenderSetBaseOts, ReceiverSetBaseOts, ReceiverThrow, vars, sVars
    <3> QED  BY <2>1, <3>1 DEF RefusedInv
  <2> QED  BY <2>2, <2>3, <2>4 DEF Next, SenderStep, ReceiverStep
<1>3. IInv /\ RefusedInv => NeverStuck
  <2> SUFFICES ASSUME IInv, RefusedInv, net # <<>>, sInstalled > 0
               PROVE  CanSend(Len(received[sends + 1].choices))
    BY DEF NeverStuck
  <2>1. ~Rejected /\ sStatus = "ready"
    BY DEF RefusedInv
  <2>2. 1 \in DOMAIN net /\ Head(net) = net[1]
    BY CallsTyped
  <2>3. Head(net) = CallMatrix(sends + 1)
    BY <2>2 DEF IInv, Contents, StreamContents
  <2>4. DOMAIN Head(net) = 0 .. Pad(Asked(sends + 1)) - 1
    BY <2>3 DEF CallMatrix
  <2> QED  BY <2>1, <2>4 DEF CanSend, Asked
<1> QED  BY <1>1, <1>2, <1>3, Invariance, PTL DEF Spec

-----------------------------------------------------------------------------
(* The extension implements RandomNcoOt.                                   *)

\* Whatever is encoded, for a transfer that q_mat has a row of, is a block.
LEMMA EncodeType ==
    ASSUME IInv, sInstalled <= 1, sends > 0, NEW x \in DOMAIN q_mat, NEW input \in Block
    PROVE  Encode(x, input) \in Block
<1>1. PICK k \in DOMAIN received : k = sends
  BY CallsTyped
<1>2. q_mat = CallQMat(k) /\ Threshold \in Nat
  BY <1>1, RowsTypes DEF IInv, TypeOK, Contents, QMatContents
<1>3. q_mat \in [0 .. Pad(Asked(k)) - 1 -> [0 .. Threshold - 1 -> Block]]
  BY <1>2, CallsTyped, CallTypes
<1>4. ASSUME NEW j \in 0 .. Threshold - 1
      PROVE  (base_choices[j + 1] \cap CodeWord(input, j)) (+) q_mat[x][j] \in Block
  <2>1. base_choices[j + 1] \cap CodeWord(input, j) \in Block
    BY CodeWordType DEF Block
  <2>2. q_mat[x][j] \in Block
    BY <1>3
  <2> QED  BY <2>1, <2>2, XorBlock
<1>5. [j \in 0 .. Threshold - 1 |-> (base_choices[j + 1] \cap CodeWord(input, j)) (+) q_mat[x][j]]
          \in [0 .. Threshold - 1 -> Block]
  BY <1>4
<1> QED  BY <1>2, <1>5, ChainType DEF Encode

\* After a send the oracle takes blocks to blocks, and fits the results of the
\* call that the send answered.
OracleFits ==
    sends > 0 => /\ \A x \in DOMAIN Oracle : Oracle[x] \in [Block -> Block]
                 /\ Abstract!Answers(Oracle, Outcomes[sends])

LEMMA Fits == ASSUME IInv, sInstalled <= 1 PROVE OracleFits
<1> SUFFICES ASSUME sends > 0
             PROVE  /\ \A x \in DOMAIN Oracle : Oracle[x] \in [Block -> Block]
                    /\ Abstract!Answers(Oracle, Outcomes[sends])
  BY DEF OracleFits
<1>1. \A x \in DOMAIN Oracle : Oracle[x] \in [Block -> Block]
  <2>1. \A x \in DOMAIN q_mat : \A input \in Block : Encode(x, input) \in Block
    BY EncodeType
  <2> QED  BY <2>1 DEF Oracle
<1>2. PICK k \in DOMAIN received : k = sends
  BY CallsTyped
<1>3. /\ DOMAIN q_mat = 0 .. Pad(Asked(k)) - 1
      /\ \A x \in DOMAIN received[k].messages :
             Encode(x, received[k].choices[x + 1]) = received[k].messages[x]
  BY <1>2, Encoded DEF EncodesChosen, Asked
<1>4. /\ DOMAIN received[k].messages = 0 .. Asked(k) - 1
      /\ received[k].choices \in Choices
      /\ Asked(k) \in Nat \ {0} /\ Pad(Asked(k)) \in Nat /\ Asked(k) <= Pad(Asked(k))
  BY CallsTyped, PadFacts DEF IInv, TypeOK, Asked
<1>5. /\ Outcomes[k].messages = received[k].messages
      /\ \A x \in DOMAIN received[k].messages :
             Outcomes[k].choices[x] = received[k].choices[x + 1]
  BY DEF Outcomes
<1>6. ASSUME NEW x \in DOMAIN received[k].messages
      PROVE  /\ x \in DOMAIN Oracle
             /\ received[k].messages[x] = Oracle[x][received[k].choices[x + 1]]
  <2>1. x \in DOMAIN q_mat
    BY <1>3, <1>4
  <2>2. received[k].choices[x + 1] \in Block
    <3>1. x \in Nat /\ x < Len(received[k].choices)
      BY <1>4 DEF Asked
    <3>2. PaddedChoice(received[k].choices, x) \in Block
      BY <3>1, <1>4, ChoicesTypes
    <3> QED  BY <3>1, <3>2 DEF PaddedChoice
  <2>3. x \in DOMAIN Oracle
    BY <2>1 DEF Oracle
  <2>4. PICK choice \in Block : choice = received[k].choices[x + 1]
    BY <2>2
  <2>5. Oracle[x][choice] = Encode(x, choice)
    BY <2>1 DEF Oracle
  <2>6. Encode(x, choice) = received[k].messages[x]
    BY <1>3, <2>4
  <2> QED  BY <2>3, <2>4, <2>5, <2>6
<1>7. Abstract!Answers(Oracle, Outcomes[k])
  BY <1>5, <1>6 DEF Abstract!Answers
<1> QED  BY <1>1, <1>2, <1>7

\* The results that RandomNcoOt sees are those of the calls made so far.
LEMMA OutcomesFrame ==
    ASSUME received' = received
    PROVE  Outcomes' = Outcomes
BY DEF Outcomes

\* encode answers from these variables only.
LEMMA OracleFrame ==
    ASSUME UNCHANGED <<base_ot_sizes, q_mat, base_choices>>
    PROVE  Oracle' = Oracle
<1>1. \A x, input : Encode(x, input)' = Encode(x, input)
  BY Frame DEF Encode
<1> QED  BY <1>1 DEF Oracle

\* A send is SenderReturns of RandomNcoOt.
LEMMA SenderImplements ==
    ASSUME IInv, OracleFits', NEW n \in Sizes, SenderSend(n)
    PROVE  Abstract!SenderReturns
<1>1. PICK k \in Nat : k = sends + 1
  BY CallsTyped
<1>2. /\ UNCHANGED <<base_ot_sizes, received>> /\ sends' = k /\ k > 0
  BY <1>1, CallsTyped DEF SenderSend, rVars
<1>3. k \in DOMAIN received
  BY <1>1, SenderRows
<1>4. Outcomes' = Outcomes /\ Len(Outcomes) = Len(received) /\ sends < Len(received)
  <2>1. Len(Outcomes) = Len(received)
    BY CallsTyped DEF Outcomes
  <2> QED  BY <2>1, <1>1, <1>2, <1>3, CallsTyped, OutcomesFrame
<1>5. /\ \A x \in DOMAIN Oracle' : Oracle'[x] \in [Block -> Block]
      /\ Abstract!Answers(Oracle', Outcomes[k])
  BY <1>2, <1>4 DEF OracleFits, Abstract!Answers
<1> QED  BY <1>1, <1>2, <1>4, <1>5 DEF Abstract!SenderReturns

\* A receive is ReceiverReturns of RandomNcoOt.
LEMMA ReceiverImplements ==
    ASSUME IInv, IInv', NEW choices \in Choices, ReceiverReceive(choices)
    PROVE  Abstract!ReceiverReturns
<1>1. PICK k \in Nat : k = Len(received) + 1
  BY CallsTyped
<1>2. PICK result : received' = Append(received, result)
  BY DEF ReceiverReceive
<1>3. UNCHANGED <<base_ot_sizes, sends, q_mat, base_choices>>
  BY DEF ReceiverReceive, sVars
<1>4. received \in Seq(Call) /\ received' \in Seq(Call)
  BY DEF IInv, TypeOK, Call
<1>5. /\ Len(received') = k /\ DOMAIN received = 1 .. k - 1 /\ DOMAIN received' = 1 .. k
      /\ \A l \in DOMAIN received : received'[l] = received[l]
  BY <1>1, <1>2, <1>4
<1> DEFINE Seen(r) == [choices  |-> [x \in DOMAIN r.messages |-> r.choices[x + 1]],
                       messages |-> r.messages]
           O == UNION {Abstract!Results(n) : n \in Sizes}
<1>6. /\ Outcomes = [l \in 1 .. k - 1 |-> Seen(received[l])]
      /\ Outcomes' = [l \in 1 .. k |-> Seen(received'[l])]
  BY <1>5 DEF Outcomes
<1>7. ASSUME NEW l \in 1 .. k
      PROVE  Seen(received'[l]) \in O
  <2>1. received'[l] \in Call
    BY <1>4, <1>5, Element
  <2>2. DOMAIN received'[l].messages = 0 .. Len(received'[l].choices) - 1
    BY <1>5 DEF IInv, TypeOK
  <2>3. PICK c, n : c = received'[l].choices /\ n = Len(c)
    OBVIOUS
  <2>4. c \in Choices /\ n \in Sizes /\ n \in Nat \ {0} /\ c \in Seq(Input)
    BY <2>1, <2>3, ChoicesTypes DEF Call
  <2>5. received'[l].messages \in [0 .. n - 1 -> Block]
    <3>1. PICK m \in Sizes : received'[l].messages \in [0 .. m - 1 -> Block]
      BY <2>1 DEF Call, Messages
    <3>2. 0 .. m - 1 = 0 .. n - 1
      BY <2>2, <2>3, <3>1
    <3> QED  BY <3>1, <3>2
  <2>6. [x \in 0 .. n - 1 |-> c[x + 1]] \in [0 .. n - 1 -> Block]
    <3>1. ASSUME NEW x \in 0 .. n - 1 PROVE c[x + 1] \in Block
      <4>1. x + 1 \in 1 .. n
        BY <2>4
      <4>2. c[x + 1] \in Input
        BY <2>3, <2>4, <4>1
      <4> QED  BY <4>2, InputAssumption
    <3> QED  BY <3>1
  <2>7. Seen(received'[l]) \in Abstract!Results(n)
    BY <2>2, <2>3, <2>5, <2>6 DEF Abstract!Results
  <2> QED  BY <2>4, <2>7
<1> HIDE DEF Seen, O
<1>8. /\ Outcomes' = Append(Outcomes, Outcomes'[k])
      /\ Len(Outcomes) + 1 = k /\ Len(Outcomes') = k
      /\ Outcomes'[k] \in O
  <2>1. \A l \in 1 .. k - 1 : Outcomes'[l] = Outcomes[l]
    BY <1>1, <1>5, <1>6
  <2>2. Outcomes \in Seq(O) /\ Len(Outcomes) = k - 1
    <3>1. \A l \in 1 .. k - 1 : Seen(received[l]) \in O
      BY <1>1, <1>5, <1>7
    <3>2. k - 1 \in Nat
      BY <1>1, <1>4
    <3> QED  BY <1>6, <3>1, <3>2
  <2>3. Outcomes' \in Seq(O) /\ Len(Outcomes') = k
    BY <1>1, <1>6, <1>7
  <2> QED  BY <2>1, <2>2, <2>3, <1>1, <1>5, <1>6
<1>9. \E n \in Sizes : Outcomes'[k] \in Abstract!Results(n)
  BY <1>8 DEF O
<1>10. Oracle' = Oracle
  BY <1>3, OracleFrame
<1> QED  BY <1>3, <1>8, <1>9, <1>10 DEF Abstract!ReceiverReturns

\* Nothing else changes what RandomNcoOt sees: choices are installed before
\* there are rows to encode from.
LEMMA OthersStutter ==
    ASSUME IInv, sInstalled' <= 1,
           RunBaseOt \/ SenderSetBaseOts \/ SenderThrow \/ ReceiverSetBaseOts \/ ReceiverThrow
               \/ UNCHANGED vars
    PROVE  UNCHANGED Abstract!vars
<1>1. UNCHANGED <<base_ot_sizes, sends, received, q_mat>>
  BY DEF RunBaseOt, SenderSetBaseOts, SenderThrow, ReceiverSetBaseOts, ReceiverThrow,
         vars, sVars, rVars
<1>2. Oracle' = Oracle
  <2>1. CASE SenderSetBaseOts
    <3>1. sInstalled = 0
      BY <2>1, BaseOtsRun DEF SenderSetBaseOts
    <3>2. q_mat = <<>>
      BY <3>1 DEF IInv, BaseOtInstalled, SenderInstalled, Contents, QMatContents
    <3>3. DOMAIN q_mat = {}
      BY <3>2
    <3> QED  BY <3>3, <1>1 DEF Oracle
  <2>2. CASE UNCHANGED base_choices
    BY <2>2, <1>1, OracleFrame
  <2>3. SenderSetBaseOts \/ UNCHANGED base_choices
    BY DEF RunBaseOt, SenderThrow, ReceiverSetBaseOts, ReceiverThrow, vars, sVars, rVars
  <2> QED  BY <2>1, <2>2, <2>3
<1> QED  BY <1>1, <1>2, OutcomesFrame DEF Abstract!vars

\* As long as the sender is given no second base OT, every behaviour of the two
\* parties is, seen by what encode answers and the calls of receive return, one
\* of a random 1-out-of-n OT.
THEOREM RefinementUntilRenewed == Spec /\ [](sInstalled <= 1) => ImplementsRandomNcoOt
<1>1. Init => Abstract!Init
  BY DEF Init, Abstract!Init, Outcomes, Oracle
<1>2. ASSUME IInv, IInv', OracleFits', (sInstalled <= 1)', [Next]_vars
      PROVE  [Abstract!Next]_(Abstract!vars)
  <2>1. CASE \E n \in Sizes : SenderSend(n)
    BY <1>2, <2>1, SenderImplements DEF Abstract!Next
  <2>2. CASE \E choices \in Choices : ReceiverReceive(choices)
    BY <1>2, <2>2, ReceiverImplements DEF Abstract!Next
  <2>3. CASE RunBaseOt \/ SenderSetBaseOts \/ SenderThrow \/ ReceiverSetBaseOts \/ ReceiverThrow
                 \/ UNCHANGED vars
    BY <1>2, <2>3, OthersStutter
  <2> QED  BY <1>2, <2>1, <2>2, <2>3 DEF Next, SenderStep, ReceiverStep
<1>3. IInv /\ sInstalled <= 1 => OracleFits
  BY Fits
<1> QED  BY <1>1, <1>2, <1>3, Invariance, PTL DEF Spec, ImplementsRandomNcoOt, Abstract!Spec

-----------------------------------------------------------------------------
(* One base OT is all that the library's own programs run for a pair of    *)
(* objects: then nothing is left to ask of the sender.                     *)

\* Nobody is given more base OTs than were run.
LEMMA GivenOnce == ASSUME MaxBaseOts = 1 PROVE Spec => [](sInstalled <= 1)
<1> DEFINE Run == baseOts \in Seq(BaseOts) /\ Len(baseOts) <= MaxBaseOts
<1>1. Init => Run
  BY BoundsAssumption DEF Init
<1>2. Run /\ [Next]_vars => Run'
  <2> SUFFICES ASSUME Run, [Next]_vars PROVE Run'
    OBVIOUS
  <2>1. CASE RunBaseOt
    <3>1. PICK b \in BaseOts : baseOts' = Append(baseOts, b)
      BY <2>1 DEF RunBaseOt
    <3>2. baseOts' \in Seq(BaseOts) /\ Len(baseOts') = Len(baseOts) + 1
      BY <3>1, Appended
    <3>3. Len(baseOts) < MaxBaseOts /\ Len(baseOts) \in Nat
      BY <2>1 DEF RunBaseOt
    <3> QED  BY <3>2, <3>3, BoundsAssumption
  <2>2. CASE UNCHANGED baseOts
    BY <2>2
  <2>3. RunBaseOt \/ UNCHANGED baseOts
    BY DEF Next, SenderStep, ReceiverStep, SenderSetBaseOts, SenderThrow, SenderSend,
           ReceiverSetBaseOts, ReceiverThrow, ReceiverReceive, vars
  <2> QED  BY <2>1, <2>2, <2>3
<1>3. Run /\ TypeOK => sInstalled <= 1
  BY DEF TypeOK
<1> HIDE DEF Run
<1> QED  BY <1>1, <1>2, <1>3, TypeCorrectness, PTL DEF Spec

\* With one base OT, after every send encode maps the receiver's choices in that
\* call to its messages.
THEOREM EncodesChosenHolds == ASSUME MaxBaseOts = 1 PROVE Spec => []EncodesChosen
BY EncodesUntilRenewedHolds, GivenOnce, PTL

\* With one base OT the extension implements a random 1-out-of-n OT.
THEOREM Refinement == ASSUME MaxBaseOts = 1 PROVE Spec => ImplementsRandomNcoOt
BY RefinementUntilRenewed, GivenOnce, PTL
=============================================================================
