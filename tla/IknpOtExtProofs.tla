-------------------------- MODULE IknpOtExtProofs --------------------------
(***************************************************************************)
(* Proofs about IknpOtExt, for blocks of any size, any parameters, base    *)
(* OTs, generator and hash, any number of calls and any number of base     *)
(* OTs, installed by either party at any time.  Only what depends on the   *)
(* sender's choices ends when the sender is given a second base OT: the    *)
(* run iknp_second_base_ot shows that ChosenMessages then fails.           *)
(*                                                                         *)
(* The argument: the transposition lemma RowCorrected, which says what the *)
(* sender's corrected matrix has in each row; one lemma per action that it *)
(* keeps IInv; the theorems.                                               *)
(***************************************************************************)
EXTENDS IknpOtExtInv, SeedLemmas

-----------------------------------------------------------------------------
(* Blocks.                                                                 *)

\* Hashing yields a block.
LEMMA TweakedType ==
    ASSUME NEW block \in Block, NEW x
    PROVE  Tweaked(block, x) \in Block
BY IntBlockType, XorBlock, PrimitivesAssumption DEF Tweaked

-----------------------------------------------------------------------------
(* Matrices.                                                               *)

\* The sizes are naturals.
LEMMA ParamsTypes ==
    ASSUME params \in Params
    PROVE  /\ Rows \in Nat \ {0}
           /\ params.ext_ot_sizes \in Nat \ {0}
           /\ Cols \in Nat
<1>1. /\ params.base_ot_sizes \in Nat \ {0}
      /\ params.ext_ot_sizes \in Nat \ {0}
  BY ParamsAssumption
<1>2. params.ext_ot_sizes \div W \in Nat
  BY <1>1, WAssumption
<1> QED  BY <1>1, <1>2 DEF Rows, Cols

\* A transfer's index names a row and a column that exist.
LEMMA TransferIndex ==
    ASSUME params \in Params, params.ext_ot_sizes % W = 0, NEW x \in Transfers
    PROVE  x % W \in Bit /\ x \div W \in 0 .. Cols - 1
<1>1. ASSUME NEW w \in Nat \ {0}, NEW e \in Nat, e % w = 0, NEW y \in 0 .. e - 1
      PROVE  y % w \in 0 .. w - 1 /\ y \div w \in 0 .. (e \div w) - 1
  BY <1>1
<1>2. params.ext_ot_sizes \in Nat
  BY ParamsTypes
<1> QED  BY <1>1, <1>2, WAssumption DEF Transfers, Cols, Bit

\* A transposed row, bit by bit.
LEMMA RowElements ==
    ASSUME NEW matrix, NEW x, x % W \in Bit
    PROVE  Row(matrix, x) = {i \in Bit : x % W \in matrix[i][x \div W]}
BY DEF Row, Transposed

\* A transposed row is a block.
LEMMA RowType ==
    ASSUME NEW matrix, NEW x, x % W \in Bit
    PROVE  Row(matrix, x) \in Block
BY RowElements DEF Block

\* The heart of the protocol: after correction and transposition, row x of the
\* sender is row x of the receiver, XORed with the sender's base choices if the
\* receiver's choice bit x is 1.
LEMMA RowCorrected ==
    ASSUME params \in Params, Rows = W, params.ext_ot_sizes % W = 0,
           NEW t0 \in Matrix, NEW t1 \in Matrix, NEW choices \in Choices,
           NEW bits \in Seq(Block), bits # <<>>, NEW x \in Transfers,
           NEW matrix,
           matrix = [i \in 0 .. Rows - 1 |->
                        Corrected(IF BitFromBlocks(bits, i) = 1 THEN t1[i] ELSE t0[i],
                                  BitFromBlocks(bits, i),
                                  Masked(t0[i], t1[i], choices))]
    PROVE  Row(matrix, x) = IF BitFromBlocks(choices, x) = 1
                            THEN Row(t0, x) (+) Head(bits)
                            ELSE Row(t0, x)
<1> DEFINE r == x % W
           c == x \div W
<1>1. r \in Bit /\ c \in 0 .. Cols - 1
  BY TransferIndex
<1>2. Bit = 0 .. Rows - 1 /\ Head(bits) = bits[1] /\ bits[1] \subseteq Bit
  BY DEF Bit, Block
<1>3. ASSUME NEW i \in Bit
      PROVE  r \in matrix[i][c] <=>
                 IF i \in bits[1] THEN ~(r \in t0[i][c] <=> r \in choices[c + 1])
                                  ELSE r \in t0[i][c]
  <2>1. BitFromBlocks(bits, i) = IF i \in bits[1] THEN 1 ELSE 0
    BY LowBits
  <2>2. matrix[i] = Corrected(IF BitFromBlocks(bits, i) = 1 THEN t1[i] ELSE t0[i],
                              BitFromBlocks(bits, i),
                              Masked(t0[i], t1[i], choices))
    BY <1>2
  <2>3. CASE i \in bits[1]
    <3>1. matrix[i] = [j \in 0 .. Cols - 1 |-> t1[i][j] (+) Masked(t0[i], t1[i], choices)[j]]
      BY <2>1, <2>2, <2>3 DEF Corrected
    <3>2. Masked(t0[i], t1[i], choices)[c] = (t0[i][c] (+) t1[i][c]) (+) choices[c + 1]
      BY <1>1 DEF Masked
    <3>3. matrix[i][c] = t1[i][c] (+) ((t0[i][c] (+) t1[i][c]) (+) choices[c + 1])
      <4>1. matrix[i][c] = t1[i][c] (+) Masked(t0[i], t1[i], choices)[c]
        BY <3>1, <1>1
      <4> QED  BY <4>1, <3>2
    <3>4. matrix[i][c] = t0[i][c] (+) choices[c + 1]
      BY <3>3, XorUnmask
    <3> QED  BY <3>4, <2>3, XorElement
  <2>4. CASE i \notin bits[1]
    BY <2>1, <2>2, <2>4, <1>1 DEF Corrected
  <2> QED  BY <2>3, <2>4
<1>4. BitFromBlocks(choices, x) = IF r \in choices[c + 1] THEN 1 ELSE 0
  BY DEF BitFromBlocks
<1>5. /\ \A e : e \in Row(matrix, x) <=> e \in Bit /\ r \in matrix[e][c]
      /\ \A e : e \in Row(t0, x) <=> e \in Bit /\ r \in t0[e][c]
  BY <1>1 DEF Row, Transposed
<1> HIDE DEF r, c
<1>6. CASE r \in choices[c + 1]
  <2>1. ASSUME NEW e PROVE e \in Row(matrix, x) <=> e \in Row(t0, x) (+) bits[1]
    <3>1. e \in Row(t0, x) (+) bits[1] <=> ~(e \in Row(t0, x) <=> e \in bits[1])
      BY XorElement
    <3> QED  BY <3>1, <1>2, <1>3, <1>5, <1>6
  <2>2. Row(matrix, x) = Row(t0, x) (+) bits[1]
    BY <2>1
  <2> QED  BY <2>2, <1>2, <1>4, <1>6
<1>7. CASE r \notin choices[c + 1]
  <2>1. ASSUME NEW e PROVE e \in Row(matrix, x) <=> e \in Row(t0, x)
    BY <1>3, <1>5, <1>7
  <2>2. Row(matrix, x) = Row(t0, x)
    BY <2>1
  <2> QED  BY <2>2, <1>4, <1>7
<1> QED  BY <1>6, <1>7

-----------------------------------------------------------------------------
(* The invariant holds initially and every action keeps it.                *)

\* The invariant holds of two new objects.
LEMMA InitInvariant == Init => IInv
BY ParamsTypes
   DEF Init, IInv, TypeOK, BaseOtInstalled, BaseOtSize, SenderInstalled, ReceiverInstalled,
       OnlySupported, Positions, PositionsInStep, PositionsFresh, PositionsIdle, PadsFresh, Contents,
       ChosenUntilRenewed, ChosenMessages, RPos, From, Status

\* Sizes depend on the parameters only.
LEMMA Frame ==
    ASSUME params' = params
    PROVE  /\ Rows' = Rows /\ Cols' = Cols /\ Transfers' = Transfers
           /\ Matrix' = Matrix /\ Choices' = Choices
BY DEF Rows, Cols, Transfers, Matrix, Choices

\* Pads depend on the parameters and the first base OT only.
LEMMA BaseOtFrame ==
    ASSUME params' = params, baseOts'[1] = baseOts[1]
    PROVE  \A b, from : PadMatrix(b, from)' = PadMatrix(b, from)
BY Frame DEF PadMatrix

\* What the calls made so far say depends on these variables only, and the
\* promise is void once the sender is given a second base OT.
LEMMA ContentsFrame ==
    ASSUME Contents, ChosenUntilRenewed, OnlySupported,
           params' = params, baseOts'[1] = baseOts[1],
           net' = net, sent' = sent, received' = received,
           sInstalled' <= 1 => sInstalled <= 1
    PROVE  (Contents /\ ChosenUntilRenewed /\ OnlySupported)'
<1>1. /\ \A k : CallMatrix(k)' = CallMatrix(k)
      /\ \A m, x : Row(m, x)' = Row(m, x)
  BY Frame, BaseOtFrame DEF CallMatrix, Masked, Row
<1>2. Contents'
  BY <1>1, Frame, BaseOtFrame DEF Contents
<1>3. ChosenUntilRenewed' /\ OnlySupported'
  BY Frame DEF ChosenUntilRenewed, ChosenMessages, OnlySupported
<1> QED  BY <1>2, <1>3

\* The parties are given base OTs that were run, each of the size that the
\* parameters say.
LEMMA BaseOtsRun ==
    ASSUME IInv
    PROVE  /\ baseOts \in Seq(BaseOts) /\ Len(baseOts) \in Nat
           /\ sInstalled \in 0 .. Len(baseOts)
           /\ rInstalled \in 0 .. Len(baseOts)
           /\ \A k \in 1 .. Len(baseOts) : baseOts[k] \in BaseOts /\ Len(baseOts[k].pairs) = Rows
           /\ sInstalled > 0 \/ rInstalled > 0 => 1 \in 1 .. Len(baseOts)
<1>1. baseOts \in Seq(BaseOts) /\ Len(baseOts) \in Nat
  BY DEF IInv, TypeOK
<1>2. sInstalled \in 0 .. Len(baseOts) /\ rInstalled \in 0 .. Len(baseOts)
  BY DEF IInv, TypeOK
<1>3. ASSUME NEW k \in 1 .. Len(baseOts)
      PROVE  baseOts[k] \in BaseOts /\ Len(baseOts[k].pairs) = Rows
  <2>1. k \in DOMAIN baseOts
    BY <1>1
  <2> QED  BY <2>1, <1>1, Element DEF IInv, BaseOtInstalled, BaseOtSize
<1>4. sInstalled > 0 \/ rInstalled > 0 => 1 \in 1 .. Len(baseOts)
  BY <1>1, <1>2
<1> QED  BY <1>1, <1>2, <1>3, <1>4

\* A further base OT leaves the first one as it is.
LEMMA RunBaseOtKeeps ==
    ASSUME IInv, RunBaseOt
    PROVE  IInv'
<1>1. PICK b \in BaseOts : Len(b.pairs) = Rows /\ baseOts' = Append(baseOts, b)
  BY DEF RunBaseOt, Rows
<1>2. /\ UNCHANGED <<params, net, sInstalled, sPrng, base_choices, sent, sStatus>>
      /\ UNCHANGED <<rInstalled, rPrng, received, rStatus>>
  BY DEF RunBaseOt, sVars, rVars
<1>3. /\ baseOts \in Seq(BaseOts) /\ Len(baseOts) \in Nat
      /\ sInstalled \in 0 .. Len(baseOts) /\ rInstalled \in 0 .. Len(baseOts)
      /\ \A k \in 1 .. Len(baseOts) : Len(baseOts[k].pairs) = Rows
  BY BaseOtsRun
<1>4. /\ baseOts' \in Seq(BaseOts) /\ Len(baseOts') = Len(baseOts) + 1
      /\ DOMAIN baseOts = 1 .. Len(baseOts) /\ DOMAIN baseOts' = 1 .. Len(baseOts) + 1
      /\ \A k \in DOMAIN baseOts : baseOts'[k] = baseOts[k]
      /\ baseOts'[Len(baseOts) + 1] = b
  BY <1>1, <1>3, Appended
<1>5. TypeOK'
  <2>1. sInstalled' \in 0 .. Len(baseOts') /\ rInstalled' \in 0 .. Len(baseOts')
    BY <1>2, <1>3, <1>4
  <2> QED  BY <1>2, <1>4, <2>1, Frame DEF IInv, TypeOK
<1>6. BaseOtSize'
  <2>1. ASSUME NEW k \in DOMAIN baseOts' PROVE Len(baseOts'[k].pairs) = Rows
    <3>1. k \in DOMAIN baseOts \/ k = Len(baseOts) + 1
      BY <1>3, <1>4
    <3> QED  BY <3>1, <1>1, <1>3, <1>4
  <2> QED  BY <2>1, <1>2, Frame DEF BaseOtSize
<1>7. Positions'
  BY <1>2, Frame
     DEF IInv, Positions, PositionsInStep, PositionsFresh, PositionsIdle, PadsFresh, From, RPos
<1>8. CASE baseOts = <<>>
  <2>1. sInstalled = 0 /\ rInstalled = 0
    BY <1>3, <1>8
  <2>2. sent = <<>> /\ received = <<>> /\ net = <<>>
    BY <2>1 DEF IInv, BaseOtInstalled, SenderInstalled, ReceiverInstalled
  <2>3. SenderInstalled' /\ ReceiverInstalled'
    BY <1>2, <2>1 DEF IInv, BaseOtInstalled, SenderInstalled, ReceiverInstalled
  <2>4. (OnlySupported /\ Contents /\ ChosenUntilRenewed)'
    BY <1>2, <2>2 DEF OnlySupported, Contents, ChosenUntilRenewed, ChosenMessages
  <2> QED  BY <1>5, <1>6, <1>7, <2>3, <2>4 DEF IInv, BaseOtInstalled
<1>9. CASE baseOts # <<>>
  <2>1. baseOts'[1] = baseOts[1]
    BY <1>3, <1>4, <1>9
  <2>2. Chosen(baseOts[1])' = Chosen(baseOts[1]) /\ RPos' = RPos /\ Rows' = Rows
    BY <1>2, <2>1, Frame DEF Chosen, RPos
  <2>3. SenderInstalled'
    BY <1>2, <2>1, <2>2 DEF IInv, BaseOtInstalled, SenderInstalled
  <2>4. ReceiverInstalled'
    BY <1>2, <2>1, <2>2 DEF IInv, BaseOtInstalled, ReceiverInstalled
  <2> QED  BY <1>2, <1>5, <1>6, <1>7, <2>1, <2>3, <2>4, ContentsFrame DEF IInv, BaseOtInstalled
<1> QED  BY <1>8, <1>9

\* A refused call changes nothing but the status.
LEMMA ThrowKeeps ==
    ASSUME IInv, SenderThrow \/ ReceiverThrow
    PROVE  IInv'
<1>1. /\ UNCHANGED <<params, baseOts, net, sInstalled, rInstalled, sPrng, base_choices,
                     rPrng, sent, received>>
      /\ sStatus' \in Status /\ rStatus' \in Status
  BY DEF IInv, TypeOK, SenderThrow, ReceiverThrow, sVars, rVars, Status
<1>2. TypeOK'
  BY <1>1, Frame DEF IInv, TypeOK, Status
<1>3. BaseOtInstalled'
  BY <1>1, Frame
       DEF IInv, BaseOtInstalled, BaseOtSize, SenderInstalled, ReceiverInstalled, RPos, Chosen
<1>4. Positions'
  <2>1. rStatus' # "undefined" => rStatus # "undefined"
    BY DEF SenderThrow, ReceiverThrow, rVars
  <2> QED  BY <1>1, <2>1, Frame
           DEF IInv, Positions, PositionsInStep, PositionsFresh, PositionsIdle, PadsFresh, From, RPos
<1> QED  BY <1>1, <1>2, <1>3, <1>4, ContentsFrame DEF IInv

\* The sender's new generators go behind those in use.
LEMMA SenderSetBaseOtsKeeps ==
    ASSUME IInv, SenderSetBaseOts
    PROVE  IInv'
<1>1. PICK base \in BaseOts : base = baseOts[sInstalled + 1] /\ Len(base.pairs) = Rows
  <2>1. sInstalled + 1 \in 1 .. Len(baseOts)
    BY BaseOtsRun DEF SenderSetBaseOts
  <2> QED  BY <2>1, BaseOtsRun
<1>2. /\ sPrng' = sPrng \o CreatedChosen(base) /\ base_choices' = base.choices \o base_choices
      /\ sInstalled' = sInstalled + 1 /\ sInstalled < Len(baseOts)
      /\ UNCHANGED <<params, baseOts, net, sent, sStatus, rInstalled, rPrng, received, rStatus>>
  BY <1>1 DEF SenderSetBaseOts, rVars
<1>3. /\ base.choices \in Seq(Block) /\ base.choices # <<>>
      /\ CreatedChosen(base) \in Seq(Generator)
      /\ Len(CreatedChosen(base)) = Rows
      /\ <<>> \o CreatedChosen(base) = CreatedChosen(base)
      /\ \A i \in 1 .. Rows : CreatedChosen(base)[i] = [seed |-> Chosen(base)[i], pos |-> 0]
  BY <1>1, ChosenCreated, BaseOtsAssumption
<1>4. /\ sInstalled \in Nat /\ Rows \in Nat \ {0}
      /\ sPrng \in Seq(Generator) /\ base_choices \in Seq(Block)
  BY ParamsTypes DEF IInv, TypeOK
<1>5. /\ base_choices' \in Seq(Block) /\ base_choices' # <<>>
      /\ sInstalled = 0 => base_choices' = base.choices
  <2>1. base_choices' \in Seq(Block) /\ base_choices' # <<>>
    BY <1>2, <1>3, <1>4
  <2>2. sInstalled = 0 => base_choices' = base.choices
    BY <1>2, <1>3 DEF IInv, BaseOtInstalled, SenderInstalled
  <2> QED  BY <2>1, <2>2
<1>6. /\ sPrng' \in Seq(Generator)
      /\ Len(sPrng') >= Rows
      /\ \A i \in 1 .. Rows : /\ sPrng'[i].seed = Chosen(baseOts[1])[i]
                              /\ sPrng'[i].pos = IF sInstalled = 0 THEN 0 ELSE sPrng[i].pos
  <2>1. CASE sInstalled = 0
    <3>1. sPrng = <<>>
      BY <2>1 DEF IInv, BaseOtInstalled, SenderInstalled
    <3>2. sPrng' = CreatedChosen(base) /\ base = baseOts[1]
      BY <3>1, <2>1, <1>1, <1>2, <1>3
    <3>3. Chosen(base) = Chosen(baseOts[1])
      BY <3>2
    <3>4. ASSUME NEW i \in 1 .. Rows
          PROVE  CreatedChosen(base)[i].seed = Chosen(base)[i] /\ CreatedChosen(base)[i].pos = 0
      <4>1. CreatedChosen(base)[i] = [seed |-> Chosen(base)[i], pos |-> 0]
        BY <1>3, Zenon
      <4> QED  BY <4>1
    <3>5. sPrng' \in Seq(Generator) /\ Len(sPrng') = Rows /\ Rows >= Rows
      BY <3>2, <1>3, <1>4
    <3>6. \A i \in 1 .. Rows : sPrng'[i].seed = Chosen(baseOts[1])[i] /\ sPrng'[i].pos = 0
      BY <3>2, <3>3, <3>4, Zenon
    <3> QED  BY <2>1, <3>5, <3>6
  <2>2. CASE sInstalled > 0
    <3>1. /\ Len(sPrng) >= Rows
          /\ \A i \in 1 .. Rows : sPrng[i].seed = Chosen(baseOts[1])[i]
      BY <2>2 DEF IInv, BaseOtInstalled, SenderInstalled
    <3>2. /\ sPrng' \in Seq(Generator) /\ Len(sPrng') = Len(sPrng) + Rows
          /\ \A i \in 1 .. Len(sPrng) : sPrng'[i] = sPrng[i]
      <4>1. PICK new \in Seq(Generator) : new = CreatedChosen(base) /\ Len(new) = Rows
        BY <1>3
      <4>2. /\ sPrng \o new \in Seq(Generator) /\ Len(sPrng \o new) = Len(sPrng) + Len(new)
            /\ \A i \in 1 .. Len(sPrng) : (sPrng \o new)[i] = sPrng[i]
        BY <1>4, Concatenated
      <4> QED  BY <4>1, <4>2, <1>2
    <3>3. \A i \in 1 .. Rows : i \in 1 .. Len(sPrng)
      BY <3>1, <1>4
    <3>4. Len(sPrng') >= Rows /\ sInstalled # 0
      BY <2>2, <3>1, <3>2, <1>4
    <3> QED  BY <3>1, <3>2, <3>3, <3>4
  <2>3. sInstalled = 0 \/ sInstalled > 0
    BY <1>4
  <2> QED  BY <2>1, <2>2, <2>3
<1>7. TypeOK'
  <2>1. sInstalled' \in 0 .. Len(baseOts')
    BY <1>2, <1>4, BaseOtsRun
  <2> QED  BY <1>2, <1>5, <1>6, <2>1, Frame DEF IInv, TypeOK
<1>8. BaseOtInstalled'
  <2>1. Chosen(baseOts[1])' = Chosen(baseOts[1]) /\ RPos' = RPos /\ Rows' = Rows
    BY <1>2, Frame DEF Chosen, RPos
  <2>2. SenderInstalled'
    <3>1. sInstalled' # 0 /\ (sInstalled' = 1 => sInstalled = 0)
      BY <1>2, <1>4
    <3>2. sInstalled' = 1 => base_choices' = baseOts'[1].choices
      BY <1>1, <1>2, <1>5, <3>1
    <3> QED  BY <3>1, <3>2, <2>1, <1>5, <1>6 DEF SenderInstalled
  <2>3. (BaseOtSize /\ ReceiverInstalled)'
    BY <1>2, <2>1 DEF IInv, BaseOtInstalled, BaseOtSize, ReceiverInstalled
  <2> QED  BY <2>2, <2>3 DEF BaseOtInstalled
<1>9. Positions'
  <2>1. sInstalled = 0 => sent = <<>>
    BY DEF IInv, BaseOtInstalled, SenderInstalled
  <2>2. \A l : From(l)' = From(l)
    BY <1>2 DEF From, RPos
  <2>3. Rows = W => \A i \in 1 .. Rows : sPrng'[i].pos = From(Len(sent) + 1)
    <3>1. CASE sInstalled = 0
      <4>1. Len(sent) + 1 = 1
        BY <2>1, <3>1
      <4> QED  BY <4>1, <3>1, <1>6 DEF IInv, Positions, PositionsInStep
    <3>2. CASE sInstalled > 0
      BY <3>2, <1>6 DEF IInv, Positions, PositionsInStep
    <3> QED  BY <3>1, <3>2, <1>4
  <2>4. Rows # W => \A i \in 1 .. Rows : sPrng'[i].pos = 0
    <3>1. CASE sInstalled = 0
      BY <3>1, <1>6
    <3>2. CASE sInstalled > 0
      BY <3>2, <1>6 DEF IInv, Positions, PositionsIdle
    <3> QED  BY <3>1, <3>2, <1>4
  <2>5. PositionsInStep'
    BY <2>2, <2>3, <1>2, Frame DEF IInv, Positions, PositionsInStep
  <2>6. PositionsFresh'
    BY <1>2, Frame DEF IInv, Positions, PositionsFresh, PadsFresh, RPos
  <2>7. PositionsIdle'
    BY <2>4, <1>2, Frame DEF IInv, Positions, PositionsIdle, RPos
  <2> QED  BY <2>5, <2>6, <2>7 DEF Positions
<1>10. sInstalled' <= 1 => sInstalled <= 1
  BY <1>2, <1>4
<1> QED  BY <1>2, <1>7, <1>8, <1>9, <1>10, ContentsFrame DEF IInv

\* And so do the receiver's.
LEMMA ReceiverSetBaseOtsKeeps ==
    ASSUME IInv, ReceiverSetBaseOts
    PROVE  IInv'
<1>1. PICK base \in BaseOts : base = baseOts[rInstalled + 1] /\ Len(base.pairs) = Rows
  <2>1. rInstalled + 1 \in 1 .. Len(baseOts)
    BY BaseOtsRun DEF ReceiverSetBaseOts
  <2> QED  BY <2>1, BaseOtsRun
<1>2. /\ rPrng' = rPrng \o CreatedPairs(base)
      /\ rInstalled' = rInstalled + 1 /\ rInstalled < Len(baseOts)
      /\ UNCHANGED <<params, baseOts, net, received, rStatus, sInstalled, sPrng, base_choices,
                     sent, sStatus>>
  BY <1>1 DEF ReceiverSetBaseOts, sVars
<1>3. /\ CreatedPairs(base) \in Seq([0 .. 1 -> Generator])
      /\ Len(CreatedPairs(base)) = Rows
      /\ <<>> \o CreatedPairs(base) = CreatedPairs(base)
      /\ \A i \in 1 .. Rows, b \in 0 .. 1 :
             CreatedPairs(base)[i][b] = [seed |-> base.pairs[i][b], pos |-> 0]
  BY <1>1, PairsCreated
<1>4. rInstalled \in Nat /\ Rows \in Nat \ {0} /\ rPrng \in Seq([0 .. 1 -> Generator])
  BY ParamsTypes DEF IInv, TypeOK
<1>5. /\ rPrng' \in Seq([0 .. 1 -> Generator])
      /\ Len(rPrng') >= Rows
      /\ \A i \in 1 .. Rows, b \in 0 .. 1 :
             rPrng'[i][b] = [seed |-> baseOts[1].pairs[i][b], pos |-> RPos]
  <2>1. CASE rInstalled = 0
    <3>1. rPrng = <<>> /\ RPos = 0
      BY <2>1 DEF IInv, BaseOtInstalled, ReceiverInstalled, RPos
    <3>2. rPrng' = CreatedPairs(base) /\ base = baseOts[1]
      BY <3>1, <2>1, <1>1, <1>2, <1>3
    <3>3. rPrng' \in Seq([0 .. 1 -> Generator]) /\ Len(rPrng') = Rows /\ Rows >= Rows
      BY <3>2, <1>3, <1>4
    <3>4. \A i \in 1 .. Rows, b \in 0 .. 1 :
              rPrng'[i][b] = [seed |-> baseOts[1].pairs[i][b], pos |-> RPos]
      BY <3>1, <3>2, <1>3, Zenon
    <3> QED  BY <3>3, <3>4
  <2>2. CASE rInstalled > 0
    <3>1. /\ Len(rPrng) >= Rows
          /\ \A i \in 1 .. Rows, b \in 0 .. 1 :
                 rPrng[i][b] = [seed |-> baseOts[1].pairs[i][b], pos |-> RPos]
      BY <2>2 DEF IInv, BaseOtInstalled, ReceiverInstalled
    <3>2. /\ rPrng' \in Seq([0 .. 1 -> Generator]) /\ Len(rPrng') = Len(rPrng) + Rows
          /\ \A i \in 1 .. Len(rPrng) : rPrng'[i] = rPrng[i]
      <4>1. PICK new \in Seq([0 .. 1 -> Generator]) : new = CreatedPairs(base) /\ Len(new) = Rows
        BY <1>3
      <4>2. /\ rPrng \o new \in Seq([0 .. 1 -> Generator]) /\ Len(rPrng \o new) = Len(rPrng) + Len(new)
            /\ \A i \in 1 .. Len(rPrng) : (rPrng \o new)[i] = rPrng[i]
        BY <1>4, Concatenated
      <4> QED  BY <4>1, <4>2, <1>2
    <3>3. \A i \in 1 .. Rows : i \in 1 .. Len(rPrng)
      BY <3>1, <1>4
    <3>4. Len(rPrng') >= Rows
      BY <3>1, <3>2, <1>4
    <3> QED  BY <3>1, <3>2, <3>3, <3>4
  <2> QED  BY <2>1, <2>2, <1>4
<1>6. RPos' = RPos /\ (rInstalled' # 0)
  <2>1. rInstalled' # 0
    BY <1>2, <1>4
  <2>2. rPrng'[1][0] = [seed |-> baseOts[1].pairs[1][0], pos |-> RPos]
    <3>1. 1 \in 1 .. Rows /\ 0 \in 0 .. 1
      BY <1>4
    <3> QED  BY <3>1, <1>5
  <2>3. rPrng'[1][0].pos = RPos
    BY <2>2
  <2>4. RPos' = rPrng'[1][0].pos
    BY <2>1 DEF RPos
  <2> QED  BY <2>1, <2>3, <2>4
<1>7. TypeOK'
  <2>1. rInstalled' \in 0 .. Len(baseOts')
    BY <1>2, <1>4, BaseOtsRun
  <2> QED  BY <1>2, <1>5, <2>1, Frame DEF IInv, TypeOK
<1>8. BaseOtInstalled'
  <2>1. Chosen(baseOts[1])' = Chosen(baseOts[1]) /\ Rows' = Rows
    BY <1>2, Frame DEF Chosen
  <2>2. ReceiverInstalled'
    BY <1>2, <1>5, <1>6, <2>1 DEF ReceiverInstalled
  <2>3. (BaseOtSize /\ SenderInstalled)'
    BY <1>2, <2>1 DEF IInv, BaseOtInstalled, BaseOtSize, SenderInstalled
  <2> QED  BY <2>2, <2>3 DEF BaseOtInstalled
<1>9. Positions'
  <2>1. \A l : From(l)' = From(l)
    BY <1>2, <1>6 DEF From
  <2>2. PositionsInStep'
    BY <2>1, <1>2, Frame DEF IInv, Positions, PositionsInStep
  <2>3. PositionsFresh'
    BY <1>2, <1>6, Frame DEF IInv, Positions, PositionsFresh, PadsFresh
  <2>4. PositionsIdle'
    BY <1>2, <1>6, Frame DEF IInv, Positions, PositionsIdle
  <2> QED  BY <2>2, <2>3, <2>4 DEF Positions
<1> QED  BY <1>2, <1>7, <1>8, <1>9, ContentsFrame DEF IInv

\* Pads within the bound of the generators form a matrix.
LEMMA PadTypes ==
    ASSUME IInv, 1 \in 1 .. Len(baseOts),
           NEW from \in Nat, from + Cols <= StreamLen, NEW b \in 0 .. 1
    PROVE  PadMatrix(b, from) \in Matrix
<1>1. /\ Rows \in Nat /\ Cols \in Nat /\ StreamLen \in Nat
      /\ baseOts[1].pairs \in Seq([0 .. 1 -> Block]) /\ Len(baseOts[1].pairs) = Rows
  <2>1. params \in Params
    BY DEF IInv, TypeOK
  <2>2. baseOts[1] \in BaseOts /\ Len(baseOts[1].pairs) = Rows
    BY BaseOtsRun
  <2> QED  BY <2>1, <2>2, ParamsTypes, PrimitivesAssumption, BaseOtsAssumption
<1>2. ASSUME NEW i \in 0 .. Rows - 1, NEW j \in 0 .. Cols - 1
      PROVE  Prg[baseOts[1].pairs[i + 1][b]][from + j] \in Block
  <2>1. i + 1 \in 1 .. Rows /\ from + j \in 0 .. StreamLen - 1
    BY <1>1
  <2>2. baseOts[1].pairs[i + 1][b] \in Block
    BY <1>1, <2>1
  <2> QED  BY <2>1, <2>2, PrimitivesAssumption
<1> QED  BY <1>2 DEF PadMatrix, Matrix

\* Masked pads form a matrix.
LEMMA MaskedTypes ==
    ASSUME NEW t0 \in Matrix, NEW t1 \in Matrix, NEW choices \in Choices, Cols \in Nat
    PROVE  [i \in 0 .. Rows - 1 |-> Masked(t0[i], t1[i], choices)] \in Matrix
<1>1. ASSUME NEW i \in 0 .. Rows - 1, NEW j \in 0 .. Cols - 1
      PROVE  (t0[i][j] (+) t1[i][j]) (+) choices[j + 1] \in Block
  <2>1. t0[i][j] \in Block /\ t1[i][j] \in Block
    BY DEF Matrix
  <2>2. choices[j + 1] \in Block
    BY DEF Choices
  <2> QED  BY <2>1, <2>2, XorBlock
<1> QED  BY <1>1 DEF Masked, Matrix

\* What the receiver's generators yield, and where they stand afterwards.
LEMMA DrawAndSendKeeps ==
    ASSUME IInv, CanReceive, NEW choices \in Choices, DrawAndSend(choices),
           UNCHANGED <<params, baseOts, rInstalled>>
    PROVE  /\ 1 \in 1 .. Len(baseOts) /\ rInstalled > 0
           /\ RPos \in Nat /\ RPos + Cols <= StreamLen
           /\ \A b \in 0 .. 1 : Pads(b) = PadMatrix(b, RPos) /\ Pads(b) \in Matrix
           /\ SendMatrix(choices) \in Matrix
           /\ net' \in Seq(Matrix)
           /\ RPos' = RPos + Cols
           /\ rPrng' \in Seq([0 .. 1 -> Generator])
           /\ Len(rPrng') >= Rows
           /\ \A i \in 1 .. Rows, b \in 0 .. 1 :
                  rPrng'[i][b] = [seed |-> baseOts[1].pairs[i][b], pos |-> RPos']
<1>1. 1 \in 1 .. Len(baseOts) /\ rInstalled > 0 /\ rInstalled # 0
  <2>1. rInstalled > 0
    BY DEF CanReceive
  <2> QED  BY <2>1, BaseOtsRun
<1>2. Rows \in Nat \ {0} /\ Cols \in Nat
  BY ParamsTypes DEF IInv, TypeOK
<1>3. /\ rPrng \in Seq([0 .. 1 -> Generator]) /\ Len(rPrng) >= Rows
      /\ \A i \in 1 .. Rows, b \in 0 .. 1 :
             rPrng[i][b] = [seed |-> baseOts[1].pairs[i][b], pos |-> RPos]
  BY <1>1 DEF IInv, TypeOK, BaseOtInstalled, ReceiverInstalled
<1>4. RPos \in Nat /\ RPos = rPrng[1][0].pos
  BY <1>1, <1>2, <1>3 DEF RPos, Generator
<1>5. RPos + Cols <= StreamLen
  BY <1>4 DEF CanReceive
<1>6. ASSUME NEW b \in 0 .. 1
      PROVE  Pads(b) = PadMatrix(b, RPos) /\ Pads(b) \in Matrix
  <2>1. ASSUME NEW i \in 0 .. Rows - 1
        PROVE  Drawn(rPrng[i + 1][b], Cols) = PadMatrix(b, RPos)[i]
    <3>1. i + 1 \in 1 .. Rows
      BY <1>2
    <3>2. rPrng[i + 1][b] = [seed |-> baseOts[1].pairs[i + 1][b], pos |-> RPos]
      BY <1>3, <3>1
    <3>3. rPrng[i + 1][b].seed = baseOts[1].pairs[i + 1][b] /\ rPrng[i + 1][b].pos = RPos
      BY <3>2
    <3> QED  BY <3>3 DEF Drawn, PadMatrix
  <2>2. Pads(b) = PadMatrix(b, RPos)
    BY <2>1 DEF Pads, PadMatrix
  <2> QED  BY <2>2, <1>1, <1>4, <1>5, PadTypes
<1>7. SendMatrix(choices) \in Matrix
  BY <1>2, <1>6, MaskedTypes DEF SendMatrix
<1>8. net' \in Seq(Matrix)
  BY <1>7 DEF IInv, TypeOK, DrawAndSend
<1>9. \A g \in DOMAIN rPrng :
          rPrng'[g] = IF g <= Rows THEN [b \in 0 .. 1 |-> Advanced(rPrng[g][b], Cols)] ELSE rPrng[g]
  BY DEF DrawAndSend, ReceiverGenerators
<1>10. \A i \in 1 .. Rows, b \in 0 .. 1 :
           rPrng'[i][b] = [seed |-> baseOts[1].pairs[i][b], pos |-> RPos + Cols]
  <2>1. ASSUME NEW i \in 1 .. Rows, NEW b \in 0 .. 1
        PROVE  rPrng'[i][b] = [seed |-> baseOts[1].pairs[i][b], pos |-> RPos + Cols]
    <3>1. rPrng'[i][b] = [rPrng[i][b] EXCEPT !.pos = @ + Cols]
      <4>1. i \in DOMAIN rPrng /\ i <= Rows
        BY <1>2, <1>3
      <4> QED  BY <4>1, <1>9 DEF Advanced
    <3>2. rPrng[i][b] = [seed |-> baseOts[1].pairs[i][b], pos |-> RPos]
      BY <1>3
    <3> QED  BY <3>1, <3>2
  <2> QED  BY <2>1
<1>11. RPos' = RPos + Cols
  <2>1. rPrng'[1][0] = [seed |-> baseOts[1].pairs[1][0], pos |-> RPos + Cols]
    <3>1. 1 \in 1 .. Rows /\ 0 \in 0 .. 1
      BY <1>2
    <3> QED  BY <3>1, <1>10
  <2>2. rPrng'[1][0].pos = RPos + Cols
    BY <2>1
  <2>3. rInstalled' # 0
    BY <1>1
  <2> QED  BY <2>2, <2>3 DEF RPos
<1>12. rPrng' \in Seq([0 .. 1 -> Generator]) /\ Len(rPrng') >= Rows
  <2>1. ASSUME NEW i \in DOMAIN rPrng
        PROVE  rPrng'[i] \in [0 .. 1 -> Generator]
    <3>1. rPrng[i] \in [0 .. 1 -> Generator]
      BY <1>3, Element
    <3>2. ASSUME NEW b \in 0 .. 1 PROVE Advanced(rPrng[i][b], Cols) \in Generator
      <4>1. PICK g \in Generator : g = rPrng[i][b]
        BY <3>1
      <4>2. g.seed \in Block /\ g.pos \in Nat /\ g.pos + Cols \in Nat
        BY <1>2 DEF Generator
      <4>3. Advanced(g, Cols) = [g EXCEPT !.pos = g.pos + Cols]
        BY DEF Advanced
      <4>4. Advanced(g, Cols) \in Generator
        BY <4>2, <4>3 DEF Generator
      <4> QED  BY <4>1, <4>4
    <3> QED  BY <3>1, <3>2, <1>9
  <2>2. DOMAIN rPrng = 1 .. Len(rPrng) /\ Len(rPrng) \in Nat
    BY <1>3
  <2>3. rPrng' = [g \in 1 .. Len(rPrng) |-> rPrng'[g]]
    BY <2>2 DEF DrawAndSend, ReceiverGenerators
  <2>4. rPrng' \in Seq([0 .. 1 -> Generator]) /\ Len(rPrng') = Len(rPrng)
    BY <2>1, <2>2, <2>3
  <2> QED  BY <2>4, <1>3
<1> QED  BY <1>1, <1>4, <1>5, <1>6, <1>7, <1>8, <1>10, <1>11, <1>12

\* An overrun concerns unsupported parameters only.
LEMMA ReceiverOverrunKeeps ==
    ASSUME IInv, NEW choices \in Choices, ReceiverOverrun(choices)
    PROVE  IInv'
<1>1. /\ CanReceive /\ DrawAndSend(choices) /\ Rows # W /\ rStatus' = "undefined"
      /\ UNCHANGED <<params, baseOts, rInstalled, received,
                     sInstalled, sPrng, base_choices, sent, sStatus>>
  BY DEF ReceiverOverrun, sVars, Rows
<1>2. TypeOK'
  BY <1>1, DrawAndSendKeeps, Frame DEF IInv, TypeOK, Status
<1>3. BaseOtInstalled'
  <2>1. (BaseOtSize /\ SenderInstalled)'
    BY <1>1, Frame DEF IInv, BaseOtInstalled, BaseOtSize, SenderInstalled, Chosen
  <2>2. rInstalled' # 0
    BY <1>1, DrawAndSendKeeps, BaseOtsRun
  <2>3. ReceiverInstalled'
    BY <1>1, <2>2, DrawAndSendKeeps, Frame DEF ReceiverInstalled
  <2> QED  BY <2>1, <2>3 DEF BaseOtInstalled
<1>4. sent = <<>> /\ received = <<>>
  BY <1>1 DEF IInv, OnlySupported
<1>5. (OnlySupported /\ Positions /\ Contents /\ ChosenUntilRenewed)'
  BY <1>1, <1>4, Frame
     DEF IInv, OnlySupported, Positions, PositionsInStep, PositionsFresh, PositionsIdle, PadsFresh,
         Contents, ChosenUntilRenewed, ChosenMessages
<1> QED  BY <1>2, <1>3, <1>5 DEF IInv

\* A receive draws the next pads, and appends a matrix and a result that fit.
LEMMA ReceiverReceiveKeeps ==
    ASSUME IInv, NEW choices \in Choices, ReceiverReceive(choices)
    PROVE  IInv'
<1> DEFINE messages == [x \in Transfers |-> Tweaked(Row(Pads(0), x), x)]
           result == [from |-> RPos, choices |-> choices, messages |-> messages]
<1>1. /\ CanReceive /\ DrawAndSend(choices) /\ Rows = W
      /\ UNCHANGED <<params, baseOts, rInstalled, rStatus,
                     sInstalled, sPrng, base_choices, sent, sStatus>>
  BY DEF ReceiverReceive, sVars, Rows
<1>2. params \in Params /\ params.ext_ot_sizes % W = 0 /\ Cols \in Nat
  BY <1>1, ParamsTypes DEF IInv, TypeOK, CanReceive, ReceiverRejects
<1>3. /\ 1 \in 1 .. Len(baseOts) /\ rInstalled > 0 /\ rInstalled # 0
      /\ RPos \in Nat /\ RPos + Cols <= StreamLen /\ RPos' = RPos + Cols
      /\ \A b \in 0 .. 1 : Pads(b) = PadMatrix(b, RPos) /\ Pads(b) \in Matrix
  <2>1. rInstalled > 0
    BY <1>1 DEF CanReceive
  <2> QED  BY <1>1, <2>1, DrawAndSendKeeps
<1>4. received' = Append(received, result)
  BY <1>3 DEF ReceiverReceive, RPos, Transfers
<1>5. messages \in [Transfers -> Block]
  BY <1>2, TransferIndex, RowType, TweakedType
<1>6. TypeOK'
  <2>1. result \in [from : Nat, choices : Choices, messages : [Transfers -> Block]]
    BY <1>3, <1>5
  <2>2. received' \in Seq([from : Nat, choices : Choices, messages : [Transfers -> Block]])
    BY <1>4, <2>1 DEF IInv, TypeOK
  <2> QED  BY <1>1, <2>2, DrawAndSendKeeps, Frame DEF IInv, TypeOK
<1>7. /\ result \in [from : Nat, choices : Choices, messages : [Transfers -> Block]]
      /\ result.from = RPos /\ result.choices = choices /\ result.messages = messages
  BY <1>3, <1>5
<1> HIDE DEF messages, result
<1>8. BaseOtInstalled'
  <2>1. (BaseOtSize /\ SenderInstalled)'
    BY <1>1, Frame DEF IInv, BaseOtInstalled, BaseOtSize, SenderInstalled, Chosen
  <2>2. rInstalled' # 0
    BY <1>1, DrawAndSendKeeps, BaseOtsRun
  <2>3. ReceiverInstalled'
    BY <1>1, <2>2, DrawAndSendKeeps, Frame DEF ReceiverInstalled
  <2> QED  BY <2>1, <2>3 DEF BaseOtInstalled
<1>9. OnlySupported'
  BY <1>1, <1>2, Frame DEF OnlySupported
<1>10. /\ received \in Seq([from : Nat, choices : Choices, messages : [Transfers -> Block]])
      /\ sent \in Seq([Transfers -> [0 .. 1 -> Block]]) /\ net \in Seq(Matrix)
      /\ Len(received) = Len(sent) + Len(net)
  BY <1>1 DEF IInv, TypeOK, Positions, PositionsInStep
<1>11. PICK n \in Nat \ {0} : n = Len(received) + 1
  BY <1>10
<1>12. /\ DOMAIN received = 1 .. n - 1 /\ DOMAIN received' = 1 .. n /\ n \in Nat \ {0}
       /\ \A k \in DOMAIN received : received'[k] = received[k]
       /\ received'[n] = result /\ Len(received') = n
  BY <1>4, <1>7, <1>10, <1>11, Appended
<1>13. /\ \A k \in 1 .. n : From(k)' = From(k)
       /\ From(n) = RPos /\ From(n + 1)' = RPos + Cols
  BY <1>3, <1>7, <1>12 DEF From
<1>14. Positions'
  <2>1. Len(received') = Len(sent') + Len(net')
    <3>1. Len(net') = Len(net) + 1
      BY <1>1, <1>10 DEF DrawAndSend
    <3> QED  BY <3>1, <1>1, <1>10, <1>11, <1>12
  <2>2. From(1)' = 0
    BY <1>1, <1>12, <1>13 DEF IInv, Positions, PositionsInStep
  <2>3. ASSUME NEW k \in DOMAIN received'
        PROVE  /\ received'[k].from + Cols <= StreamLen
               /\ From(k + 1)' = received'[k].from + Cols
    <3>1. CASE k = n
      <4>1. received'[k].from = RPos /\ From(k + 1)' = RPos + Cols
        BY <3>1, <1>3, <1>7, <1>12, <1>13
      <4> QED  BY <4>1, <1>3
    <3>2. CASE k \in DOMAIN received
      <4>1. k + 1 \in 1 .. n
        BY <3>2, <1>12
      <4> QED  BY <3>2, <4>1, <1>1, <1>12, <1>13 DEF IInv, Positions, PositionsInStep
    <3> QED  BY <3>1, <3>2, <1>12
  <2>4. sInstalled' > 0 => \A i \in 1 .. Rows : sPrng'[i].pos = From(Len(sent) + 1)'
    <3>1. PICK m \in 1 .. n : m = Len(sent) + 1
      BY <1>10, <1>11
    <3>2. From(m)' = From(m)
      BY <3>1, <1>13
    <3> QED  BY <3>1, <3>2, <1>1 DEF IInv, Positions, PositionsInStep
  <2>5. PositionsInStep'
    BY <2>1, <2>2, <2>3, <2>4, <1>1, Frame DEF PositionsInStep
  <2>6. \A k \in DOMAIN received' : received'[k].from + Cols <= RPos'
    <3>1. ASSUME NEW k \in DOMAIN received
          PROVE  received'[k].from + Cols <= RPos'
      <4>1. received[k].from \in Nat /\ received[k].from + Cols <= RPos
        <5>1. received[k] \in [from : Nat, choices : Choices, messages : [Transfers -> Block]]
          BY <1>10, Element
        <5> QED  BY <5>1 DEF IInv, Positions, PositionsFresh
      <4> QED  BY <4>1, <1>2, <1>3, <1>12
    <3>2. received'[n].from + Cols <= RPos'
      BY <1>2, <1>3, <1>7, <1>12
    <3> QED  BY <3>1, <3>2, <1>12
  <2>7. ASSUME NEW k \in DOMAIN received', NEW l \in DOMAIN received', k < l
        PROVE  received'[k].from + Cols <= received'[l].from
    <3>1. k \in DOMAIN received
      BY <2>7, <1>12
    <3>2. CASE l = n
      <4>1. received[k].from + Cols <= RPos
        BY <3>1 DEF IInv, Positions, PositionsFresh
      <4> QED  BY <3>1, <3>2, <4>1, <1>7, <1>12
    <3>3. CASE l \in DOMAIN received
      BY <2>7, <3>1, <3>3, <1>12 DEF IInv, Positions, PositionsFresh, PadsFresh
    <3> QED  BY <3>2, <3>3, <1>12
  <2>8. PositionsIdle'
    BY <1>1, Frame DEF PositionsIdle
  <2> QED  BY <2>5, <2>6, <2>7, <2>8, <1>1, Frame DEF Positions, PositionsFresh, PadsFresh
<1>15. /\ \A k \in DOMAIN received : CallMatrix(k)' = CallMatrix(k)
       /\ CallMatrix(n)' = SendMatrix(choices)
  <2>1. ASSUME NEW k \in DOMAIN received
        PROVE  CallMatrix(k)' = CallMatrix(k)
    BY <1>1, <1>12, Frame, BaseOtFrame DEF CallMatrix, Masked
  <2>2. CallMatrix(n)' = [i \in 0 .. Rows - 1 |-> Masked(PadMatrix(0, RPos)[i],
                                                        PadMatrix(1, RPos)[i], choices)]
    <3>1. received'[n].from = RPos /\ received'[n].choices = choices
      BY <1>7, <1>12
    <3> QED  BY <3>1, <1>1, Frame, BaseOtFrame DEF CallMatrix, Masked
  <2>3. Pads(0) = PadMatrix(0, RPos) /\ Pads(1) = PadMatrix(1, RPos)
    BY <1>3
  <2> QED  BY <2>1, <2>2, <2>3 DEF SendMatrix
<1>16. Contents'
  <2>1. ASSUME NEW k \in DOMAIN net'
        PROVE  net'[k] = CallMatrix(Len(sent) + k)'
    <3>1. net' = Append(net, SendMatrix(choices)) /\ SendMatrix(choices) \in Matrix
      BY <1>1, DrawAndSendKeeps DEF DrawAndSend
    <3>2. PICK m \in 1 .. n : m = Len(sent) + k
      BY <3>1, <1>10, <1>11, SMTT(30)
    <3>3. CASE k \in DOMAIN net
      <4>1. m \in DOMAIN received /\ net'[k] = net[k]
        BY <3>2, <3>1, <3>3, <1>10, <1>11, <1>12
      <4>2. net'[k] = CallMatrix(m)'
        BY <3>2, <3>3, <4>1, <1>1, <1>15 DEF IInv, Contents
      <4> QED  BY <4>2, <3>2, <1>1
    <3>4. CASE k = Len(net) + 1
      <4>1. m = n /\ net'[k] = SendMatrix(choices)
        BY <3>2, <3>1, <3>4, <1>10, <1>11
      <4>2. net'[k] = CallMatrix(m)'
        BY <4>1, <1>15
      <4> QED  BY <4>2, <3>2, <1>1
    <3>5. k \in DOMAIN net \/ k = Len(net) + 1
      BY <3>1, <1>10
    <3> QED  BY <3>3, <3>4, <3>5
  <2>2. ASSUME NEW k \in DOMAIN received', NEW x \in Transfers
        PROVE  received'[k].messages[x] = Tweaked(Row(PadMatrix(0, received'[k].from), x), x)
    <3>1. CASE k = n
      <4>1. Pads(0) = PadMatrix(0, RPos)
        BY <1>3
      <4>2. received'[k].from = RPos /\ received'[k].messages = messages
        BY <3>1, <1>7, <1>12
      <4> QED  BY <4>1, <4>2 DEF messages
    <3>2. CASE k \in DOMAIN received
      BY <3>2, <1>1, <1>12 DEF IInv, Contents
    <3> QED  BY <3>1, <3>2, <1>12
  <2>3. \A m, x : Row(m, x)' = Row(m, x)
    BY <1>1 DEF Row
  <2> QED  BY <2>1, <2>2, <2>3, <1>1, Frame, BaseOtFrame DEF Contents
<1>17. ChosenUntilRenewed'
  <2>1. DOMAIN sent = 1 .. Len(sent) /\ Len(sent) <= n - 1 /\ Len(sent) \in Nat
    BY <1>10, <1>11
  <2>2. \A k \in DOMAIN sent : k \in DOMAIN received
    BY <2>1, <1>12
  <2> QED  BY <2>2, <1>1, <1>12, Frame DEF IInv, ChosenUntilRenewed, ChosenMessages
<1> QED  BY <1>6, <1>8, <1>9, <1>14, <1>16, <1>17 DEF IInv

\* What the sender computes from the matrix at the head of the stream: with its
\* choices of the first base OT the rows the receiver hashed, moved by these
\* choices where a choice bit is 1.
LEMMA SenderRows ==
    ASSUME IInv, SenderSend
    PROVE  LET k == Len(sent) + 1
           IN  /\ k \in DOMAIN received
               /\ Rows = W /\ params.ext_ot_sizes % W = 0
               /\ sInstalled > 0
               /\ base_choices \in Seq(Block) /\ base_choices # <<>>
               /\ received[k].from \in Nat /\ received[k].choices \in Choices
               /\ sInstalled <= 1 => \A x \in Transfers :
                      Row(ExtMatrix(Head(net)), x) =
                          IF BitFromBlocks(received[k].choices, x) = 1
                          THEN Row(PadMatrix(0, received[k].from), x) (+) Head(base_choices)
                          ELSE Row(PadMatrix(0, received[k].from), x)
<1>1. /\ sInstalled \in Nat /\ sInstalled > 0 /\ 1 \in 1 .. Len(baseOts)
      /\ baseOts[1] \in BaseOts /\ Len(baseOts[1].pairs) = Rows
  <2>1. sInstalled > 0
    BY DEF SenderSend
  <2> QED  BY <2>1, BaseOtsRun
<1>2. params \in Params /\ Rows \in Nat \ {0} /\ Cols \in Nat
  BY ParamsTypes DEF IInv, TypeOK
<1>3. Rows = W /\ params.ext_ot_sizes % W = 0
  <2>1. \A w \in Nat \ {0}, r \in Nat \ {0} : ~(r > w) /\ r % w = 0 => r = w
    OBVIOUS
  <2>2. ~(Rows > W) /\ Rows % W = 0 /\ params.ext_ot_sizes % W = 0
    BY DEF SenderSend, SenderRejects, Rows
  <2> QED  BY <1>2, <2>1, <2>2, WAssumption
<1>4. base_choices \in Seq(Block) /\ base_choices # <<>>
  BY <1>1 DEF IInv, TypeOK, BaseOtInstalled, SenderInstalled
<1>5. PICK k \in Nat : k = Len(sent) + 1
  BY DEF IInv, TypeOK
<1>6. /\ net \in Seq(Matrix) /\ net # <<>> /\ 1 \in DOMAIN net /\ Head(net) = net[1]
      /\ k \in DOMAIN received /\ Len(sent) + 1 = k
      /\ received[k] \in [from : Nat, choices : Choices, messages : [Transfers -> Block]]
  <2>1. /\ received \in Seq([from : Nat, choices : Choices, messages : [Transfers -> Block]])
        /\ sent \in Seq([Transfers -> [0 .. 1 -> Block]])
        /\ net \in Seq(Matrix) /\ net # <<>>
        /\ Len(received) = Len(sent) + Len(net)
    BY <1>3 DEF SenderSend, IInv, TypeOK, Positions, PositionsInStep
  <2>2. 1 \in DOMAIN net /\ Head(net) = net[1] /\ Len(net) >= 1
    BY <2>1
  <2>3. k \in DOMAIN received
    BY <2>1, <2>2, <1>5
  <2>4. received[k] \in [from : Nat, choices : Choices, messages : [Transfers -> Block]]
    BY <2>1, <2>3, Element
  <2> QED  BY <2>1, <2>2, <2>3, <2>4, <1>5
<1> DEFINE from == received[k].from
           choices == received[k].choices
<1>7. /\ from \in Nat /\ choices \in Choices /\ from + Cols <= StreamLen
      /\ Head(net) = CallMatrix(k)
      /\ \A i \in 1 .. Rows : sPrng[i].pos = from
  <2>1. From(k) = from
    BY <1>6 DEF From
  <2> QED  BY <2>1, <1>1, <1>3, <1>6 DEF IInv, Positions, PositionsInStep, Contents
<1>8. PadMatrix(0, from) \in Matrix /\ PadMatrix(1, from) \in Matrix
  BY <1>1, <1>7, PadTypes
<1> HIDE DEF from, choices
<1>9. ASSUME sInstalled <= 1, NEW i \in 0 .. Rows - 1
      PROVE  Drawn(sPrng[i + 1], Cols) = IF BitFromBlocks(base_choices, i) = 1
                                   THEN PadMatrix(1, from)[i] ELSE PadMatrix(0, from)[i]
  <2>1. i + 1 \in 1 .. Rows /\ i + 1 \in 1 .. Len(baseOts[1].pairs) /\ (i + 1) - 1 = i
    BY <1>1, <1>2
  <2>2. sPrng[i + 1].seed = Chosen(baseOts[1])[i + 1] /\ sPrng[i + 1].pos = from
    BY <1>1, <1>7, <2>1 DEF IInv, BaseOtInstalled, SenderInstalled
  <2>3. Chosen(baseOts[1])[i + 1] = baseOts[1].pairs[i + 1][BitFromBlocks(base_choices, i)]
    <3>1. sInstalled = 1
      BY <1>1, <1>9
    <3>2. base_choices = baseOts[1].choices
      BY <3>1 DEF IInv, BaseOtInstalled, SenderInstalled
    <3> QED  BY <3>2, <2>1 DEF Chosen
  <2>4. Drawn(sPrng[i + 1], Cols) = PadMatrix(BitFromBlocks(base_choices, i), from)[i]
    BY <2>2, <2>3 DEF Drawn, PadMatrix
  <2> QED  BY <2>4 DEF BitFromBlocks
<1>10. ASSUME sInstalled <= 1
       PROVE  ExtMatrix(Head(net)) =
           [i \in 0 .. Rows - 1 |->
               Corrected(IF BitFromBlocks(base_choices, i) = 1
                         THEN PadMatrix(1, from)[i] ELSE PadMatrix(0, from)[i],
                         BitFromBlocks(base_choices, i),
                         Masked(PadMatrix(0, from)[i], PadMatrix(1, from)[i], choices))]
  <2>1. ASSUME NEW i \in 0 .. Rows - 1
        PROVE  Head(net)[i] = Masked(PadMatrix(0, from)[i], PadMatrix(1, from)[i], choices)
    BY <1>7 DEF CallMatrix, from, choices
  <2> QED  BY <1>9, <1>10, <2>1 DEF ExtMatrix
<1>11. ASSUME sInstalled <= 1, NEW x \in Transfers
       PROVE  Row(ExtMatrix(Head(net)), x) =
                  IF BitFromBlocks(choices, x) = 1
                  THEN Row(PadMatrix(0, from), x) (+) Head(base_choices)
                  ELSE Row(PadMatrix(0, from), x)
  <2>1. PICK t0 \in Matrix, t1 \in Matrix :
            t0 = PadMatrix(0, from) /\ t1 = PadMatrix(1, from)
    BY <1>8
  <2>2. ExtMatrix(Head(net)) =
            [i \in 0 .. Rows - 1 |->
                Corrected(IF BitFromBlocks(base_choices, i) = 1 THEN t1[i] ELSE t0[i],
                          BitFromBlocks(base_choices, i), Masked(t0[i], t1[i], choices))]
    BY <1>10, <1>11, <2>1
  <2>3. choices \in Choices
    BY <1>7
  <2>4. Row(ExtMatrix(Head(net)), x) = IF BitFromBlocks(choices, x) = 1
                                       THEN Row(t0, x) (+) Head(base_choices)
                                       ELSE Row(t0, x)
    BY <1>2, <1>3, <1>4, <2>2, <2>3, RowCorrected
  <2> QED  BY <2>1, <2>4
<1> QED  BY <1>1, <1>3, <1>4, <1>5, <1>6, <1>7, <1>11 DEF from, choices

\* A send takes the head of the stream and returns pairs that fit the messages
\* the receiver returned for it.
LEMMA SenderSendKeeps ==
    ASSUME IInv, SenderSend
    PROVE  IInv'
<1>1. PICK k \in Nat : k = Len(sent) + 1
  BY DEF IInv, TypeOK
<1> DEFINE from == received[k].from
           choices == received[k].choices
           row(x) == Row(ExtMatrix(Head(net)), x)
           pairs == [x \in Transfers |-> Pair(row(x), x)]
<1>2. /\ k \in DOMAIN received /\ Rows = W /\ params.ext_ot_sizes % W = 0
      /\ sInstalled > 0
      /\ base_choices \in Seq(Block) /\ base_choices # <<>>
      /\ from \in Nat /\ choices \in Choices
      /\ sInstalled <= 1 => \A x \in Transfers :
             row(x) = IF BitFromBlocks(choices, x) = 1
                      THEN Row(PadMatrix(0, from), x) (+) Head(base_choices)
                      ELSE Row(PadMatrix(0, from), x)
  BY <1>1, SenderRows
<1>3. /\ UNCHANGED <<params, baseOts, sInstalled, base_choices, sStatus,
                     rInstalled, rPrng, received, rStatus>>
      /\ sent' = Append(sent, pairs)
      /\ net' = Tail(net) /\ net # <<>>
      /\ sPrng' = SenderGenerators
  BY DEF SenderSend, rVars, Transfers
<1>4. params \in Params /\ Rows \in Nat \ {0} /\ Cols \in Nat
  BY ParamsTypes DEF IInv, TypeOK
<1>5. ASSUME NEW x \in Transfers
      PROVE  /\ row(x) \in Block /\ row(x) (+) Head(base_choices) \in Block
             /\ Row(PadMatrix(0, from), x) \in Block
  <2>1. x % W \in Bit
    BY <1>2, <1>4, TransferIndex
  <2>2. Head(base_choices) \in Block
    BY <1>2
  <2> QED  BY <2>1, <2>2, RowType, XorBlock
<1>6. pairs \in [Transfers -> [0 .. 1 -> Block]]
  BY <1>5, TweakedType DEF Pair
<1>7. /\ received \in Seq([from : Nat, choices : Choices, messages : [Transfers -> Block]])
      /\ sent \in Seq([Transfers -> [0 .. 1 -> Block]]) /\ net \in Seq(Matrix)
      /\ Len(received) = Len(sent) + Len(net)
  BY <1>2 DEF IInv, TypeOK, Positions, PositionsInStep
<1> HIDE DEF pairs, row, from, choices
<1>8. /\ sent' \in Seq([Transfers -> [0 .. 1 -> Block]]) /\ Len(sent') = k
      /\ DOMAIN sent = 1 .. k - 1 /\ DOMAIN sent' = 1 .. k
      /\ \A l \in DOMAIN sent : sent'[l] = sent[l]
      /\ sent'[k] = pairs
  BY <1>1, <1>3, <1>6, <1>7, Appended
<1>9. /\ net' \in Seq(Matrix) /\ Len(net') = Len(net) - 1
      /\ \A l \in DOMAIN net' : l + 1 \in DOMAIN net /\ net'[l] = net[l + 1]
  BY <1>3, <1>7
<1>10. /\ sPrng \in Seq(Generator) /\ Len(sPrng) >= Rows
       /\ \A i \in 1 .. Rows : /\ sPrng[i].seed = Chosen(baseOts[1])[i]
                               /\ sPrng[i].pos = from
  <2>1. sPrng \in Seq(Generator) /\ Len(sPrng) >= Rows
    BY <1>2 DEF IInv, TypeOK, BaseOtInstalled, SenderInstalled
  <2>2. \A i \in 1 .. Rows : sPrng[i].seed = Chosen(baseOts[1])[i]
    BY <1>2 DEF IInv, BaseOtInstalled, SenderInstalled
  <2>3. From(Len(sent) + 1) = from
    BY <1>1, <1>2 DEF From, from
  <2>4. \A i \in 1 .. Rows : sPrng[i].pos = from
    BY <1>2, <2>3 DEF IInv, Positions, PositionsInStep
  <2> QED  BY <2>1, <2>2, <2>4
<1>11. /\ sPrng' \in Seq(Generator) /\ Len(sPrng') >= Rows
       /\ \A i \in 1 .. Rows : /\ sPrng'[i].seed = Chosen(baseOts[1])[i]
                               /\ sPrng'[i].pos = from + Cols
  <2>1. /\ \A g \in DOMAIN sPrng :
               sPrng'[g] = IF g <= Rows THEN Advanced(sPrng[g], Cols) ELSE sPrng[g]
        /\ DOMAIN sPrng = 1 .. Len(sPrng) /\ Len(sPrng) \in Nat
    BY <1>3, <1>10 DEF SenderGenerators
  <2>2. ASSUME NEW g \in DOMAIN sPrng
        PROVE  /\ Advanced(sPrng[g], Cols) \in Generator
               /\ Advanced(sPrng[g], Cols).seed = sPrng[g].seed
               /\ Advanced(sPrng[g], Cols).pos = sPrng[g].pos + Cols
               /\ sPrng[g] \in Generator
    <3>1. sPrng[g] \in Generator
      BY <1>10, Element
    <3>2. sPrng[g].pos + Cols \in Nat
      BY <3>1, <1>4 DEF Generator
    <3> QED  BY <3>1, <3>2 DEF Advanced, Generator
  <2>3. sPrng' = [g \in 1 .. Len(sPrng) |-> sPrng'[g]]
    BY <2>1, <1>3 DEF SenderGenerators
  <2>4. sPrng' \in Seq(Generator) /\ Len(sPrng') = Len(sPrng)
    BY <2>1, <2>2, <2>3
  <2>5. ASSUME NEW i \in 1 .. Rows
        PROVE  sPrng'[i].seed = Chosen(baseOts[1])[i] /\ sPrng'[i].pos = from + Cols
    <3>1. i \in DOMAIN sPrng /\ i <= Rows
      BY <2>1, <1>4, <1>10
    <3>2. sPrng'[i] = Advanced(sPrng[i], Cols)
      BY <3>1, <2>1
    <3> QED  BY <3>1, <3>2, <2>2, <1>10
  <2> QED  BY <2>4, <2>5, <1>10
<1>12. TypeOK'
  BY <1>3, <1>8, <1>9, <1>11, Frame DEF IInv, TypeOK
<1>13. BaseOtInstalled'
  <2>1. Chosen(baseOts[1])' = Chosen(baseOts[1]) /\ RPos' = RPos
    BY <1>3 DEF Chosen, RPos
  <2>2. SenderInstalled'
    <3>1. sInstalled' # 0 /\ (sInstalled' = 1 => base_choices' = baseOts'[1].choices)
      <4>1. sInstalled # 0
        BY <1>2, BaseOtsRun
      <4> QED  BY <4>1, <1>3 DEF IInv, BaseOtInstalled, SenderInstalled
    <3> QED  BY <3>1, <1>2, <1>3, <1>11, <2>1, Frame DEF SenderInstalled
  <2>3. rInstalled # 0
    <3>1. received # <<>>
      BY <1>2
    <3> QED  BY <3>1 DEF IInv, BaseOtInstalled, ReceiverInstalled
  <2>4. ReceiverInstalled'
    BY <1>3, <2>1, <2>3, Frame DEF IInv, BaseOtInstalled, ReceiverInstalled
  <2>5. BaseOtSize'
    BY <1>3, Frame DEF IInv, BaseOtInstalled, BaseOtSize
  <2> QED  BY <2>2, <2>4, <2>5 DEF BaseOtInstalled
<1>14. OnlySupported'
  BY <1>2, <1>3, Frame DEF OnlySupported
<1>15. \A l : From(l)' = From(l)
  BY <1>3 DEF From, RPos
<1>16. Positions'
  <2>1. Len(received') = Len(sent') + Len(net')
    BY <1>1, <1>3, <1>7, <1>8, <1>9
  <2>2. PICK m \in Nat : m = k + 1 /\ m = Len(sent') + 1
    BY <1>8
  <2>3. From(m)' = from + Cols
    BY <1>2, <1>15, <2>2 DEF IInv, Positions, PositionsInStep, from
  <2>4. \A i \in 1 .. Rows : sPrng'[i].pos = From(Len(sent) + 1)'
    BY <1>11, <2>2, <2>3
  <2>5. /\ From(1)' = 0
        /\ \A l \in DOMAIN received : /\ received'[l].from + Cols <= StreamLen
                                      /\ From(l + 1)' = received'[l].from + Cols
    BY <1>2, <1>3, <1>15 DEF IInv, Positions, PositionsInStep
  <2>6. PositionsInStep'
    BY <2>1, <2>4, <2>5, <1>3, Frame DEF PositionsInStep
  <2>7. PositionsFresh'
    BY <1>3, Frame DEF IInv, Positions, PositionsFresh, PadsFresh, RPos
  <2>8. PositionsIdle'
    BY <1>2, <1>3, Frame DEF PositionsIdle
  <2> QED  BY <2>6, <2>7, <2>8 DEF Positions
<1>17. /\ \A l : CallMatrix(l)' = CallMatrix(l)
       /\ \A m, x : Row(m, x)' = Row(m, x)
  BY <1>3, Frame, BaseOtFrame DEF CallMatrix, Masked, Row
<1>18. Contents'
  <2>1. ASSUME NEW l \in DOMAIN net'
        PROVE  net'[l] = CallMatrix(Len(sent) + l)'
    <3>1. PICK m \in Nat : m = k + l /\ m = Len(sent) + (l + 1) /\ m = Len(sent') + l
      <4>1. l \in Nat /\ Len(sent) \in Nat
        BY <1>7, <1>9
      <4>2. k + l = Len(sent) + (l + 1) /\ k + l = Len(sent') + l /\ k + l \in Nat
        <5>1. \A a \in Nat, b \in Nat : (a + 1) + b = a + (b + 1) /\ (a + 1) + b \in Nat
          OBVIOUS
        <5> QED  BY <4>1, <5>1, <1>1, <1>8
      <4> QED  BY <4>2
    <3>2. net'[l] = CallMatrix(m)
      BY <3>1, <1>2, <1>9 DEF IInv, Contents
    <3> QED  BY <3>1, <3>2, <1>17
  <2> QED  BY <2>1, <1>2, <1>3, <1>17, Frame, BaseOtFrame DEF IInv, Contents
<1>19. ASSUME sInstalled <= 1
       PROVE  ChosenMessages'
  <2>1. ASSUME NEW l \in DOMAIN sent' \cap DOMAIN received, NEW x \in Transfers
        PROVE  received[l].messages[x] = sent'[l][x][BitFromBlocks(received[l].choices, x)]
    <3>1. CASE l \in DOMAIN sent
      BY <3>1, <1>8, <1>19 DEF IInv, ChosenUntilRenewed, ChosenMessages
    <3>2. CASE l = k
      <4>1. received[k].messages[x] = Tweaked(Row(PadMatrix(0, from), x), x)
        BY <1>2 DEF IInv, Contents, from
      <4>2. sent'[k][x] = Pair(row(x), x)
        BY <1>8 DEF pairs
      <4>3. CASE BitFromBlocks(choices, x) = 1
        <5>1. row(x) (+) Head(base_choices) = Row(PadMatrix(0, from), x)
          BY <1>2, <1>19, <4>3, XorCancels
        <5> QED  BY <4>1, <4>2, <4>3, <5>1, <3>2 DEF Pair, choices
      <4>4. CASE BitFromBlocks(choices, x) = 0
        <5>1. row(x) = Row(PadMatrix(0, from), x)
          BY <1>2, <1>19, <4>4
        <5> QED  BY <4>1, <4>2, <4>4, <5>1, <3>2 DEF Pair, choices
      <4> QED  BY <4>3, <4>4, BitType
    <3> QED  BY <3>1, <3>2, <1>1, <1>8
  <2> QED  BY <2>1, <1>3, Frame DEF ChosenMessages
<1>20. ChosenUntilRenewed'
  BY <1>3, <1>19 DEF ChosenUntilRenewed
<1> QED  BY <1>12, <1>13, <1>14, <1>16, <1>18, <1>20 DEF IInv

\* Nothing changes, nothing breaks.
LEMMA StutterKeeps ==
    ASSUME IInv, UNCHANGED vars
    PROVE  IInv'
<1>1. /\ UNCHANGED <<params, baseOts, net, sInstalled, sPrng, base_choices, sent, sStatus>>
      /\ UNCHANGED <<rInstalled, rPrng, received, rStatus>>
  BY DEF vars, sVars, rVars
<1>2. TypeOK'
  BY <1>1, Frame DEF IInv, TypeOK
<1>3. BaseOtInstalled'
  BY <1>1, Frame
     DEF IInv, BaseOtInstalled, BaseOtSize, SenderInstalled, ReceiverInstalled, RPos, Chosen
<1>4. Positions'
  BY <1>1, Frame
     DEF IInv, Positions, PositionsInStep, PositionsFresh, PositionsIdle, PadsFresh, From, RPos
<1> QED  BY <1>1, <1>2, <1>3, <1>4, ContentsFrame DEF IInv

\* Every step keeps the invariant.
LEMMA StepKeeps ==
    ASSUME IInv, [Next]_vars
    PROVE  IInv'
<1>1. CASE RunBaseOt
  BY <1>1, RunBaseOtKeeps
<1>2. CASE SenderSetBaseOts
  BY <1>2, SenderSetBaseOtsKeeps
<1>3. CASE SenderThrow \/ ReceiverThrow
  BY <1>3, ThrowKeeps
<1>4. CASE SenderSend
  BY <1>4, SenderSendKeeps
<1>5. CASE ReceiverSetBaseOts
  BY <1>5, ReceiverSetBaseOtsKeeps
<1>6. CASE \E choices \in Choices : ReceiverReceive(choices)
  BY <1>6, ReceiverReceiveKeeps
<1>7. CASE \E choices \in Choices : ReceiverOverrun(choices)
  BY <1>7, ReceiverOverrunKeeps
<1>8. CASE UNCHANGED vars
  BY <1>8, StutterKeeps
<1> QED  BY <1>1, <1>2, <1>3, <1>4, <1>5, <1>6, <1>7, <1>8
         DEF Next, SenderStep, ReceiverStep

-----------------------------------------------------------------------------
(* The theorems: for every size of block, every parameters, base OTs,      *)
(* generator and hash, any number of calls and any number of base OTs.     *)

\* However often either party is given a base OT, before, between and after
\* calls, the inductive invariant holds.
THEOREM Invariance == Spec => []IInv
<1>1. Init => IInv
  BY InitInvariant
<1>2. IInv /\ [Next]_vars => IInv'
  BY StepKeeps
<1> QED  BY <1>1, <1>2, PTL DEF Spec

\* Every variable keeps its type: in particular no generator is asked for a
\* block beyond its bound and no matrix of another shape is sent.
THEOREM TypeCorrectness == Spec => []TypeOK
<1>1. IInv => TypeOK
  BY DEF IInv
<1> QED  BY <1>1, Invariance, PTL

\* Until the sender is given a second base OT, the receiver's messages are, in
\* every call, those of the sender's pairs that its choice bits name; further
\* base OTs of the receiver alone change nothing.
THEOREM ChosenUntilRenewedHolds == Spec => []ChosenUntilRenewed
<1>1. IInv => ChosenUntilRenewed
  BY DEF IInv
<1> QED  BY <1>1, Invariance, PTL

\* No two calls draw the same blocks of a generator.
THEOREM PadsStayFresh == Spec => []PadsFresh
<1>1. IInv => PadsFresh
  BY DEF IInv, Positions, PositionsFresh
<1> QED  BY <1>1, Invariance, PTL

\* However often set_base_ots is called, and whoever calls it first, each
\* generator of the sender has the seed that the sender's choice bit names of
\* the receiver's two.
THEOREM SeedsMatchHolds == Spec => []SeedsMatch
<1>1. IInv => SeedsMatch
  <2> SUFFICES ASSUME IInv, sInstalled > 0, rInstalled > 0, NEW i \in 1 .. Rows
               PROVE  sPrng[i].seed = rPrng[i][BitFromBlocks(baseOts[1].choices, i - 1)].seed
    BY DEF SeedsMatch
  <2>1. PICK b \in 0 .. 1 : b = BitFromBlocks(baseOts[1].choices, i - 1)
    BY BitType
  <2>2. i \in 1 .. Len(baseOts[1].pairs)
    BY BaseOtsRun
  <2>3. Chosen(baseOts[1])[i] = baseOts[1].pairs[i][b]
    BY <2>1, <2>2 DEF Chosen
  <2>4. rPrng[i][b] = [seed |-> baseOts[1].pairs[i][b], pos |-> RPos]
    BY DEF IInv, BaseOtInstalled, ReceiverInstalled
  <2>5. rPrng[i][b].seed = baseOts[1].pairs[i][b]
    BY <2>4
  <2> QED  BY <2>1, <2>3, <2>5 DEF IInv, BaseOtInstalled, SenderInstalled
<1> QED  BY <1>1, Invariance, PTL

\* The invariant relates generators and stream.
LEMMA InStep == ASSUME IInv PROVE StreamsInStep
<1> SUFFICES ASSUME sInstalled > 0, rInstalled > 0, rStatus # "undefined"
             PROVE  /\ Len(net) = Len(received) - Len(sent)
                    /\ \A i \in 1 .. Rows : sPrng[i].pos = PadsFrom(Len(sent) + 1)
                    /\ \A i \in 1 .. Rows, b \in 0 .. 1 :
                           rPrng[i][b].pos = PadsFrom(Len(received) + 1)
  BY DEF StreamsInStep
<1>1. rInstalled # 0
  BY BaseOtsRun
<1>2. /\ \A k : PadsFrom(k) = From(k)
      /\ RPos = rPrng[1][0].pos
  BY <1>1 DEF PadsFrom, From, RPos
<1>3. Len(received) \in Nat /\ Len(sent) \in Nat /\ Len(net) \in Nat
      /\ DOMAIN received = 1 .. Len(received)
  BY DEF IInv, TypeOK
<1>4. From(Len(received) + 1) = RPos
  BY <1>3 DEF From
<1>5. \A i \in 1 .. Rows, b \in 0 .. 1 : rPrng[i][b].pos = RPos
  <2>1. \A i \in 1 .. Rows, b \in 0 .. 1 :
            rPrng[i][b] = [seed |-> baseOts[1].pairs[i][b], pos |-> RPos]
    BY <1>1 DEF IInv, BaseOtInstalled, ReceiverInstalled
  <2>2. ASSUME NEW i \in 1 .. Rows, NEW b \in 0 .. 1
        PROVE  rPrng[i][b].pos = RPos
    <3>1. rPrng[i][b] = [seed |-> baseOts[1].pairs[i][b], pos |-> RPos]
      BY <2>1
    <3> QED  BY <3>1
  <2> QED  BY <2>2
<1>6. CASE Rows = W
  BY <1>1, <1>2, <1>3, <1>4, <1>5, <1>6 DEF IInv, Positions, PositionsInStep
<1>7. CASE Rows # W
  <2>1. sent = <<>> /\ received = <<>> /\ net = <<>> /\ RPos = 0
    BY <1>7 DEF IInv, OnlySupported, Positions, PositionsIdle
  <2>2. Len(net) = Len(received) - Len(sent) /\ From(Len(sent) + 1) = 0
    BY <2>1, <1>3 DEF From
  <2> QED  BY <2>2, <1>1, <1>2, <1>4, <1>5, <1>7
           DEF IInv, Positions, PositionsIdle
<1> QED  BY <1>6, <1>7

\* The sender's generators trail the receiver's by exactly the matrices that
\* are on the stream, across any number of set_base_ots on either side.
THEOREM StreamsStayInStep == Spec => []StreamsInStep
<1>1. IInv => StreamsInStep
  BY InStep
<1> QED  BY <1>1, Invariance, PTL

\* Unless base OTs have several whole blocks of instances, a call that one party
\* refuses leaves nothing on the stream and returns on neither side.
THEOREM RejectedAlikeHolds ==
    ASSUME \A p \in Params : p.base_ot_sizes > W => p.base_ot_sizes % W # 0
    PROVE  Spec => []RejectedAlike
<1>1. Init => RefusedInv
  BY DEF Init, RefusedInv
<1>2. RefusedInv /\ [Next]_vars => RefusedInv'
  <2> SUFFICES ASSUME RefusedInv, [Next]_vars
               PROVE  RefusedInv'
    OBVIOUS
  <2>1. params' = params
    BY DEF Next, SenderStep, ReceiverStep, RunBaseOt, SenderSetBaseOts, SenderThrow, SenderSend,
           ReceiverSetBaseOts, ReceiverThrow, ReceiverReceive, ReceiverOverrun, vars
  <2>2. /\ ReceiverRejects' <=> ReceiverRejects
        /\ ReceiverRejects <=> SenderRejects
    <3>1. params.base_ot_sizes \in Nat /\ (params.base_ot_sizes > W => params.base_ot_sizes % W # 0)
      BY ParamsAssumption DEF RefusedInv
    <3> QED  BY <3>1, <2>1, WAssumption DEF ReceiverRejects, SenderRejects
  <2>3. CASE SenderSend \/ \E choices \in Choices : ReceiverReceive(choices) \/ ReceiverOverrun(choices)
    <3>1. ~ReceiverRejects
      BY <2>2, <2>3 DEF SenderSend, ReceiverReceive, ReceiverOverrun, CanReceive
    <3>2. sStatus # "threw" /\ rStatus # "threw"
      BY <3>1 DEF RefusedInv
    <3>3. sStatus' # "threw" /\ rStatus' # "threw"
      BY <2>3, <3>2 DEF SenderSend, ReceiverReceive, ReceiverOverrun, sVars, rVars
    <3> QED  BY <2>1, <2>2, <3>1, <3>3 DEF RefusedInv
  <2>4. CASE SenderThrow \/ ReceiverThrow
    <3>1. UNCHANGED <<net, sent, received>> /\ ReceiverRejects
      BY <2>2, <2>4 DEF SenderThrow, ReceiverThrow, sVars, rVars
    <3> QED  BY <3>1, <2>1, <2>2 DEF RefusedInv
  <2>5. CASE RunBaseOt \/ SenderSetBaseOts \/ ReceiverSetBaseOts \/ UNCHANGED vars
    <3>1. UNCHANGED <<net, sent, received, sStatus, rStatus>>
      BY <2>5 DEF RunBaseOt, SenderSetBaseOts, ReceiverSetBaseOts, vars, sVars, rVars
    <3> QED  BY <3>1, <2>1, <2>2 DEF RefusedInv
  <2> QED  BY <2>3, <2>4, <2>5 DEF Next, SenderStep, ReceiverStep
<1>3. RefusedInv => RejectedAlike
  BY DEF RefusedInv, RejectedAlike
<1> QED  BY <1>1, <1>2, <1>3, PTL DEF Spec

-----------------------------------------------------------------------------
(* The extension implements RandomOt.                                      *)

\* A send is SenderReturns of RandomOt.
LEMMA SenderImplements ==
    ASSUME IInv, IInv', sInstalled <= 1, SenderSend
    PROVE  Abstract!SenderReturns
<1>1. PICK k \in Nat : k = Len(sent) + 1
  BY DEF IInv, TypeOK
<1>2. PICK pairs : sent' = Append(sent, pairs)
  BY DEF SenderSend
<1>3. UNCHANGED <<params, received>>
  BY DEF SenderSend, rVars
<1>4. /\ sent \in Seq([Transfers -> [0 .. 1 -> Block]])
      /\ sent' \in Seq([Transfers -> [0 .. 1 -> Block]])
  BY <1>3, Frame DEF IInv, TypeOK
<1>5. Len(sent') = k /\ k \in DOMAIN sent' /\ sent'[k] = pairs
  BY <1>1, <1>2, <1>4
<1>6. sent'[k] \in [Transfers -> [0 .. 1 -> Block]]
  BY <1>4, <1>5, Element
<1>7. params \in Params
  BY DEF IInv, TypeOK
<1>8. \E n \in {p.ext_ot_sizes : p \in Params} : sent'[k] \in Abstract!Pairs(n)
  BY <1>6, <1>7 DEF Abstract!Pairs, Transfers
<1>9. Outcomes' = Outcomes
  BY <1>3, Frame DEF Outcomes
<1>10. ASSUME k \in DOMAIN received
       PROVE  Abstract!Fits(sent'[k], Outcomes[k])
  <2>1. received \in Seq([from : Nat, choices : Choices, messages : [Transfers -> Block]])
    BY DEF IInv, TypeOK
  <2>2. received[k].messages \in [Transfers -> Block]
    <3>1. received[k] \in [from : Nat, choices : Choices, messages : [Transfers -> Block]]
      BY <1>10, <2>1, Element
    <3> QED  BY <3>1
  <2>3. \A x \in Transfers :
            received[k].messages[x] = sent'[k][x][BitFromBlocks(received[k].choices, x)]
    <3>1. sInstalled' <= 1
      BY DEF SenderSend
    <3> QED  BY <3>1, <1>3, <1>5, <1>10, Frame DEF IInv, ChosenUntilRenewed, ChosenMessages
  <2>4. /\ Outcomes[k].messages = received[k].messages
        /\ \A x \in Transfers : Outcomes[k].choices[x] = BitFromBlocks(received[k].choices, x)
    BY <1>10 DEF Outcomes
  <2> QED  BY <1>6, <2>2, <2>3, <2>4 DEF Abstract!Fits
<1>11. DOMAIN Outcomes = DOMAIN received
  BY DEF Outcomes
<1> QED  BY <1>1, <1>2, <1>5, <1>8, <1>9, <1>10, <1>11 DEF Abstract!SenderReturns

\* A receive is ReceiverReturns of RandomOt.
LEMMA ReceiverImplements ==
    ASSUME IInv, IInv', NEW choices \in Choices, ReceiverReceive(choices)
    PROVE  Abstract!ReceiverReturns
<1>1. PICK k \in Nat : k = Len(received) + 1
  BY DEF IInv, TypeOK
<1>2. PICK result : received' = Append(received, result)
  BY DEF ReceiverReceive
<1>3. UNCHANGED <<params, sent>> /\ Rows = W
  BY DEF ReceiverReceive, sVars, Rows
<1>4. LET R == [from : Nat, choices : Choices, messages : [Transfers -> Block]]
      IN  received \in Seq(R) /\ received' \in Seq(R)
  BY <1>3, Frame DEF IInv, TypeOK
<1>5. /\ Len(received') = k /\ DOMAIN received = 1 .. k - 1 /\ DOMAIN received' = 1 .. k
      /\ \A l \in DOMAIN received : received'[l] = received[l]
  BY <1>1, <1>2, <1>4
<1> DEFINE Seen(r) == [choices  |-> [x \in Transfers |-> BitFromBlocks(r.choices, x)],
                       messages |-> r.messages]
           O == [choices : [Transfers -> 0 .. 1], messages : [Transfers -> Block]]
<1>6. /\ Outcomes = [l \in 1 .. k - 1 |-> Seen(received[l])]
      /\ Outcomes' = [l \in 1 .. k |-> Seen(received'[l])]
  BY <1>3, <1>5, Frame DEF Outcomes
<1>7. ASSUME NEW l \in 1 .. k
      PROVE  Seen(received'[l]) \in O
  <2>1. received'[l] \in [from : Nat, choices : Choices, messages : [Transfers -> Block]]
    BY <1>4, <1>5, Element
  <2> QED  BY <2>1, BitType
<1> HIDE DEF Seen, O
<1>8. /\ Outcomes' = Append(Outcomes, Outcomes'[k])
      /\ Len(Outcomes) + 1 = k /\ Len(Outcomes') = k
      /\ Outcomes'[k] \in O
  <2>1. \A l \in 1 .. k - 1 : Outcomes'[l] = Outcomes[l]
    BY <1>1, <1>5, <1>6
  <2>2. Outcomes \in Seq(O) /\ Len(Outcomes) = k - 1
    <3>1. \A l \in 1 .. k - 1 : Seen(received[l]) \in O
      BY <1>1, <1>5, <1>7
    <3>2. k - 1 \in Nat
      BY <1>1, <1>4
    <3> QED  BY <1>6, <3>1, <3>2
  <2>3. Outcomes' \in Seq(O) /\ Len(Outcomes') = k
    BY <1>1, <1>6, <1>7
  <2> QED  BY <2>1, <2>2, <2>3, <1>1, <1>5, <1>6
<1>9. params \in Params
  BY DEF IInv, TypeOK
<1>10. \E n \in {p.ext_ot_sizes : p \in Params} : Outcomes'[k] \in Abstract!Results(n)
  BY <1>8, <1>9 DEF Abstract!Results, Transfers, O
<1>11. k \notin DOMAIN sent
  <2>1. /\ Len(received) = Len(sent) + Len(net) /\ DOMAIN sent = 1 .. Len(sent)
        /\ Len(sent) \in Nat /\ Len(net) \in Nat
    <3>1. Len(received) = Len(sent) + Len(net)
      BY <1>3 DEF IInv, Positions, PositionsInStep
    <3>2. PICK S, T : sent \in Seq(S) /\ net \in Seq(T)
      BY DEF IInv, TypeOK
    <3> QED  BY <3>1, <3>2
  <2> QED  BY <2>1, <1>1
<1> QED  BY <1>3, <1>8, <1>10, <1>11 DEF Abstract!ReceiverReturns

\* As long as the sender is given no second base OT, every behaviour of the two
\* parties is, seen by what the calls return, one of a random OT.
THEOREM RefinementUntilRenewed == Spec /\ [](sInstalled <= 1) => ImplementsRandomOt
<1>1. Init => Abstract!Init
  BY DEF Init, Abstract!Init, Outcomes
<1>2. ASSUME IInv, IInv', sInstalled <= 1, [Next]_vars
      PROVE  [Abstract!Next]_(Abstract!vars)
  <2>1. CASE SenderSend
    BY <1>2, <2>1, SenderImplements DEF Abstract!Next
  <2>2. CASE \E choices \in Choices : ReceiverReceive(choices)
    BY <1>2, <2>2, ReceiverImplements DEF Abstract!Next
  <2>3. CASE UNCHANGED <<params, sent, received>>
    BY <2>3, Frame DEF Abstract!vars, Outcomes
  <2>4. RunBaseOt \/ SenderSetBaseOts \/ SenderThrow \/ ReceiverSetBaseOts \/ ReceiverThrow
            \/ (\E choices \in Choices : ReceiverOverrun(choices)) \/ UNCHANGED vars
        => UNCHANGED <<params, sent, received>>
    BY DEF RunBaseOt, SenderSetBaseOts, SenderThrow, ReceiverSetBaseOts, ReceiverThrow,
           ReceiverOverrun, vars, sVars, rVars
  <2> QED  BY <1>2, <2>1, <2>2, <2>3, <2>4 DEF Next, SenderStep, ReceiverStep
<1> QED  BY <1>1, <1>2, Invariance, PTL DEF Spec, ImplementsRandomOt, Abstract!Spec

-----------------------------------------------------------------------------
(* One base OT is all that the library's own programs run for a pair of    *)
(* objects: then nothing is left to ask of the sender.                     *)

\* Nobody is given more base OTs than were run.
LEMMA GivenOnce == ASSUME MaxBaseOts = 1 PROVE Spec => [](sInstalled <= 1)
<1> DEFINE Run == baseOts \in Seq(BaseOts) /\ Len(baseOts) <= MaxBaseOts
<1>1. Init => Run
  BY BoundsAssumption DEF Init
<1>2. Run /\ [Next]_vars => Run'
  <2> SUFFICES ASSUME Run, [Next]_vars PROVE Run'
    OBVIOUS
  <2>1. CASE RunBaseOt
    <3>1. PICK b \in BaseOts : baseOts' = Append(baseOts, b)
      BY <2>1 DEF RunBaseOt
    <3>2. baseOts' \in Seq(BaseOts) /\ Len(baseOts') = Len(baseOts) + 1
      BY <3>1, Appended
    <3>3. Len(baseOts) < MaxBaseOts /\ Len(baseOts) \in Nat
      BY <2>1 DEF RunBaseOt
    <3> QED  BY <3>2, <3>3, BoundsAssumption
  <2>2. CASE UNCHANGED baseOts
    BY <2>2
  <2>3. RunBaseOt \/ UNCHANGED baseOts
    BY DEF Next, SenderStep, ReceiverStep, SenderSetBaseOts, SenderThrow, SenderSend,
           ReceiverSetBaseOts, ReceiverThrow, ReceiverReceive, ReceiverOverrun, vars
  <2> QED  BY <2>1, <2>2, <2>3
<1>3. Run /\ TypeOK => sInstalled <= 1
  BY DEF TypeOK
<1> HIDE DEF Run
<1> QED  BY <1>1, <1>2, <1>3, TypeCorrectness, PTL DEF Spec

\* With one base OT, in every call the receiver's messages are those of the
\* sender's pairs that its choice bits name.
THEOREM ChosenMessagesHold == ASSUME MaxBaseOts = 1 PROVE Spec => []ChosenMessages
<1>1. ChosenUntilRenewed /\ sInstalled <= 1 => ChosenMessages
  BY DEF ChosenUntilRenewed
<1> QED  BY <1>1, ChosenUntilRenewedHolds, GivenOnce, PTL

\* With one base OT the extension implements a random OT.
THEOREM Refinement == ASSUME MaxBaseOts = 1 PROVE Spec => ImplementsRandomOt
BY RefinementUntilRenewed, GivenOnce, PTL
=============================================================================
