----------------------------- MODULE SeedLemmas -----------------------------
(***************************************************************************)
(* Facts about the blocks of Blocks and the seeds of Seeds that the proofs *)
(* about both OT extensions rest on.                                       *)
(***************************************************************************)
EXTENDS Seeds, TLAPS

-----------------------------------------------------------------------------
(* Blocks.                                                                 *)

\* XOR, bit by bit.
LEMMA XorElement ==
    ASSUME NEW a, NEW b, NEW e
    PROVE  e \in a (+) b <=> ~(e \in a <=> e \in b)
BY DEF (+)

\* The XOR of two blocks is a block.
LEMMA XorBlock ==
    ASSUME NEW a \in Block, NEW b \in Block
    PROVE  a (+) b \in Block
BY DEF (+), Block

\* XOR with the same block twice changes nothing.
LEMMA XorCancels ==
    ASSUME NEW a, NEW b
    PROVE  (a (+) b) (+) b = a
BY DEF (+)

\* The order of a XOR does not matter.
LEMMA XorCommutes ==
    ASSUME NEW a, NEW b
    PROVE  a (+) b = b (+) a
BY DEF (+)

\* A pad removed from a masked row leaves the other pad and the choices.
LEMMA XorUnmask ==
    ASSUME NEW a, NEW b, NEW c
    PROVE  b (+) ((a (+) b) (+) c) = a (+) c
<1>1. ASSUME NEW e
      PROVE  e \in b (+) ((a (+) b) (+) c) <=> e \in a (+) c
  BY XorElement
<1> QED  BY <1>1

\* An index as a block is a block.
LEMMA IntBlockType ==
    ASSUME NEW n
    PROVE  IntBlock(n) \in Block
BY DEF IntBlock, Block

\* A choice bit is a bit.
LEMMA BitType ==
    ASSUME NEW blocks, NEW i
    PROVE  BitFromBlocks(blocks, i) \in 0 .. 1
BY DEF BitFromBlocks

\* The bits of a base OT of a block's size are those of the first block.
LEMMA LowBits ==
    ASSUME NEW blocks, NEW i \in Bit
    PROVE  BitFromBlocks(blocks, i) = IF i \in blocks[1] THEN 1 ELSE 0
<1>1. i % W = i /\ i \div W = 0
  BY WAssumption DEF Bit
<1> QED  BY <1>1 DEF BitFromBlocks

\* A row of a transposed column is a block.
LEMMA TransposedBlock ==
    ASSUME NEW column, NEW r \in Bit
    PROVE  Transposed(column)[r] \in Block
BY DEF Transposed, Block

-----------------------------------------------------------------------------
(* Sequences.                                                              *)

\* Elements of a sequence over S are in S.
LEMMA Element ==
    ASSUME NEW S, NEW s \in Seq(S), NEW k \in DOMAIN s
    PROVE  s[k] \in S
OBVIOUS

\* What Append does.
LEMMA Appended ==
    ASSUME NEW S, NEW s \in Seq(S), NEW e \in S, NEW t, t = Append(s, e)
    PROVE  /\ t \in Seq(S) /\ Len(t) = Len(s) + 1
           /\ DOMAIN s = 1 .. Len(s) /\ DOMAIN t = 1 .. Len(s) + 1
           /\ \A k \in DOMAIN s : t[k] = s[k]
           /\ t[Len(s) + 1] = e
OBVIOUS

\* What concatenation does.
LEMMA Concatenated ==
    ASSUME NEW S, NEW s \in Seq(S), NEW t \in Seq(S)
    PROVE  /\ s \o t \in Seq(S) /\ Len(s \o t) = Len(s) + Len(t)
           /\ \A k \in 1 .. Len(s) : (s \o t)[k] = s[k]
OBVIOUS

-----------------------------------------------------------------------------
(* The generators that set_base_ots makes.                                 *)

\* The sender's: seeds that its choices name, nothing drawn.
LEMMA ChosenCreated ==
    ASSUME NEW base \in BaseOts
    PROVE  /\ base.choices \in Seq(Block)
           /\ <<>> \o CreatedChosen(base) = CreatedChosen(base)
           /\ CreatedChosen(base) \in Seq(Generator)
           /\ Len(CreatedChosen(base)) = Len(base.pairs)
           /\ \A i \in 1 .. Len(base.pairs) :
                  CreatedChosen(base)[i] = [seed |-> Chosen(base)[i], pos |-> 0]
<1>1. base.choices \in Seq(Block) /\ base.pairs \in Seq([0 .. 1 -> Block])
  BY BaseOtsAssumption
<1>2. \A i \in 1 .. Len(base.pairs) : Chosen(base)[i] \in Block
  BY <1>1, BitType DEF Chosen
<1>3. \A i \in 1 .. Len(base.pairs) : Created(Chosen(base)[i]) \in Generator
  BY <1>2 DEF Created, Generator
<1>4. CreatedChosen(base) \in Seq(Generator) /\ Len(CreatedChosen(base)) = Len(base.pairs)
  BY <1>1, <1>3 DEF CreatedChosen
<1> QED  BY <1>1, <1>4 DEF CreatedChosen, Created

\* The receiver's: both seeds of every pair, nothing drawn.
LEMMA PairsCreated ==
    ASSUME NEW base \in BaseOts
    PROVE  /\ <<>> \o CreatedPairs(base) = CreatedPairs(base)
           /\ CreatedPairs(base) \in Seq([0 .. 1 -> Generator])
           /\ Len(CreatedPairs(base)) = Len(base.pairs)
           /\ \A i \in 1 .. Len(base.pairs), b \in 0 .. 1 :
                  CreatedPairs(base)[i][b] = [seed |-> base.pairs[i][b], pos |-> 0]
<1>1. base.pairs \in Seq([0 .. 1 -> Block])
  BY BaseOtsAssumption
<1>2. \A i \in 1 .. Len(base.pairs) :
          [b \in 0 .. 1 |-> Created(base.pairs[i][b])] \in [0 .. 1 -> Generator]
  BY <1>1 DEF Created, Generator
<1>3. /\ CreatedPairs(base) \in Seq([0 .. 1 -> Generator])
      /\ Len(CreatedPairs(base)) = Len(base.pairs)
  BY <1>1, <1>2 DEF CreatedPairs
<1> QED  BY <1>3 DEF CreatedPairs, Created
=============================================================================
