------------------------------- MODULE Blocks -------------------------------
(***************************************************************************)
(* The 128-bit blocks of src/verse/util (common.h, defines.h) and the      *)
(* operations the protocols apply to them.  A block is the set of its bit  *)
(* positions that are 1, so XOR is symmetric difference and AND is         *)
(* intersection.                                                           *)
(***************************************************************************)
EXTENDS Integers, Sequences

CONSTANT W      \* bits of a block: sizeof(block) * 8, 128 in the code

ASSUME WAssumption == W \in Nat \ {0}

Bit == 0 .. W - 1
Block == SUBSET Bit

\* operator^ on two blocks.
a (+) b == (a \ b) \cup (b \ a)

\* _mm_set_epi64x(0, n): the integer n as a block.
IntBlock(n) == {b \in Bit : (n \div 2^b) % 2 = 1}

\* bit_from_blocks: bit i of a vector of blocks (vectors are indexed from 0
\* in the code, sequences from 1 here).
BitFromBlocks(blocks, i) == IF (i % W) \in blocks[(i \div W) + 1] THEN 1 ELSE 0

\* matrix_transpose of one column of W rows, each a block, as the callers use
\* it: bit i of row r of the result is bit r of row i of the input.
Transposed(column) == [r \in Bit |-> {i \in Bit : r \in column[i]}]
=============================================================================
