-------------------------------- MODULE Seeds --------------------------------
(***************************************************************************)
(* What the two OT extensions (two-choose-one/iknp, n-choose-one/kkrt)     *)
(* share: the results of base OTs and the pseudo-random generators of the  *)
(* Solo library that set_base_ots makes of them.  A generator is its seed  *)
(* and the number of blocks it has yielded.                                *)
(***************************************************************************)
EXTENDS Blocks

CONSTANTS BaseOts,      \* the results base OTs may have
          StreamLen,    \* bound: the blocks a generator is asked for
          Prg,          \* AES_ECB_CTR: Prg[seed][p] is block p of the stream
          Hash          \* SHA-256 of one block, cut to one block

\* A base OT gives the receiver of the extension (its sender) a pair of seeds
\* per instance, and the sender of the extension (its receiver) one of each
\* pair, by the bits of the blocks "choices".
ASSUME BaseOtsAssumption ==
    \A b \in BaseOts : /\ b.choices \in Seq(Block)
                       /\ b.choices # <<>>
                       /\ b.pairs \in Seq([0 .. 1 -> Block])
                       /\ Len(b.choices) * W >= Len(b.pairs)

ASSUME PrimitivesAssumption == /\ StreamLen \in Nat
                               /\ Prg \in [Block -> [0 .. StreamLen - 1 -> Block]]
                               /\ Hash \in [Block -> Block]

Generator == [seed : Block, pos : Nat]

Created(seed) == [seed |-> seed, pos |-> 0]

\* What the base OT gave the sender: the seed of each pair its bit names.
Chosen(base) ==
    [i \in 1 .. Len(base.pairs) |-> base.pairs[i][BitFromBlocks(base.choices, i - 1)]]

\* The generators that one set_base_ots adds to prng_, on either side.
CreatedChosen(base) == [i \in 1 .. Len(base.pairs) |-> Created(Chosen(base)[i])]
CreatedPairs(base) ==
    [i \in 1 .. Len(base.pairs) |-> [b \in 0 .. 1 |-> Created(base.pairs[i][b])]]

\* n blocks of a generator, and the generator afterwards: PRNG::generate.
Drawn(prng, n) == [j \in 0 .. n - 1 |-> Prg[prng.seed][prng.pos + j]]
Advanced(prng, n) == [prng EXCEPT !.pos = @ + n]
=============================================================================
