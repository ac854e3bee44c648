---------------------------- MODULE MCVerseFactory ----------------------------
(***************************************************************************)
(* Three units that include the header, and two registrations of a         *)
(* creator of the program, for any interface and scheme.                   *)
(***************************************************************************)
EXTENDS VerseFactory, TLC

CONSTANTS u1, u2, u3, custom

MCUnits == {u1, u2, u3}
MCCustoms == {custom}

Symmetric == Permutations(MCUnits)
=============================================================================
