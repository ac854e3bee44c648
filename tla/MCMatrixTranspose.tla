-------------------------- MODULE MCMatrixTranspose --------------------------
(***************************************************************************)
(* MatrixTranspose with 16 instead of 128 as the unit of its sizes: the    *)
(* loops move by 16 rows and 8 columns in either case.  A size of one unit *)
(* is what the protocols use, three are not square, two are refused.       *)
(***************************************************************************)
EXTENDS MatrixTranspose

MCUnit == 16
MCSizes == {<<16, 16>>, <<32, 16>>, <<16, 32>>, <<48, 32>>, <<24, 16>>, <<16, 8>>}
=============================================================================
