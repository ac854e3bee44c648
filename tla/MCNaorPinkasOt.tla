---------------------------- MODULE MCNaorPinkasOt ----------------------------
(***************************************************************************)
(* NaorPinkasOt over the group of order 5: the point k * G is the number   *)
(* k.  A point and its inverse share their encoding but for the first      *)
(* byte, 2 or 3, as compressed points of the curve do; infinity has first  *)
(* byte 0.  The hash has no collisions.                                    *)
(***************************************************************************)
EXTENDS NaorPinkasOt

Order == 5

MCSizes == {1, 2}
MCMaxTransfers == 2
MCSecret == 1 .. Order - 1
MCPoint == 0 .. Order - 1
MCInfinity == 0
MCGenerator == 1
MCAdd(P, Q) == (P + Q) % Order
MCInvert(P) == (Order - P) % Order
MCTimes(P, k) == (P * k) % Order
MCFirstByte(P) == IF P = 0 THEN 0 ELSE IF 2 * P < Order THEN 2 ELSE 3
MCOtherBytes(P) == {P, MCInvert(P)}
MCHash(bytes) == [digest |-> bytes]
=============================================================================
