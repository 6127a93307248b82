---------------------------- MODULE MCCommonCoin ----------------------------
(***************************************************************************)
(* Four parties, one of them faulty.                                       *)
(***************************************************************************)
EXTENDS CommonCoin, TLC

CONSTANTS p0, p1, p2, p3

Symmetry == Permutations(Honest)
=============================================================================
