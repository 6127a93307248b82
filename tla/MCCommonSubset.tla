--------------------------- MODULE MCCommonSubset ---------------------------
(***************************************************************************)
(* Four parties, two of them faulty, and a tolerance of two: broadcasts    *)
(* and agreements, which need N >= 3F + 1, are services here, and          *)
(* commonsubset() itself only counts to N - F.                             *)
(***************************************************************************)
EXTENDS CommonSubset

CONSTANTS p0, p1, p2, p3
=============================================================================
