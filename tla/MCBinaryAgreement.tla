------------------------- MODULE MCBinaryAgreement -------------------------
(***************************************************************************)
(* Small instances of BinaryAgreement: four parties, one of them faulty.   *)
(***************************************************************************)
EXTENDS BinaryAgreement, TLC

CONSTANTS p0, p1, p2, p3

\* The coin shows 0 first and 1 next, or either bit always, or always 0.
ZeroThenOne == [r \in Rounds |-> IF r = 0 THEN {0} ELSE {1}]
AnyCoin     == [r \in Rounds |-> Bits]
ZeroCoin    == [r \in Rounds |-> {0}]

\* Any inputs, or p2 alone against the others.
AnyInput == [p \in Honest |-> Bits]
OneDissents == [p \in Honest |-> IF p = p2 THEN {1} ELSE {0}]

Symmetry == Permutations(Honest)
DissentSymmetry == Permutations(Honest \ {p2})
=============================================================================
