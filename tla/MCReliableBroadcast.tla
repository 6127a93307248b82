------------------------ MODULE MCReliableBroadcast ------------------------
(***************************************************************************)
(* Small instances of ReliableBroadcast: four parties, one of them faulty. *)
(***************************************************************************)
EXTENDS ReliableBroadcast, TLC

CONSTANTS p0, p1, p2, p3   \* the parties, by pid

FourParties == {p0, p1, p2, p3}
FourIndex == (p0 :> 0) @@ (p1 :> 1) @@ (p2 :> 2) @@ (p3 :> 3)

\* Honest parties other than the leader that the bounds treat alike are
\* interchangeable as long as no block differs from its leaf: decode() then
\* gives the same whichever k blocks come first.
PartySymmetry == Permutations(Audience \ {Leader})
                 \cup Permutations(Honest \ (Audience \cup {Leader}))
Symmetry == PartySymmetry \cup Permutations(Msgs)
=============================================================================
