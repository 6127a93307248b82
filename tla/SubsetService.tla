---------------------------- MODULE SubsetService ----------------------------
(***************************************************************************)
(* What a common subset promises, without broadcasts and agreements: the   *)
(* parties that return have the same places filled, a quorum of them, and  *)
(* the place of an honest party only if that party has given its input.    *)
(* A party at which it raises fills none and returns nothing.              *)
(***************************************************************************)
CONSTANTS Honest,
          Quorums,         \* the sets of places that are enough
          None

VARIABLES started,         \* the honest parties that have given an input
          subset           \* subset[p]: the places filled, None before p returns

svars == <<started, subset>>

Init == /\ started = {}
        /\ subset = [p \in Honest |-> None]

Join(p) == /\ p \notin started
           /\ started' = started \cup {p}
           /\ UNCHANGED subset

Return(p, S) == /\ p \in started
                /\ subset[p] = None
                /\ S \cap Honest \subseteq started
                /\ \A q \in Honest : subset[q] \in {None, S}
                /\ subset' = [subset EXCEPT ![p] = S]
                /\ UNCHANGED started

Next == \/ \E p \in Honest : Join(p)
        \/ \E p \in Honest, S \in Quorums : Return(p, S)

Spec == Init /\ [][Next]_svars
=============================================================================
