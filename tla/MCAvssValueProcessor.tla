------------------------ MODULE MCAvssValueProcessor ------------------------
(***************************************************************************)
(* How many values of each dealer reach each party, and what faulty        *)
(* parties report: agreement takes an order statistic of the reports, so   *)
(* that the extremes stand for all.                                        *)
(***************************************************************************)
EXTENDS AvssValueProcessor

\* Party 0 gets two values of three dealers, enough for two batches from one
\* subset, party 1 the first value of dealer 0, maybe late, and party 2 nothing.
Uneven == [p \in Honest |-> CASE p = 0 -> [j \in Proc |-> IF j < 3 THEN 2 ELSE 0]
                              [] p = 1 -> [j \in Proc |-> IF j = 0 THEN 1 ELSE 0]
                              [] OTHER -> [j \in Proc |-> 0]]

\* For two parties: two chunks of two values of each dealer at party 0.
TwoChunks == [p \in Honest |-> [j \in Proc |-> IF p = 0 THEN 4 ELSE 0]]

\* Bound: party 0 gets its values of dealers 0 to 2 in turn; the two of dealer 0
\* may overtake one another.
Arrived(p, j) == inputs[p][j] + Cardinality(heap[p][j])

TakeTurns ==
    /\ heap[0][1] = {} /\ heap[0][2] = {}
    /\ Arrived(0, 2) <= Arrived(0, 1) /\ Arrived(0, 1) <= Arrived(0, 0)
    /\ Arrived(0, 0) <= Arrived(0, 2) + 1

NoneOrAll == {[j \in Proc |-> 0], [j \in Proc |-> 2]}
=============================================================================
