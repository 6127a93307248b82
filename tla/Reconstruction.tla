--------------------------- MODULE Reconstruction ---------------------------
(***************************************************************************)
(* What the opening of a batch of secrets promises, without messages:      *)
(* whoever gets a result gets the secret, and only after more than Degree  *)
(* parties have asked for it to be opened; nobody ends without a result,   *)
(* but faulty parties can make the call raise.                             *)
(***************************************************************************)
EXTENDS FiniteSets, Integers

CONSTANTS Proc, Degree, None, Raised
VARIABLES
    secret, faulty,
    called,  \* the parties that have called open
    opened   \* opened[p]: the outcome of the call of p

rvars == <<secret, faulty, called, opened>>

Init == called = {} /\ opened = [p \in Proc |-> None]

Call(p) == /\ p \notin called \cup faulty
           /\ called' = called \cup {p}
           /\ UNCHANGED <<secret, faulty, opened>>

Return(p) == /\ p \in called /\ opened[p] = None
             /\ Cardinality(called) > Degree
             /\ opened' = [opened EXCEPT ![p] = secret]
             /\ UNCHANGED <<secret, faulty, called>>

Raise(p) == /\ p \in called /\ opened[p] = None
            /\ faulty # {}
            /\ opened' = [opened EXCEPT ![p] = Raised]
            /\ UNCHANGED <<secret, faulty, called>>

Next == \E p \in Proc : Call(p) \/ Return(p) \/ Raise(p)

Spec == Init /\ [][Next]_rvars
=============================================================================
