-------------------------- MODULE AgreementService --------------------------
(***************************************************************************)
(* What one binary agreement promises, without messages, rounds and coins: *)
(* a party that decides has proposed a bit, and decides once; all decide   *)
(* the same bit, and it is one that an honest party has proposed.          *)
(***************************************************************************)
CONSTANTS Honest, Bits, None
VARIABLES input, decided

svars == <<input, decided>>

Init == \A p \in Honest : input[p] = None /\ decided[p] = None

Propose(p, b) == /\ input[p] = None
                 /\ input' = [input EXCEPT ![p] = b]
                 /\ UNCHANGED decided

\* p decides b, as everyone else who has decided.
Decide(p, b) == /\ input[p] # None
                /\ decided[p] = None
                /\ decided' = [decided EXCEPT ![p] = b]
                /\ \E q \in Honest : input[q] = b
                /\ \A q \in Honest : decided[q] \in {None, b}
                /\ UNCHANGED input

Next == \E p \in Honest, b \in Bits : Propose(p, b) \/ Decide(p, b)

Spec == Init /\ [][Next]_svars
=============================================================================
