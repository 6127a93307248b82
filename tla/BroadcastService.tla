-------------------------- MODULE BroadcastService --------------------------
(***************************************************************************)
(* What one reliable broadcast promises, without messages: every honest    *)
(* party that returns returns the same value, an honest leader's input if  *)
(* the leader is honest.  A faulty leader can make all that end raise.     *)
(* The parties that faulty ones reach can be exposed: each of them may     *)
(* raise by itself, whoever the leader is and whatever the others return.  *)
(***************************************************************************)
CONSTANTS Honest, Leader, Msgs, Audience, None, Failed
VARIABLES input, output,
          exposed   \* the parties that have taken a stripe which is no leaf

svars == <<input, output, exposed>>

Init == /\ input = None
        /\ \A p \in Honest : output[p] = None
        /\ exposed = {}

\* An honest leader inputs once.
Input(m) == /\ Leader \in Honest
            /\ input = None
            /\ input' = m
            /\ UNCHANGED <<output, exposed>>

\* A faulty party reaches p.
Expose(p) == /\ output[p] = None
             /\ exposed' = exposed \cup {p}
             /\ UNCHANGED <<input, output>>

\* p returns m, as everyone else who has returned; who has raised was exposed.
Deliver(p, m) == /\ output[p] = None
                 /\ output' = [output EXCEPT ![p] = m]
                 /\ Leader \in Honest => input = m
                 /\ \A q \in Honest :
                       \/ output[q] \in {None, m}
                       \/ output[q] = Failed /\ q \in exposed
                 /\ exposed' = exposed \ {p}
                 /\ UNCHANGED input

\* p raises: it is exposed, or the leader is faulty and nobody has returned a
\* value.  An honest leader has begun.
Fail(p) == /\ output[p] = None
           /\ output' = [output EXCEPT ![p] = Failed]
           /\ Leader \in Honest => input # None
           /\ \/ exposed' = exposed \cup (Audience \cap {p}) /\ p \in exposed'
              \/ /\ Leader \notin Honest
                 /\ \A q \in Honest : output[q] \in {None, Failed}
                 /\ exposed' = exposed
           /\ UNCHANGED input

Next == \/ \E m \in Msgs : Input(m)
        \/ \E p \in Audience : Expose(p)
        \/ \E p \in Honest, m \in Msgs : Deliver(p, m)
        \/ \E p \in Honest : Fail(p)

Spec == Init /\ [][Next]_svars
=============================================================================
