---------------------------- MODULE CommonSubset ----------------------------
(***************************************************************************)
(* commonsubset() and the tasks around it (broadcast/commonsubset.py):     *)
(* every party broadcasts its input, and one binary agreement for each     *)
(* party decides whether its broadcast is in the subset.                   *)
(*                                                                         *)
(* The N broadcasts are used as what ReliableBroadcast implements, the     *)
(* steps Deliver and Fail of BroadcastService, so that the value of a      *)
(* broadcast need not be kept: a faulty party's ECHO may expose any honest *)
(* party, at which the broadcast then raises though it returns elsewhere.  *)
(* The agreements are used as what BinaryAgreement implements,             *)
(* AgreementService: one bit, the input of an honest party, at each party  *)
(* that has given its own input.                                           *)
(***************************************************************************)
EXTENDS Integers, FiniteSets

CONSTANTS
    Proc, F,     \* the parties and the number of faults tolerated
    Faulty,      \* the parties that do not run the code
    None

Bits   == {0, 1}
Honest == Proc \ Faulty
N      == Cardinality(Proc)

ASSUME FaultAssumption == /\ IsFiniteSet(Proc)
                          /\ F \in Nat /\ F < N
                          /\ Faulty \subseteq Proc
                          /\ Cardinality(Faulty) <= F
                          /\ None \notin Bits
                          /\ \A S \in SUBSET Proc : None # S

VARIABLES
    task,        \* task[p]: "idle", then "running", "returned" or "raised"
    rbc,         \* rbc[p][j]: the task of j's broadcast at p
    aba_in,      \* aba_in[p][j]: p's input to the agreement on j
    decision,    \* decision[j]: the bit agreed on j, None until somebody has it
    aba_values,  \* aba_values[p][j]: None where the code still has its 0
    subset       \* subset[p]: for which j the returned tuple has a value

vars == <<task, rbc, aba_in, decision, aba_values, subset>>

Init ==
    /\ task = [p \in Honest |-> "idle"]
    /\ rbc = [p \in Honest |-> [j \in Proc |-> "running"]]
    /\ aba_in = [p \in Honest |-> [j \in Proc |-> None]]
    /\ decision = [j \in Proc |-> None]
    /\ aba_values = [p \in Honest |-> [j \in Proc |-> None]]
    /\ subset = [p \in Honest |-> None]

-----------------------------------------------------------------------------
\* The agreements that p knows to have ended with b.
Ended(row, b) == {j \in Proc : row[j] = b}

Running(p) == task[p] = "running"

\* make_commonsubset: p broadcasts its input and sets its tasks up.
Start(p) ==
    /\ task[p] = "idle"
    /\ task' = [task EXCEPT ![p] = "running"]
    /\ UNCHANGED <<rbc, aba_in, decision, aba_values, subset>>

\* BroadcastService!Deliver: an honest leader has begun.
MayDeliver(j) == j \in Honest => task[j] # "idle"

\* BroadcastService!Fail: besides, some faulty party has exposed the party at
\* which the broadcast raises, or leads it.
MayFail(j) == Faulty # {} /\ MayDeliver(j)

\* Mutant: the agreement gets 1 even if it has its 0 already.
RecvRbcAgain(p, j) ==
    /\ Running(p)
    /\ rbc[p][j] = "running"
    /\ MayDeliver(j)
    /\ rbc' = [rbc EXCEPT ![p][j] = "done"]
    /\ aba_in' = [aba_in EXCEPT ![p][j] = 1]
    /\ UNCHANGED <<task, decision, aba_values, subset>>

\* _recv_rbc: j's broadcast returns at p, which votes for j unless it has
\* given the agreement its 0 already.
RecvRbc(p, j) ==
    /\ Running(p)
    /\ rbc[p][j] = "running"
    /\ MayDeliver(j)
    /\ rbc' = [rbc EXCEPT ![p][j] = "done"]
    /\ aba_in' = [aba_in EXCEPT ![p][j] = IF @ = None THEN 1 ELSE @]
    /\ UNCHANGED <<task, decision, aba_values, subset>>

\* It raises instead: p does not vote, and the task keeps the exception until
\* it is awaited.
FailRbc(p, j) ==
    /\ Running(p)
    /\ rbc[p][j] = "running"
    /\ MayFail(j)
    /\ rbc' = [rbc EXCEPT ![p][j] = "failed"]
    /\ UNCHANGED <<task, aba_in, decision, aba_values, subset>>

\* BinaryAgreement: the bit is an honest party's input and the same for all.
MayDecide(j, b) == IF decision[j] = None THEN \E q \in Honest : aba_in[q][j] = b
                                         ELSE decision[j] = b

EnoughAll(row) == Ended(row, 1) = Proc   \* mutant: all have to end with 1

\* sum(aba_values) >= n - f.
Enough(row) == Cardinality(Ended(row, 1)) >= N - F

\* _recv_aba: the agreement on j ends at p with b; once N - F of them have
\* ended with 1, p gives 0 to all that it has not voted in.
RecvAba(p, j, b) ==
    /\ Running(p)
    /\ aba_in[p][j] # None
    /\ aba_values[p][j] = None
    /\ MayDecide(j, b)
    /\ decision' = [decision EXCEPT ![j] = b]
    /\ LET row == [aba_values[p] EXCEPT ![j] = b]
       IN  /\ aba_values' = [aba_values EXCEPT ![p] = row]
           /\ aba_in' = [aba_in EXCEPT ![p] =
                  [k \in Proc |-> IF Enough(row) /\ @[k] = None THEN 0 ELSE @[k]]]
    /\ UNCHANGED <<task, rbc, subset>>

\* All agreements have ended: the gather is over.
AllEnded(p) == \A j \in Proc : aba_values[p][j] # None

\* What ends commonsubset() with an exception: the assertion on the number
\* of agreements, or a broadcast in the subset that has raised.
Broken(p) ==
    \/ ~Enough(aba_values[p])
    \/ \E j \in Ended(aba_values[p], 1) : rbc[p][j] = "failed"

ReturnNoWait(p) ==   \* mutant: the broadcasts are not waited for
    /\ Running(p) /\ AllEnded(p)
    /\ ~Broken(p)
    /\ subset' = [subset EXCEPT ![p] =
                     {j \in Ended(aba_values[p], 1) : rbc[p][j] = "done"}]
    /\ task' = [task EXCEPT ![p] = "returned"]
    /\ UNCHANGED <<rbc, aba_in, decision, aba_values>>

\* The broadcasts in the subset are awaited, the others cancelled, and
\* commonsubset() returns, or raises.
Return(p) ==
    /\ Running(p) /\ AllEnded(p)
    /\ Broken(p) \/ \A j \in Ended(aba_values[p], 1) : rbc[p][j] = "done"
    /\ IF Broken(p)
       THEN /\ task' = [task EXCEPT ![p] = "raised"]
            /\ UNCHANGED <<rbc, subset>>
       ELSE /\ task' = [task EXCEPT ![p] = "returned"]
            /\ subset' = [subset EXCEPT ![p] = Ended(aba_values[p], 1)]
            /\ rbc' = [rbc EXCEPT ![p] =
                   [j \in Proc |-> IF @[j] = "running" THEN "cancelled" ELSE @[j]]]
    /\ UNCHANGED <<aba_in, decision, aba_values>>

Step(p) ==
    \/ Start(p)
    \/ \E j \in Proc : RecvRbc(p, j)
    \/ \E j \in Proc : FailRbc(p, j)
    \/ \E j \in Proc, b \in Bits : RecvAba(p, j, b)
    \/ Return(p)

Next == \E p \in Honest : Step(p)

Spec == Init /\ [][Next]_vars

\* NobodyLeftOut of ReliableBroadcast: unless a party has cancelled its own, the
\* broadcast of an honest leader ends everywhere, and one that has ended at one
\* party ends at all of them; how it ends is not promised.
CertainToEnd(j) ==
    /\ \A q \in Honest : rbc[q][j] # "cancelled"
    /\ j \in Honest \/ \E q \in Honest : rbc[q][j] \in {"done", "failed"}

BroadcastEnds(p, j) == CertainToEnd(j) /\ (RecvRbc(p, j) \/ FailRbc(p, j))

\* BinaryAgreement: if all honest parties have a vote it ends at all of them.
AgreementEnds(p, j) ==
    /\ \A q \in Honest : aba_in[q][j] # None
    /\ \E b \in Bits : RecvAba(p, j, b)

\* All honest parties start.
Fairness ==
    \A p \in Honest :
        /\ WF_vars(Start(p))
        /\ \A j \in Proc : /\ WF_vars(BroadcastEnds(p, j))
                            /\ WF_vars(AgreementEnds(p, j))
        /\ WF_vars(Return(p))

FairSpec == Spec /\ Fairness

-----------------------------------------------------------------------------
TypeOK ==
    /\ task \in [Honest -> {"idle", "running", "returned", "raised"}]
    /\ rbc \in [Honest -> [Proc -> {"running", "done", "failed", "cancelled"}]]
    /\ aba_in \in [Honest -> [Proc -> Bits \cup {None}]]
    /\ decision \in [Proc -> Bits \cup {None}]
    /\ aba_values \in [Honest -> [Proc -> Bits \cup {None}]]
    /\ subset \in [Honest -> (SUBSET Proc) \cup {None}]

\* The broadcast of j has raised at p although it returned at q.
SplitAt(p, q, j) == rbc[p][j] = "failed" /\ rbc[q][j] = "done"

\* RaisesBlamed: all that ends commonsubset() with an exception is a broadcast in
\* the subset that raised at this party and returned at another, whose ECHOs
\* were not verified.  The assertion that N - F agreements ended with 1 never
\* fails, though each party votes 0 at a time of its own, and a broadcast that
\* raises at all honest parties is never awaited.
RaisesBlamed ==
    \A p \in Honest : task[p] = "raised" =>
        /\ AllEnded(p) /\ Enough(aba_values[p])
        /\ \E j \in Ended(aba_values[p], 1), q \in Honest : SplitAt(p, q, j)

\* SameSubset: the tuples returned by honest parties have values at the same
\* places, at least N - F of them.
SameSubset ==
    \A p, q \in Honest : subset[p] # None =>
        /\ Cardinality(subset[p]) >= N - F
        /\ subset[q] \in {None, subset[p]}

\* Split: a broadcast raised at a party although its leader is honest or it has
\* returned at another.
Split == \E p, q \in Honest, j \in Proc :
            SplitAt(p, q, j) \/ (j \in Honest /\ rbc[p][j] = "failed")

\* AtRest: all that the fairness promises has happened.
AtRest ==
    \A p \in Honest :
        /\ task[p] # "idle"
        /\ \A j \in Proc : (Running(p) /\ CertainToEnd(j)) => rbc[p][j] # "running"
        /\ \A j \in Proc : (Running(p) /\ aba_values[p][j] = None) =>
              \E q \in Honest : aba_in[q][j] = None
        /\ (Running(p) /\ AllEnded(p)) =>
              /\ ~Broken(p)
              /\ \E j \in Ended(aba_values[p], 1) : rbc[p][j] # "done"

\* NobodyWaits: when all that the broadcasts and agreements promise has come,
\* everybody has returned, unless a broadcast is split.  No party waits for a
\* vote that another would give only after the first has returned, nor for a
\* broadcast that one which has returned has cancelled.
NobodyWaits == AtRest => (Split \/ \A p \in Honest : task[p] = "returned")

\* Terminates: all honest parties return, whatever the faulty ones broadcast
\* and in whatever order broadcasts and agreements end, unless one broadcast is
\* split by an ECHO that was not verified: then the party at which it raised
\* may not vote, and commonsubset() raises or all wait.
Terminates == <>(Split \/ \A p \in Honest : task[p] = "returned")

-----------------------------------------------------------------------------
(* SubsetService is what AvssValueProcessor uses of this module.           *)
Joined == {p \in Honest : task[p] # "idle"}

Service == INSTANCE SubsetService
               WITH started <- Joined,
                    Quorums <- {S \in SUBSET Proc : Cardinality(S) >= N - F}

\* ImplementsSubset: commonsubset() does what the service does: all get the same
\* places in whatever order agreements end, and a place is never that of an honest
\* party that has not called, whatever faulty parties vote.
ImplementsSubset == Service!Spec

-----------------------------------------------------------------------------
(* The inductive invariant behind RaisesBlamed and NobodyWaits.            *)

\* A 0 is given only by a party that knows N - F ones.
ZerosLate ==
    \A p \in Honest, j \in Proc : aba_in[p][j] = 0 => Enough(aba_values[p])

\* A 1 is given only by a party that has the value.
OnesBacked ==
    \A p \in Honest, j \in Proc : aba_in[p][j] = 1 => rbc[p][j] = "done"

\* What a party knows of an agreement is its decision, somebody's vote.
EndsAgreed ==
    /\ \A p \in Honest, j \in Proc :
          aba_values[p][j] # None => aba_values[p][j] = decision[j]
    /\ \A j \in Proc :
          decision[j] # None => \E q \in Honest : aba_in[q][j] = decision[j]

\* The broadcast of an honest party ends only if that party has begun it, and
\* only the end of commonsubset() cancels one, which is not in the subset.
BroadcastsSent ==
    \A p \in Honest, j \in Proc :
        /\ rbc[p][j] \in {"done", "failed"} => MayDeliver(j)
        /\ rbc[p][j] = "cancelled" => task[p] = "returned" /\ aba_values[p][j] = 0

\* No vote is forgotten: p has voted where it has the value or the bit, and
\* everywhere once it knows N - F ones.
VotesGiven ==
    \A p \in Honest, j \in Proc :
        \/ rbc[p][j] = "done"
        \/ aba_values[p][j] # None
        \/ Enough(aba_values[p])
        => aba_in[p][j] # None

\* A party returns once, and what it knows of the agreements.
ReturnsEnded ==
    \A p \in Honest :
        /\ task[p] = "returned" => subset[p] # None
        /\ subset[p] # None =>
              /\ task[p] = "returned"
              /\ AllEnded(p) /\ Enough(aba_values[p])
              /\ subset[p] = Ended(aba_values[p], 1)

IInv == /\ TypeOK
        /\ ZerosLate
        /\ OnesBacked
        /\ EndsAgreed
        /\ BroadcastsSent
        /\ VotesGiven
        /\ ReturnsEnded
        /\ RaisesBlamed
=============================================================================
