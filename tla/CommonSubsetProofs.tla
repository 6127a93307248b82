------------------------- MODULE CommonSubsetProofs -------------------------
(***************************************************************************)
(* Proofs about CommonSubset for any number of parties and of faults below *)
(* it, given broadcasts and agreements that keep their promises.           *)
(***************************************************************************)
EXTENDS CommonSubset, FiniteSetTheorems, TLAPS

USE DEF Honest, Bits

\* Knowing of more agreements that ended with 1 keeps the count reached.
LEMMA EnoughGrows ==
    ASSUME NEW row, NEW further,
           Ended(row, 1) \subseteq Ended(further, 1), Enough(row)
    PROVE  Enough(further)
<1>1. IsFiniteSet(Ended(row, 1)) /\ IsFiniteSet(Ended(further, 1))
  BY FaultAssumption, FS_Subset DEF Ended
<1>2. Cardinality(Ended(row, 1)) <= Cardinality(Ended(further, 1))
  BY <1>1, FS_Subset
<1>3. /\ Cardinality(Ended(row, 1)) \in Nat
      /\ Cardinality(Ended(further, 1)) \in Nat
      /\ N \in Nat
  BY <1>1, FaultAssumption, FS_CardinalityType DEF N
<1> QED BY <1>2, <1>3, FaultAssumption DEF Enough

\* If every agreement ended with 1 there are enough of them.
LEMMA AllEnough == ASSUME NEW row, Ended(row, 1) = Proc PROVE Enough(row)
<1>1. N \in Nat
  BY FaultAssumption, FS_CardinalityType DEF N
<1> QED BY <1>1, FaultAssumption DEF Enough, N

\* A party whose agreements have all ended knows of N - F ones: a 0 among them
\* was the vote of somebody who knew as many.
LEMMA EnoughEnded ==
    ASSUME IInv, NEW p \in Honest, AllEnded(p)
    PROVE  Enough(aba_values[p])
<1> USE DEF IInv
<1>1. \A j \in Proc : aba_values[p][j] = decision[j] /\ decision[j] \in Bits
  BY DEF AllEnded, EndsAgreed, TypeOK
<1>2. CASE \E j \in Proc : decision[j] = 0
  <2>1. PICK q \in Honest, j \in Proc : aba_in[q][j] = 0
    BY <1>2, FaultAssumption DEF EndsAgreed
  <2>2. Enough(aba_values[q])
    BY <2>1 DEF ZerosLate
  <2>3. Ended(aba_values[q], 1) \subseteq Ended(aba_values[p], 1)
    BY <1>1, FaultAssumption DEF Ended, EndsAgreed
  <2> QED BY <2>2, <2>3, EnoughGrows
<1>3. CASE \A j \in Proc : decision[j] # 0
  <2>1. Ended(aba_values[p], 1) = Proc
    BY <1>1, <1>3 DEF Ended
  <2> QED BY <2>1, AllEnough
<1> QED BY <1>2, <1>3

\* Behind a 1 is the vote of somebody at whom the broadcast has returned.
LEMMA OneReturned ==
    ASSUME IInv, NEW j \in Proc, decision[j] = 1
    PROVE  \E q \in Honest : rbc[q][j] = "done"
BY FaultAssumption DEF IInv, EndsAgreed, OnesBacked

\* What ends commonsubset() with an exception.
LEMMA BrokenBlamed ==
    ASSUME IInv, NEW p \in Honest, AllEnded(p), Broken(p)
    PROVE  \E j \in Ended(aba_values[p], 1), q \in Honest : SplitAt(p, q, j)
<1>1. PICK j \in Ended(aba_values[p], 1) : rbc[p][j] = "failed"
  BY EnoughEnded DEF Broken
<1>2. j \in Proc /\ decision[j] = 1
  BY FaultAssumption DEF Ended, IInv, EndsAgreed
<1> QED BY <1>1, <1>2, OneReturned DEF SplitAt

-----------------------------------------------------------------------------
LEMMA IInvInit == Init => IInv
<1> SUFFICES ASSUME Init PROVE IInv
  OBVIOUS
<1>1. TypeOK /\ ZerosLate /\ OnesBacked /\ EndsAgreed
  BY FaultAssumption DEF Init, TypeOK, ZerosLate, OnesBacked, EndsAgreed
<1>2. BroadcastsSent /\ ReturnsEnded /\ RaisesBlamed
  BY DEF Init, BroadcastsSent, ReturnsEnded, RaisesBlamed
<1>3. ASSUME NEW p \in Honest PROVE ~Enough(aba_values[p])
  <2>1. Ended(aba_values[p], 1) = {}
    BY FaultAssumption DEF Init, Ended
  <2>2. Cardinality(Ended(aba_values[p], 1)) = 0 /\ N \in Nat
    BY <2>1, FaultAssumption, FS_EmptySet, FS_CardinalityType DEF N
  <2> QED BY <2>2, FaultAssumption DEF Enough
<1>4. VotesGiven
  BY <1>3 DEF Init, VotesGiven
<1> QED BY <1>1, <1>2, <1>4 DEF IInv

LEMMA StartKeeps ==
    ASSUME IInv, NEW p \in Honest, Start(p) PROVE IInv'
<1> USE DEF IInv, Start
<1>1. TypeOK'
  BY DEF TypeOK
<1>2. (ZerosLate /\ OnesBacked /\ EndsAgreed /\ ReturnsEnded)'
  BY DEF ZerosLate, OnesBacked, EndsAgreed, ReturnsEnded, AllEnded, TypeOK
<1>3. RaisesBlamed' /\ BroadcastsSent'
  BY DEF RaisesBlamed, SplitAt, AllEnded, BroadcastsSent, MayDeliver, TypeOK
<1>4. VotesGiven'
  BY DEF VotesGiven
<1> QED BY <1>1, <1>2, <1>3, <1>4

LEMMA RecvRbcKeeps ==
    ASSUME IInv, NEW p \in Honest, NEW j \in Proc, RecvRbc(p, j) PROVE IInv'
<1> USE FaultAssumption DEF IInv, RecvRbc
<1>1. TypeOK'
  BY DEF TypeOK
<1>2. ZerosLate'
  BY DEF ZerosLate, TypeOK
<1>3. OnesBacked'
  BY DEF OnesBacked, TypeOK
<1>4. EndsAgreed'
  BY DEF EndsAgreed, TypeOK
<1>5. BroadcastsSent'
  BY DEF BroadcastsSent, MayDeliver, TypeOK
<1>6. ReturnsEnded' /\ RaisesBlamed'
  BY DEF ReturnsEnded, RaisesBlamed, SplitAt, Ended, AllEnded, TypeOK
<1>7. VotesGiven'
  BY DEF VotesGiven, TypeOK
<1> QED BY <1>1, <1>2, <1>3, <1>4, <1>5, <1>6, <1>7

LEMMA FailRbcKeeps ==
    ASSUME IInv, NEW p \in Honest, NEW j \in Proc, FailRbc(p, j) PROVE IInv'
<1> USE DEF IInv, FailRbc
<1>1. TypeOK'
  BY DEF TypeOK
<1>2. OnesBacked'
  BY DEF OnesBacked, TypeOK
<1>3. BroadcastsSent'
  BY DEF BroadcastsSent, MayFail, MayDeliver, TypeOK
<1>4. (ZerosLate /\ EndsAgreed /\ ReturnsEnded)'
  BY DEF ZerosLate, EndsAgreed, ReturnsEnded, AllEnded
<1>6. RaisesBlamed'
  <2>1. \A q, x \in Honest, k \in Proc : SplitAt(q, x, k) => SplitAt(q, x, k)'
    BY DEF SplitAt, TypeOK
  <2>2. ASSUME NEW q \in Honest, task[q] = "raised"
        PROVE  /\ AllEnded(q) /\ Enough(aba_values[q])
               /\ \E k \in Ended(aba_values[q], 1), x \in Honest :
                      SplitAt(q, x, k)'
    BY <2>1, <2>2 DEF RaisesBlamed, Ended
  <2> QED BY <2>2 DEF RaisesBlamed, AllEnded, Enough, Ended
<1>5. VotesGiven'
  BY DEF VotesGiven, TypeOK
<1> QED BY <1>1, <1>2, <1>3, <1>4, <1>5, <1>6

LEMMA RecvAbaKeeps ==
    ASSUME IInv, NEW p \in Honest, NEW j \in Proc, NEW b \in Bits,
           RecvAba(p, j, b)
    PROVE  IInv'
<1> DEFINE row == [aba_values[p] EXCEPT ![j] = b]
           votes == [k \in Proc |-> IF Enough(row) /\ aba_in[p][k] = None
                                    THEN 0 ELSE aba_in[p][k]]
<1> USE FaultAssumption DEF IInv
<1>1. /\ aba_values' = [aba_values EXCEPT ![p] = row]
      /\ aba_in' = [aba_in EXCEPT ![p] = votes]
      /\ decision' = [decision EXCEPT ![j] = b]
      /\ aba_values[p][j] = None /\ task[p] = "running"
      /\ aba_in[p][j] # None
      /\ UNCHANGED <<task, rbc, subset>>
  BY DEF RecvAba, Running, TypeOK
<1>2. /\ row \in [Proc -> Bits \cup {None}]
      /\ votes \in [Proc -> Bits \cup {None}]
  BY DEF TypeOK
<1>3. TypeOK'
  BY <1>1, <1>2 DEF TypeOK
<1>4. ASSUME NEW q \in Honest
      PROVE  Ended(aba_values[q], 1) \subseteq Ended(aba_values'[q], 1)
  BY <1>1 DEF Ended, TypeOK
<1>5. \A k \in Proc : /\ aba_in[p][k] # None => votes[k] = aba_in[p][k]
                      /\ votes[k] = 0 => aba_in[p][k] = 0 \/ Enough(row)
                      /\ votes[k] = 1 => aba_in[p][k] = 1
                      /\ Enough(row) => votes[k] # None
  OBVIOUS
<1>6. aba_values'[p] = row /\ aba_in'[p] = votes
  BY <1>1 DEF TypeOK
<1>7. \A q \in Honest : q # p => /\ aba_values'[q] = aba_values[q]
                                 /\ aba_in'[q] = aba_in[q]
  BY <1>1 DEF TypeOK
<1>8. \A q \in Honest, k \in Proc :
          aba_in[q][k] # None => aba_in'[q][k] = aba_in[q][k]
  BY <1>5, <1>6, <1>7
<1> HIDE DEF votes
<1>9. ZerosLate'
  <2> SUFFICES ASSUME NEW q \in Honest, NEW k \in Proc, aba_in'[q][k] = 0
               PROVE  Enough(aba_values'[q])
    BY DEF ZerosLate, Enough, Ended
  <2>1. CASE aba_in[q][k] = 0
    <3>1. Enough(aba_values[q])
      BY <2>1 DEF ZerosLate
    <3> QED BY <3>1, <1>4, EnoughGrows
  <2>2. CASE aba_in[q][k] # 0
    BY <2>2, <1>5, <1>6, <1>7
  <2> QED BY <2>1, <2>2
<1>10. OnesBacked'
  BY <1>1, <1>5, <1>6, <1>7 DEF OnesBacked
<1>11. EndsAgreed'
  <2>1. \/ decision[j] = b
        \/ decision[j] = None /\ \E q \in Honest : aba_in[q][j] = b
    BY DEF RecvAba, MayDecide
  <2>2. \A q \in Honest, k \in Proc :
            aba_values'[q][k] # None => aba_values'[q][k] = decision'[k]
    BY <1>1, <1>6, <1>7, <2>1 DEF EndsAgreed, TypeOK
  <2>3. ASSUME NEW k \in Proc, decision'[k] # None
        PROVE  \E q \in Honest : aba_in'[q][k] = decision'[k]
    <3>1. PICK q \in Honest : aba_in[q][k] = decision'[k]
      BY <1>1, <2>1, <2>3 DEF EndsAgreed, TypeOK
    <3> QED BY <3>1, <2>3, <1>8
  <2> QED BY <2>2, <2>3 DEF EndsAgreed
<1>12. BroadcastsSent' /\ RaisesBlamed'
  <2>1. \A q \in Honest : task[q] # "running" => aba_values'[q] = aba_values[q]
    BY <1>1, <1>7
  <2>2. BroadcastsSent'
    BY <1>1, <2>1 DEF BroadcastsSent, MayDeliver
  <2>3. ASSUME NEW q \in Honest, task[q] = "raised"
        PROVE  /\ AllEnded(q)' /\ Enough(aba_values'[q])
               /\ \E k \in Ended(aba_values'[q], 1), x \in Honest :
                      SplitAt(q, x, k)'
    BY <1>1, <2>1, <2>3 DEF RaisesBlamed, AllEnded, SplitAt
  <2> QED BY <1>1, <2>2, <2>3 DEF RaisesBlamed, Enough, Ended
<1>13. ReturnsEnded'
  <2>1. \A q \in Honest : subset[q] # None => q # p
    BY <1>1 DEF ReturnsEnded, AllEnded
  <2>2. \A q \in Honest : subset[q] # None =>
            /\ task[q] = "returned" /\ AllEnded(q)' /\ Enough(aba_values'[q])
            /\ subset[q] = Ended(aba_values'[q], 1)
    BY <2>1, <1>7 DEF ReturnsEnded, AllEnded
  <2>3. subset' = subset /\ task' = task
    BY <1>1
  <2>4. \A q \in Honest : task[q] = "returned" => subset[q] # None
    BY DEF ReturnsEnded
  <2> QED BY <2>2, <2>3, <2>4 DEF ReturnsEnded, Enough, Ended
<1>14. VotesGiven'
  <2>1. ASSUME NEW q \in Honest, NEW k \in Proc,
               \/ rbc[q][k] = "done"
               \/ aba_values'[q][k] # None
               \/ Enough(aba_values'[q])
        PROVE  aba_in'[q][k] # None
    <3>1. CASE q # p
      <4>1. aba_values'[q] = aba_values[q] /\ aba_in'[q] = aba_in[q]
        BY <1>7, <3>1
      <4> QED BY <2>1, <4>1 DEF VotesGiven
    <3>2. CASE q = p /\ Enough(row)
      BY <1>5, <1>6, <3>2
    <3>3. CASE q = p /\ ~Enough(row)
      <4>1. k # j => row[k] = aba_values[p][k]
        OBVIOUS
      <4>2. aba_in[p][k] # None
        BY <1>1, <1>6, <2>1, <3>3, <4>1 DEF VotesGiven
      <4> QED BY <1>8, <3>3, <4>2
    <3> QED BY <3>1, <3>2, <3>3
  <2> QED BY <1>1, <2>1 DEF VotesGiven, Enough, Ended
<1> QED BY <1>3, <1>9, <1>10, <1>11, <1>12, <1>13, <1>14

LEMMA ReturnKeeps ==
    ASSUME IInv, NEW p \in Honest, Return(p) PROVE IInv'
<1> USE DEF IInv
<1>1. AllEnded(p) /\ Enough(aba_values[p]) /\ task[p] = "running"
  BY EnoughEnded DEF Return, Running
<1>2. UNCHANGED <<aba_in, decision, aba_values>>
  BY DEF Return
<1>3. \/ /\ Broken(p)
         /\ task' = [task EXCEPT ![p] = "raised"]
         /\ UNCHANGED <<rbc, subset>>
      \/ /\ task' = [task EXCEPT ![p] = "returned"]
         /\ subset' = [subset EXCEPT ![p] = Ended(aba_values[p], 1)]
         /\ rbc' = [rbc EXCEPT ![p] =
                [j \in Proc |-> IF rbc[p][j] = "running" THEN "cancelled"
                                                         ELSE rbc[p][j]]]
         /\ \A j \in Ended(aba_values[p], 1) : rbc[p][j] = "done"
  BY DEF Return, TypeOK
<1>4. Ended(aba_values[p], 1) \in SUBSET Proc /\ Ended(aba_values[p], 1) # None
  BY FaultAssumption DEF Ended
<1>5. TypeOK'
  <2>1. CASE /\ task' = [task EXCEPT ![p] = "raised"]
             /\ UNCHANGED <<rbc, subset>>
    BY <1>2, <2>1 DEF TypeOK
  <2>2. CASE /\ task' = [task EXCEPT ![p] = "returned"]
             /\ subset' = [subset EXCEPT ![p] = Ended(aba_values[p], 1)]
             /\ rbc' = [rbc EXCEPT ![p] =
                    [j \in Proc |-> IF rbc[p][j] = "running" THEN "cancelled"
                                                             ELSE rbc[p][j]]]
    BY <1>2, <1>4, <2>2 DEF TypeOK
  <2> QED BY <1>3, <2>1, <2>2
<1>6. \A q \in Honest, j \in Proc :
          /\ rbc[q][j] \in {"done", "failed"} => rbc'[q][j] = rbc[q][j]
          /\ rbc'[q][j] \in {"done", "failed"} => rbc'[q][j] = rbc[q][j]
          /\ rbc'[q][j] = "cancelled" =>
                \/ rbc[q][j] = "cancelled" /\ q # p
                \/ q = p /\ task'[p] = "returned" /\ aba_values[p][j] # 1
  BY <1>1, <1>3 DEF TypeOK, Ended, BroadcastsSent
<1>7. \A q \in Honest : q # p => task'[q] = task[q] /\ subset'[q] = subset[q]
  BY <1>3 DEF TypeOK
<1>8. ZerosLate' /\ EndsAgreed'
  BY <1>2 DEF ZerosLate, EndsAgreed, Enough, Ended
<1>9. OnesBacked'
  BY <1>2, <1>6 DEF OnesBacked
<1>10. BroadcastsSent'
  <2>1. \A j \in Proc : aba_values[p][j] # 1 => aba_values[p][j] = 0
    BY <1>1 DEF AllEnded, TypeOK
  <2>2. \A j \in Proc : MayDeliver(j) => MayDeliver(j)'
    BY <1>1, <1>3, <1>7 DEF MayDeliver, TypeOK
  <2> QED BY <1>2, <1>6, <1>7, <2>1, <2>2 DEF BroadcastsSent
<1>11. RaisesBlamed'
  <2>1. \A q, x \in Honest, j \in Proc : SplitAt(q, x, j) => SplitAt(q, x, j)'
    BY <1>6 DEF SplitAt
  <2>2. ASSUME NEW q \in Honest, task'[q] = "raised"
        PROVE  /\ AllEnded(q) /\ Enough(aba_values[q])
               /\ \E j \in Ended(aba_values[q], 1), x \in Honest :
                      SplitAt(q, x, j)
    <3>1. CASE q = p
      <4>1. Broken(p)
        BY <1>3, <2>2, <3>1 DEF TypeOK
      <4> QED BY <1>1, <3>1, <4>1, BrokenBlamed
    <3>2. CASE q # p
      BY <1>7, <2>2, <3>2 DEF RaisesBlamed
    <3> QED BY <3>1, <3>2
  <2> QED BY <1>2, <2>1, <2>2 DEF RaisesBlamed, AllEnded, Enough, Ended
<1>12. ReturnsEnded'
  <2>1. /\ task'[p] = "returned" => subset'[p] # None
        /\ subset'[p] # None => /\ task'[p] = "returned"
                                /\ subset'[p] = Ended(aba_values[p], 1)
    BY <1>1, <1>3, <1>4 DEF ReturnsEnded, TypeOK
  <2> QED BY <1>1, <1>2, <1>7, <2>1 DEF ReturnsEnded, AllEnded, Enough, Ended
<1>13. VotesGiven'
  BY <1>2, <1>6 DEF VotesGiven
<1> QED BY <1>5, <1>8, <1>9, <1>10, <1>11, <1>12, <1>13

\* Every step keeps the invariant.
LEMMA IInvStep == IInv /\ [Next]_vars => IInv'
<1> SUFFICES ASSUME IInv, [Next]_vars PROVE IInv'
  OBVIOUS
<1>1. ASSUME NEW p \in Honest, Step(p) PROVE IInv'
  BY <1>1, StartKeeps, RecvRbcKeeps, FailRbcKeeps, RecvAbaKeeps, ReturnKeeps
     DEF Step
<1>2. CASE UNCHANGED vars
  <2> USE <1>2 DEF vars, IInv
  <2>1. TypeOK' /\ RaisesBlamed'
    BY DEF TypeOK, RaisesBlamed, AllEnded, SplitAt
  <2>2. ZerosLate' /\ OnesBacked'
    BY DEF ZerosLate, OnesBacked
  <2>3. EndsAgreed' /\ BroadcastsSent'
    BY DEF EndsAgreed, BroadcastsSent, MayDeliver
  <2>4. ReturnsEnded' /\ VotesGiven'
    BY DEF ReturnsEnded, AllEnded, VotesGiven
  <2> QED BY <2>1, <2>2, <2>3, <2>4
<1> QED BY <1>1, <1>2 DEF Next

\* For any number of parties, any faulty ones and broadcasts that raise anywhere
\* the invariant of commonsubset() holds in every reachable state: a vote of 0 is
\* backed by N - F ones, a vote of 1 by the value, and what raises is blamed.
THEOREM SubsetInvariant == Spec => []IInv
<1> QED BY IInvInit, IInvStep, PTL DEF Spec

\* The first assertion of commonsubset() never fails, and the exception that
\* reaches its caller is that of a broadcast which has returned elsewhere.
THEOREM RaisesBlamedHolds == Spec => []RaisesBlamed
<1>1. IInv => RaisesBlamed
  BY DEF IInv
<1> QED BY <1>1, SubsetInvariant, PTL

\* Honest parties return tuples with values at the same places, N - F or more.
THEOREM SameSubsetHolds == Spec => []SameSubset
<1>1. IInv => SameSubset
  <2> SUFFICES ASSUME IInv, NEW p \in Honest, NEW q \in Honest, subset[p] # None
               PROVE  /\ Cardinality(subset[p]) >= N - F
                      /\ subset[q] \in {None, subset[p]}
    BY DEF SameSubset
  <2> USE DEF IInv
  <2>1. ASSUME NEW x \in Honest, subset[x] # None
        PROVE  subset[x] = {j \in Proc : decision[j] = 1}
    BY <2>1 DEF ReturnsEnded, AllEnded, EndsAgreed, Ended
  <2>2. Cardinality(subset[p]) >= N - F
    BY DEF ReturnsEnded, Enough
  <2> QED BY <2>1, <2>2
<1> QED BY <1>1, SubsetInvariant, PTL

-----------------------------------------------------------------------------
(* When the broadcasts and agreements have done their part.                *)

\* A broadcast that is certain to end, has not raised anywhere if none is split,
\* and has come to every party that still runs.
LEMMA BroadcastCame ==
    ASSUME IInv, AtRest, ~Split, NEW p \in Honest, Running(p), NEW j \in Proc,
           \A q \in Honest : rbc[q][j] # "cancelled",
           j \in Honest \/ \E q \in Honest : rbc[q][j] = "done"
    PROVE  rbc[p][j] = "done"
<1>1. CertainToEnd(j)
  BY DEF CertainToEnd
<1>2. rbc[p][j] # "running"
  BY <1>1 DEF AtRest
<1>3. rbc[p][j] # "failed"
  BY DEF Split, SplitAt
<1> QED BY <1>2, <1>3 DEF IInv, TypeOK

\* Nobody has raised.
LEMMA NobodyRaised ==
    ASSUME IInv, AtRest, ~Split, NEW p \in Honest
    PROVE  Running(p) \/ (AllEnded(p) /\ task[p] = "returned")
<1> USE DEF IInv
<1>1. task[p] \in {"running", "returned", "raised"}
  BY DEF AtRest, TypeOK
<1>2. task[p] # "raised"
  BY DEF RaisesBlamed, Split, Ended
<1> QED BY <1>1, <1>2 DEF Running, ReturnsEnded

\* Everybody has then voted on it, and its agreement has ended everywhere.
LEMMA AgreementCame ==
    ASSUME IInv, AtRest, ~Split, NEW p \in Honest, NEW j \in Proc,
           \A q \in Honest : rbc[q][j] # "cancelled",
           j \in Honest \/ \E q \in Honest : rbc[q][j] = "done"
    PROVE  aba_values[p][j] # None
<1> USE DEF IInv
<1>1. ASSUME NEW q \in Honest PROVE aba_in[q][j] # None
  <2>1. CASE Running(q)
    <3>1. rbc[q][j] = "done"
      BY <2>1, BroadcastCame
    <3> QED BY <3>1 DEF VotesGiven
  <2>2. CASE AllEnded(q)
    BY <2>2 DEF AllEnded, VotesGiven
  <2> QED BY <2>1, <2>2, NobodyRaised
<1> QED BY <1>1, NobodyRaised DEF AtRest, AllEnded

\* What anybody can know to be in the subset, everybody knows.
LEMMA OnesCame ==
    ASSUME IInv, AtRest, ~Split, NEW p \in Honest, NEW j \in Proc, decision[j] = 1
    PROVE  aba_values[p][j] = 1 /\ (Running(p) => rbc[p][j] = "done")
<1> USE DEF IInv
<1>1. \E q \in Honest : rbc[q][j] = "done"
  BY OneReturned
<1>2. \A q \in Honest : rbc[q][j] # "cancelled"
  BY FaultAssumption DEF BroadcastsSent, EndsAgreed
<1>3. aba_values[p][j] # None
  BY <1>1, <1>2, AgreementCame
<1>4. Running(p) => rbc[p][j] = "done"
  BY <1>1, <1>2, BroadcastCame
<1> QED BY <1>3, <1>4 DEF EndsAgreed

\* N - F ones that somebody knows of, everybody knows of.
LEMMA EnoughSpreads ==
    ASSUME IInv, AtRest, ~Split, NEW p \in Honest, NEW q \in Honest,
           Enough(aba_values[q])
    PROVE  Enough(aba_values[p])
<1>1. \A k \in Ended(aba_values[q], 1) : k \in Proc /\ decision[k] = 1
  BY FaultAssumption DEF Ended, IInv, EndsAgreed
<1>2. Ended(aba_values[q], 1) \subseteq Ended(aba_values[p], 1)
  BY <1>1, OnesCame DEF Ended
<1> QED BY <1>2, EnoughGrows

\* N - F agreements have ended with 1: somebody has returned, who knew of them;
\* or one on an honest party has ended with 0, which somebody voted who knew of
\* them; or those on honest parties have.
LEMMA EnoughCame ==
    ASSUME IInv, AtRest, ~Split, NEW p \in Honest
    PROVE  Enough(aba_values[p])
<1> USE DEF IInv
<1>1. CASE \E q \in Honest : task[q] = "returned"
  BY <1>1, EnoughSpreads DEF ReturnsEnded
<1>2. CASE \E q \in Honest, j \in Proc : aba_in[q][j] = 0
  BY <1>2, EnoughSpreads DEF ZerosLate
<1>3. CASE /\ \A q \in Honest : task[q] # "returned"
           /\ \A q \in Honest, j \in Proc : aba_in[q][j] # 0
  <2>1. \A q \in Honest, j \in Proc : rbc[q][j] # "cancelled"
    BY <1>3 DEF BroadcastsSent
  <2>2. \A j \in Honest : aba_values[p][j] # None
    BY <2>1, AgreementCame, FaultAssumption
  <2>3. \A j \in Honest : aba_values[p][j] = 1
    BY <1>3, <2>2, FaultAssumption DEF EndsAgreed, TypeOK
  <2>4. Honest \subseteq Ended(aba_values[p], 1)
    BY <2>3 DEF Ended
  <2>5. IsFiniteSet(Faulty) /\ IsFiniteSet(Honest)
    BY FaultAssumption, FS_Subset, FS_Difference
  <2>6. Cardinality(Honest) = N - Cardinality(Faulty)
    <3>1. Proc \cap Faulty = Faulty
      BY FaultAssumption
    <3> QED BY <3>1, FaultAssumption, FS_Difference DEF N
  <2>7. IsFiniteSet(Ended(aba_values[p], 1))
    BY FaultAssumption, FS_Subset DEF Ended
  <2>8. Cardinality(Honest) <= Cardinality(Ended(aba_values[p], 1))
    BY <2>4, <2>7, FS_Subset
  <2>9. /\ Cardinality(Honest) \in Nat /\ Cardinality(Faulty) \in Nat
        /\ Cardinality(Ended(aba_values[p], 1)) \in Nat /\ N \in Nat
    BY <2>5, <2>7, FaultAssumption, FS_CardinalityType DEF N
  <2> QED BY <2>6, <2>8, <2>9, FaultAssumption DEF Enough
<1> QED BY <1>1, <1>2, <1>3

LEMMA RestIsEnd == IInv => NobodyWaits
<1> SUFFICES ASSUME IInv, AtRest, ~Split, NEW p \in Honest, task[p] # "returned"
             PROVE  FALSE
  BY DEF NobodyWaits
<1> USE DEF IInv
<1>1. Running(p)
  BY NobodyRaised
<1>2. \A q \in Honest, j \in Proc : aba_in[q][j] # None
  BY EnoughCame DEF VotesGiven
<1>3. AllEnded(p)
  BY <1>1, <1>2 DEF AtRest, AllEnded
<1>4. PICK j \in Ended(aba_values[p], 1) : rbc[p][j] # "done"
  BY <1>1, <1>3 DEF AtRest
<1>5. j \in Proc /\ decision[j] = 1
  BY <1>4, FaultAssumption DEF Ended, EndsAgreed
<1> QED BY <1>1, <1>4, <1>5, OnesCame

\* When all that the broadcasts and agreements promise has come, every honest
\* party has returned from commonsubset() or a broadcast is split: nobody is left
\* waiting for a broadcast it alone has missed or that others have cancelled, or
\* for a vote that nobody gives.
THEOREM NobodyWaitsHolds == Spec => []NobodyWaits
BY SubsetInvariant, RestIsEnd, PTL

-----------------------------------------------------------------------------
(* The refinement.                                                         *)

\* The places of honest parties in what p returns are of parties that have begun:
\* a place is filled by a vote of 1, behind which is the broadcast.
LEMMA PlacesJoined ==
    ASSUME IInv, NEW p \in Honest, AllEnded(p)
    PROVE  Ended(aba_values[p], 1) \cap Honest \subseteq Joined
<1> SUFFICES ASSUME NEW j \in Honest, aba_values[p][j] = 1 PROVE task[j] # "idle"
  BY DEF Ended, Joined
<1> USE FaultAssumption DEF IInv
<1>1. PICK q \in Honest : aba_in[q][j] = 1
  BY DEF EndsAgreed
<1>2. rbc[q][j] = "done"
  BY <1>1 DEF OnesBacked
<1> QED BY <1>2 DEF BroadcastsSent, MayDeliver

\* A party returns what those before it have returned, or raises.
LEMMA ReturnIsService ==
    ASSUME IInv, IInv', NEW p \in Honest, Return(p)
    PROVE  \/ Service!Return(p, Ended(aba_values[p], 1))
           \/ UNCHANGED Service!svars
<1> USE DEF IInv
<1>1. task[p] = "running" /\ AllEnded(p) /\ Enough(aba_values[p])
  BY EnoughEnded DEF Return, Running
<1>2. CASE Broken(p)
  <2>1. task' = [task EXCEPT ![p] = "raised"] /\ subset' = subset
    BY <1>2 DEF Return
  <2> QED BY <1>1, <2>1 DEF Service!svars, Joined, TypeOK
<1>3. CASE ~Broken(p)
  <2>1. /\ task' = [task EXCEPT ![p] = "returned"]
        /\ subset' = [subset EXCEPT ![p] = Ended(aba_values[p], 1)]
    BY <1>3 DEF Return
  <2>2. p \in Joined /\ Joined' = Joined
    BY <1>1, <2>1 DEF Joined, TypeOK
  <2>3. \A q \in Honest : subset[q] \in {None, Ended(aba_values[p], 1)}
    <3>1. Ended(aba_values[p], 1) = {j \in Proc : decision[j] = 1}
      BY <1>1 DEF AllEnded, EndsAgreed, Ended
    <3>2. ASSUME NEW q \in Honest, subset[q] # None
          PROVE  subset[q] = {j \in Proc : decision[j] = 1}
      BY <3>2 DEF ReturnsEnded, AllEnded, EndsAgreed, Ended
    <3> QED BY <3>1, <3>2
  <2>4. subset[p] = None
    BY <1>1, Zenon DEF ReturnsEnded
  <2>5. Ended(aba_values[p], 1) \cap Honest \subseteq Joined
    BY <1>1, PlacesJoined
  <2> QED BY <2>1, <2>2, <2>3, <2>4, <2>5 DEF Service!Return
<1> QED BY <1>2, <1>3

\* commonsubset() implements the service, wherever broadcasts raise: each step is a
\* call, a return of the one subset, or invisible.
THEOREM SubsetImplements == Spec => ImplementsSubset
<1>1. Init => Service!Init
  BY DEF Init, Service!Init, Joined
<1>2. IInv /\ IInv' /\ [Next]_vars => [Service!Next]_(Service!svars)
  <2> SUFFICES ASSUME IInv, IInv', [Next]_vars
               PROVE  [Service!Next]_(Service!svars)
    OBVIOUS
  <2>1. ASSUME NEW p \in Honest, Start(p) PROVE Service!Next
    <3>1. task[p] = "idle" /\ task' = [task EXCEPT ![p] = "running"] /\ subset' = subset
      BY <2>1 DEF Start
    <3>2. p \notin Joined /\ Joined' = Joined \cup {p}
      BY <3>1 DEF Joined, IInv, TypeOK
    <3>3. Service!Join(p)
      BY <3>1, <3>2 DEF Service!Join
    <3> QED BY <3>3 DEF Service!Next
  <2>2. ASSUME NEW p \in Honest, Return(p)
        PROVE  [Service!Next]_(Service!svars)
    <3>1. Ended(aba_values[p], 1) \in {S \in SUBSET Proc : Cardinality(S) >= N - F}
      <4>1. Enough(aba_values[p])
        BY <2>2, EnoughEnded DEF Return
      <4> QED BY <4>1 DEF Ended, Enough
    <3> QED BY <2>2, <3>1, ReturnIsService DEF Service!Next
  <2>3. ASSUME UNCHANGED <<task, subset>> PROVE UNCHANGED Service!svars
    BY <2>3 DEF Service!svars, Joined
  <2>4. ASSUME NEW p \in Honest, NEW j \in Proc,
               RecvRbc(p, j) \/ FailRbc(p, j) \/ \E b \in Bits : RecvAba(p, j, b)
        PROVE  UNCHANGED <<task, subset>>
    BY <2>4 DEF RecvRbc, FailRbc, RecvAba
  <2>5. CASE UNCHANGED vars
    BY <2>3, <2>5 DEF vars
  <2> QED BY <2>1, <2>2, <2>3, <2>4, <2>5 DEF Next, Step
<1> QED BY <1>1, <1>2, SubsetInvariant, PTL DEF Spec, ImplementsSubset, Service!Spec
=============================================================================
