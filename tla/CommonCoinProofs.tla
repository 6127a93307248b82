-------------------------- MODULE CommonCoinProofs --------------------------
(***************************************************************************)
(* Proofs about CommonCoin for any number of parties and of rounds, any    *)
(* set of at most F faulty ones and any shares of theirs.                  *)
(***************************************************************************)
EXTENDS CommonCoin, FiniteSetTheorems, WellFoundedInduction, TLAPS

\* The shares p has accepted are right ones, one from each sender; an honest
\* sender has asked for the coin of the round.
SharesGenuine ==
    \A p \in Honest, r \in Rounds :
        /\ \A s \in received[p][r] :
              s[2] = "right" /\ (s[1] \in Honest => next[s[1]] > r)
        /\ \A s, t \in received[p][r] : s[1] = t[1] => s = t

\* Who has a coin has accepted the F + 1 shares that make it, so that no
\* further share makes it again; and who has accepted so many has the coin.
CoinsMade ==
    \A p \in Honest, r \in Rounds :
        Known(p, r) <=> Cardinality(received[p][r]) >= F + 1

\* A party waits for a coin that it has asked for.
WaitsAsked == \A p \in Honest : waiting[p] => next[p] > 0

IInv == /\ TypeOK
        /\ TaskSurvives
        /\ SharesGenuine
        /\ CoinsMade
        /\ WaitsAsked

-----------------------------------------------------------------------------
LEMMA Finite ==
    /\ IsFiniteSet(Share) /\ IsFiniteSet(Honest) /\ IsFiniteSet(Faulty)
    /\ F \in Nat
    /\ \A p \in Honest : p \in Proc
<1>1. IsFiniteSet({"right", "wrong"})
  <2>1. {"right", "wrong"} = {"right"} \cup {"wrong"}
    OBVIOUS
  <2>2. IsFiniteSet({"right"}) /\ IsFiniteSet({"wrong"})
    BY FS_Singleton
  <2> QED BY <2>1, <2>2, FS_Union
<1>2. IsFiniteSet(Share)
  BY <1>1, FaultAssumption, FS_Product DEF Share
<1>3. IsFiniteSet(Faulty) /\ IsFiniteSet(Honest)
  BY FaultAssumption, FS_Subset, FS_Difference DEF Honest
<1> QED BY <1>2, <1>3, FaultAssumption DEF Honest

LEMMA ReceivedFinite ==
    ASSUME NEW S \in SUBSET Share
    PROVE  IsFiniteSet(S) /\ Cardinality(S) \in Nat
BY Finite, FS_Subset, FS_CardinalityType

LEMMA IInvInit == Init => IInv
<1> SUFFICES ASSUME Init PROVE IInv
  OBVIOUS
<1>1. TypeOK
  BY RoundAssumption DEF Init, TypeOK, Rounds
<1>2. \A p \in Honest, r \in Rounds : ~Known(p, r)
  BY RoundAssumption DEF Init, Known, Rounds
<1>3. TaskSurvives /\ SharesGenuine /\ WaitsAsked
  BY DEF Init, TaskSurvives, SharesGenuine, WaitsAsked
<1>4. \A p \in Honest, r \in Rounds : Cardinality(received[p][r]) = 0
  BY FS_EmptySet DEF Init
<1> QED BY <1>1, <1>2, <1>3, <1>4, Finite DEF IInv, CoinsMade

\* A party asks for a coin, or takes one: it knows no coin it did not know.
LEMMA AskingKeeps ==
    ASSUME IInv, NEW p \in Honest, GetCoin(p) \/ TakeCoin(p)
    PROVE  IInv'
<1>1. TypeOK'
  <2>1. next' \in [Honest -> 0 .. MaxRound + 1]
    BY RoundAssumption DEF IInv, TypeOK, GetCoin, TakeCoin, Rounds
  <2>2. waiting' \in [Honest -> BOOLEAN] /\ UNCHANGED <<received, recv_task>>
    BY DEF IInv, TypeOK, GetCoin, TakeCoin
  <2>3. output_queue' \in [Honest -> [Rounds -> 0 .. 1]]
    <3>1. CASE GetCoin(p)
      BY <3>1 DEF IInv, TypeOK, GetCoin
    <3>2. CASE TakeCoin(p)
      <4>1. output_queue \in [Honest -> [Rounds -> 0 .. 1]] /\ 1 - 1 \in 0 .. 1
        BY DEF IInv, TypeOK
      <4>2. /\ output_queue[p][next[p] - 1] = 1
            /\ output_queue' = [output_queue EXCEPT ![p][next[p] - 1] = @ - 1]
        BY <3>2 DEF TakeCoin
      <4> HIDE DEF IInv
      <4> QED BY <4>1, <4>2
    <3> QED BY <3>1, <3>2
  <2> QED BY <2>1, <2>2, <2>3 DEF IInv, TypeOK
<1>2. TaskSurvives' /\ UNCHANGED received
  BY DEF IInv, TaskSurvives, GetCoin, TakeCoin
<1>3. \A q \in Honest : next'[q] >= next[q] /\ next[q] \in Int /\ next'[q] \in Int
  BY DEF IInv, TypeOK, GetCoin, TakeCoin
<1>4. SharesGenuine'
  BY <1>2, <1>3 DEF IInv, SharesGenuine, Rounds
<1>5. ASSUME NEW q \in Honest, NEW r \in Rounds
      PROVE  Known(q, r)' <=> Known(q, r)
  <2>1. /\ next[q] \in Int /\ r \in Int /\ next[p] \in Int
        /\ output_queue[q] \in [Rounds -> {0, 1}]
    BY <1>3 DEF Rounds, IInv, TypeOK
  <2>2. CASE GetCoin(p)
    <3>1. /\ output_queue' = output_queue
          /\ next'[q] = IF q = p THEN next[q] + 1 ELSE next[q]
          /\ waiting'[q] = IF q = p THEN TRUE ELSE waiting[q]
          /\ ~waiting[p]
      BY <2>2 DEF IInv, TypeOK, GetCoin
    <3>2. CASE q = p
      BY <2>1, <3>1, <3>2 DEF Known
    <3>3. CASE q # p
      BY <3>1, <3>3 DEF Known
    <3> QED BY <3>2, <3>3
  <2>3. CASE TakeCoin(p)
    <3> DEFINE taken == next[p] - 1
    <3>1. /\ waiting[p] /\ output_queue[p][taken] = 1
          /\ UNCHANGED next
          /\ waiting'[q] = IF q = p THEN FALSE ELSE waiting[q]
          /\ output_queue'[q][r] = IF q = p /\ r = taken THEN 0
                                   ELSE output_queue[q][r]
      BY <2>3 DEF IInv, TypeOK, TakeCoin
    <3>2. CASE q = p /\ r = taken
      BY <2>1, <3>1, <3>2 DEF Known
    <3>3. CASE q = p /\ r # taken
      BY <2>1, <3>1, <3>3 DEF Known
    <3>4. CASE q # p
      BY <3>1, <3>4 DEF Known
    <3> QED BY <3>2, <3>3, <3>4
  <2> QED BY <2>2, <2>3
<1>6. CoinsMade'
  BY <1>2, <1>5 DEF IInv, CoinsMade
<1>7. WaitsAsked'
  <2>1. CASE GetCoin(p)
    <3>1. /\ \A q \in Honest : q # p => /\ waiting'[q] = waiting[q]
                                       /\ next'[q] = next[q]
          /\ next'[p] = next[p] + 1 /\ next[p] \in Nat
      BY <2>1 DEF IInv, TypeOK, GetCoin, Rounds
    <3> QED BY <3>1 DEF IInv, WaitsAsked
  <2>2. CASE TakeCoin(p)
    <3>1. \A q \in Honest : next'[q] = next[q] /\ (waiting'[q] => waiting[q])
      BY <2>2 DEF IInv, TypeOK, TakeCoin
    <3> QED BY <3>1 DEF IInv, WaitsAsked
  <2> QED BY <2>1, <2>2
<1> QED BY <1>1, <1>2, <1>4, <1>6, <1>7 DEF IInv

\* A share: the coin is made when there are exactly F + 1, so its queue is
\* empty then, and they are all right.
LEMMA RecvShareKeeps ==
    ASSUME IInv, NEW p \in Honest, NEW r \in Rounds, NEW share \in Share,
           RecvShare(p, r, share)
    PROVE  IInv'
<1> DEFINE old == received[p][r]
           shares == received[p][r] \cup {share}
<1>1. /\ old \in SUBSET Share /\ shares \in SUBSET Share
      /\ share \notin old
      /\ received' = [received EXCEPT ![p][r] = shares]
      /\ UNCHANGED <<next, waiting>>
      /\ share[2] = "right"
      /\ share[1] \in Honest => next[share[1]] > r
  BY DEF IInv, TypeOK, RecvShare, Accepts, Sent, Honest
<1>2. Cardinality(shares) = Cardinality(old) + 1 /\ Cardinality(old) \in Nat
  BY <1>1, ReceivedFinite, FS_AddElement
<1>3. \A q \in Honest, b \in Rounds :
        received'[q][b] = IF q = p /\ b = r THEN shares ELSE received[q][b]
  BY <1>1 DEF IInv, TypeOK
<1>4. SharesGenuine'
  <2>1. \A s \in old : s[1] # share[1]
    BY DEF RecvShare
  <2> QED BY <1>1, <1>3, <2>1 DEF IInv, SharesGenuine
<1>5. \A s \in shares : s[2] = "right"
  BY <1>1 DEF IInv, SharesGenuine
<1>6. Combines(shares) => ~Known(p, r)
  BY <1>2, Finite DEF IInv, CoinsMade, Combines
<1>7. IF Combines(shares)
      THEN output_queue' = [output_queue EXCEPT ![p][r] = 1] /\ UNCHANGED recv_task
      ELSE UNCHANGED <<output_queue, recv_task>>
  <2>1. output_queue[p][r] \in {0, 1}
    BY DEF IInv, TypeOK
  <2>2. Combines(shares) => output_queue[p][r] = 0
    BY <1>6, <2>1 DEF Known
  <2>3. IF Combines(shares) THEN PutCoin(p, r, shares)
                            ELSE UNCHANGED <<output_queue, recv_task>>
    BY DEF RecvShare
  <2> QED BY <1>5, <2>2, <2>3 DEF PutCoin
<1> HIDE DEF shares, old
<1>8. TypeOK'
  <2>1. received' \in [Honest -> [Rounds -> SUBSET Share]]
    BY <1>1 DEF IInv, TypeOK
  <2>2. output_queue' \in [Honest -> [Rounds -> 0 .. 1]] /\ recv_task' = recv_task
    <3>1. output_queue \in [Honest -> [Rounds -> 0 .. 1]] /\ 1 \in 0 .. 1
      BY DEF IInv, TypeOK
    <3>2. CASE Combines(shares)
      BY <1>7, <3>1, <3>2
    <3>3. CASE ~Combines(shares)
      BY <1>7, <3>1, <3>3
    <3> QED BY <3>2, <3>3
  <2> QED BY <1>1, <2>1, <2>2 DEF IInv, TypeOK
<1>9. ASSUME NEW q \in Honest, NEW b \in Rounds
      PROVE  Known(q, b)' <=> Cardinality(received'[q][b]) >= F + 1
  <2>1. CASE q = p /\ b = r
    <3>1. received'[q][b] = shares
      BY <1>3, <2>1
    <3>2. CASE Combines(shares)
      <4>1. output_queue'[q][b] = 1
        BY <1>7, <2>1, <3>2 DEF IInv, TypeOK
      <4> QED BY <1>2, <3>1, <3>2, <4>1, Finite DEF Combines, Known
    <3>3. CASE ~Combines(shares)
      <4>1. Known(q, b)' <=> Known(p, r)
        BY <1>1, <1>7, <2>1, <3>3 DEF Known
      <4>2. Known(p, r) <=> Cardinality(old) >= F + 1
        BY DEF IInv, CoinsMade, old
      <4> QED BY <1>2, <3>1, <3>3, <4>1, <4>2, Finite DEF Combines
    <3> QED BY <3>2, <3>3
  <2>2. CASE ~(q = p /\ b = r)
    <3>1. output_queue'[q][b] = output_queue[q][b]
      BY <1>7, <2>2 DEF IInv, TypeOK
    <3>2. Known(q, b)' <=> Known(q, b)
      BY <1>1, <3>1 DEF Known
    <3> QED BY <1>3, <2>2, <3>2 DEF IInv, CoinsMade
  <2> QED BY <2>1, <2>2
<1>10. TaskSurvives'
  BY <1>7 DEF IInv, TaskSurvives
<1>11. WaitsAsked'
  BY <1>1 DEF IInv, WaitsAsked
<1> QED BY <1>4, <1>8, <1>9, <1>10, <1>11 DEF IInv, CoinsMade

LEMMA IInvStep == IInv /\ [Next]_vars => IInv'
<1> SUFFICES ASSUME IInv, [Next]_vars PROVE IInv'
  OBVIOUS
<1>1. CASE UNCHANGED vars
  BY <1>1 DEF vars, IInv, TypeOK, TaskSurvives, SharesGenuine, CoinsMade, Known,
              WaitsAsked
<1>2. CASE Next
  BY <1>2, AskingKeeps, RecvShareKeeps DEF Next
<1> QED BY <1>1, <1>2

\* What a party has accepted is genuine, and a coin is made of F + 1 shares.
THEOREM CoinInvariant == Spec => []IInv
BY IInvInit, IInvStep, PTL DEF Spec

\* The variables of shared_coin() keep their types; no queue holds two coins.
THEOREM TypeCorrect == Spec => []TypeOK
BY CoinInvariant, PTL DEF IInv

\* No share of a faulty party ends the receive task of shared_coin().
THEOREM TaskSurvivesHolds == Spec => []TaskSurvives
BY CoinInvariant, PTL DEF IInv

-----------------------------------------------------------------------------
\* The senders of the accepted shares are as many as the shares, each of them
\* faulty or a party that asked.
LEMMA CoinsAskedFor == IInv => NotEarly
<1> SUFFICES ASSUME IInv, NEW p \in Honest, NEW r \in Rounds, Known(p, r)
             PROVE  Cardinality({q \in Honest : next[q] > r})
                        + Cardinality(Faulty) >= F + 1
  BY DEF NotEarly
<1> DEFINE S == received[p][r]
           A == {q \in Honest : next[q] > r}
           sender == [s \in S |-> s[1]]
<1>1. Cardinality(S) >= F + 1
  BY DEF IInv, CoinsMade
<1>2. S \in SUBSET Share
  BY DEF IInv, TypeOK
<1>3. sender \in [S -> A \cup Faulty]
  BY <1>2 DEF IInv, SharesGenuine, Share, Honest
<1>4. sender \in Injection(S, A \cup Faulty)
  BY <1>3 DEF IInv, SharesGenuine, Injection, IsInjective
<1>5. /\ IsFiniteSet(A) /\ IsFiniteSet(Faulty)
      /\ A \cap Faulty = {}
  BY Finite, FS_Subset DEF Honest
<1> HIDE DEF S, A, sender
<1>6. /\ IsFiniteSet(A \cup Faulty)
      /\ Cardinality(A \cup Faulty) = Cardinality(A) + Cardinality(Faulty)
  <2>1. Cardinality(A \cap Faulty) = 0
    BY <1>5, FS_EmptySet
  <2>2. Cardinality(A) \in Nat /\ Cardinality(Faulty) \in Nat
    BY <1>5, FS_CardinalityType
  <2>3. /\ IsFiniteSet(A \cup Faulty)
        /\ Cardinality(A \cup Faulty)
              = Cardinality(A) + Cardinality(Faulty) - Cardinality(A \cap Faulty)
    BY <1>5, FS_Union
  <2> QED BY <2>1, <2>2, <2>3
<1>7. Cardinality(S) <= Cardinality(A \cup Faulty)
  BY <1>4, <1>6, FS_Injection
<1>8. /\ Cardinality(S) \in Nat /\ Cardinality(A) \in Nat
      /\ Cardinality(Faulty) \in Nat
  BY <1>2, <1>5, ReceivedFinite, FS_CardinalityType
<1>9. Cardinality(A) + Cardinality(Faulty) >= F + 1
  BY <1>1, <1>6, <1>7, <1>8, Finite
<1> QED BY <1>9 DEF A

\* Nobody has the coin of a round before F + 1 parties, the faulty ones
\* counted in, have given their share for it.
THEOREM NotEarlyHolds == Spec => []NotEarly
BY CoinInvariant, CoinsAskedFor, PTL

-----------------------------------------------------------------------------
(* When all shares of honest parties have come.                            *)

\* One of the parties that are behind is the last.
LEMMA Last ==
    ASSUME NEW A \in SUBSET Honest, A # {}, \A q \in A : next[q] \in Nat
    PROVE  \E p \in A : \A q \in A : next[q] >= next[p]
<1> DEFINE less == {pair \in Nat \X Nat : pair[1] < pair[2]}
           at == {next[q] : q \in A}
<1>1. IsWellFoundedOn(less, Nat)
  BY NatLessThanWellFounded DEF OpToRel
<1>2. at \subseteq Nat /\ at # {}
  OBVIOUS
<1>3. PICK least \in at : \A n \in at : ~(<<n, least>> \in less)
  <2> HIDE DEF at, less
  <2> QED BY <1>1, <1>2, WFMin
<1>4. ASSUME NEW n \in at PROVE n >= least
  <2>1. n \in Nat /\ least \in Nat
    BY <1>2
  <2>2. <<n, least>> \in Nat \X Nat /\ <<n, least>> \notin less
    BY <1>3, <2>1
  <2>3. ~(n < least)
    BY <2>2
  <2> QED BY <2>1, <2>3
<1> QED BY <1>4

\* The last party, if it still waits, holds a share of every honest party for
\* the round it waits for: all of them have asked for it.
LEMMA RestIsEnd == IInv => NobodyWaits
<1> SUFFICES ASSUME IInv, AtRest, NEW x \in Honest,
                    ~(next[x] = MaxRound + 1 /\ ~waiting[x])
             PROVE  FALSE
  BY DEF NobodyWaits
<1>1. \A q \in Honest : /\ next[q] \in Nat /\ next[q] <= MaxRound + 1
                        /\ ~waiting[q] => next[q] = MaxRound + 1
                        /\ waiting[q] => next[q] > 0
  BY RoundAssumption DEF IInv, TypeOK, AtRest, Rounds, WaitsAsked
<1> DEFINE behind == {q \in Honest : waiting[q]}
<1>2. PICK p \in behind : \A q \in behind : next[q] >= next[p]
  <2>1. x \in behind /\ behind \in SUBSET Honest
    BY <1>1
  <2> QED BY <1>1, <2>1, Last
<1> DEFINE r == next[p] - 1
           S == received[p][r]
<1>3. p \in Honest /\ waiting[p] /\ r \in Rounds
  BY <1>1, <1>2, RoundAssumption DEF Rounds
<1>4. \A q \in Honest : next[q] > r
  BY <1>1, <1>2, <1>3
<1>5. \A q \in Honest : \E s \in S : s[1] = q
  BY <1>3, <1>4 DEF AtRest, IInv, TaskSurvives
<1>6. ~Known(p, r)
  BY <1>1, <1>3 DEF AtRest, Known
<1>7. S \in SUBSET Share
  BY <1>3 DEF IInv, TypeOK
<1> HIDE DEF S
<1> DEFINE shareOf == [q \in Honest |-> CHOOSE s \in S : s[1] = q]
<1>8. \A q \in Honest : shareOf[q] \in S /\ shareOf[q][1] = q
  BY <1>5
<1> HIDE DEF shareOf
<1>9. shareOf \in Injection(Honest, S)
  <2>1. shareOf \in [Honest -> S]
    BY <1>8 DEF shareOf
  <2> QED BY <1>8, <2>1 DEF Injection, IsInjective
<1>10. Cardinality(Honest) <= Cardinality(S)
  BY <1>7, <1>9, ReceivedFinite, FS_Injection
<1>11. Cardinality(Honest) >= F + 1
  <2>1. Proc \cap Faulty = Faulty
    BY FaultAssumption
  <2>2. Cardinality(Honest) = Cardinality(Proc) - Cardinality(Faulty)
    BY <2>1, FaultAssumption, FS_Difference DEF Honest
  <2>3. Cardinality(Proc) \in Nat /\ Cardinality(Faulty) \in Nat
    BY FaultAssumption, Finite, FS_CardinalityType
  <2>4. F \in Nat /\ Cardinality(Proc) >= 3 * F + 1 /\ Cardinality(Faulty) <= F
    BY FaultAssumption
  <2> QED BY <2>2, <2>3, <2>4
<1>12. Cardinality(S) \in Nat /\ Cardinality(Honest) \in Nat
  BY <1>7, ReceivedFinite, Finite, FS_CardinalityType
<1>13. Cardinality(S) >= F + 1
  BY <1>10, <1>11, <1>12, Finite
<1> QED BY <1>3, <1>6, <1>13 DEF IInv, CoinsMade, S

\* When the shares of honest parties have come, nobody is left in get_coin: a
\* party may lag any number of rounds behind the others.
THEOREM NobodyWaitsHolds == Spec => []NobodyWaits
BY CoinInvariant, RestIsEnd, PTL
=============================================================================
