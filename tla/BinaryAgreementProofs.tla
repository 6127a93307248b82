------------------------ MODULE BinaryAgreementProofs ------------------------
(***************************************************************************)
(* Proofs about BinaryAgreement for any number of parties and rounds, any  *)
(* coin and any behaviour of up to F faulty parties.                       *)
(***************************************************************************)
EXTENDS BinaryAgreement, FiniteSetTheorems, WellFoundedInduction, TLAPS

-----------------------------------------------------------------------------
(* The inductive invariant.                                                *)

\* v won round r alone: N - F parties may be seen to send CONF for v only.
Single(r, v) == SingleWait(ConfVotes(r, {v}), Cardinality(Faulty))

\* A party has accepted both bits in round r.
Mixed(r) == \E p \in Honest : bin_values[p][r] = Bits

\* The bits with which a party may have left round r.
Left(r) == {v \in Bits : Single(r, v) \/ (coin[r] = v /\ Mixed(r))}

\* An honest party was given v.
Backed(v) == \E q \in Honest : input[q] = v

\* Where a party is in its round.
PhasesOK == \A p \in Honest :
    /\ pc[p] # "bound" => round[p] \in Rounds
    /\ pc[p] = "input" => round[p] = 0 /\ input[p] = None
    /\ pc[p] = "coin" <=> values[p] # {} /\ pc[p] # "quit"
    /\ \A r \in Rounds :
         /\ aux_sent[p][r] # None => \/ r < round[p]
                                     \/ r = round[p] /\ pc[p] \in {"aux", "conf", "coin", "quit"}
         /\ conf_sent[p][r] # {} => \/ r < round[p]
                                    \/ r = round[p] /\ pc[p] \in {"conf", "coin", "quit"}

\* A bit that a party has accepted was sent by an honest one, and a CONF holds accepted
\* bits.
BinBacked == \A p \in Honest, r \in Rounds :
    /\ \A v \in bin_values[p][r] : \E q \in Honest : v \in est_sent[q][r]
    /\ conf_sent[p][r] \subseteq bin_values[p][r]

\* What the CONF wait has returned.
ValuesOf(p) == /\ \A v \in Bits : values[p] = {v} => Single(round[p], v)
               /\ values[p] = Bits => bin_values[p][round[p]] = Bits

ValuesBacked == \A p \in Honest : ValuesOf(p)

\* The bit v is that of an honest input and has survived all rounds before r.
Survived(v, r) == Backed(v) /\ \A b \in 0 .. r - 1 : v \in Left(b)

Carried == \A p \in Honest :
    /\ \A r \in Rounds : \A v \in est_sent[p][r] : Survived(v, r)
    /\ est[p] # None => Survived(est[p], round[p])

\* A decision was made in an earlier round, in which the bit won and the coin showed it.
DecisionOf(p) == decided[p] # None =>
    \E r \in Rounds : r < round[p] /\ Single(r, decided[p]) /\ coin[r] = decided[p]

DecisionsBacked == \A p \in Honest : DecisionOf(p)

IInv == /\ TypeOK
        /\ PhasesOK
        /\ BinBacked
        /\ ValuesBacked
        /\ Carried
        /\ DecisionsBacked

-----------------------------------------------------------------------------
(* Sizes of sets of honest parties.                                        *)

LEMMA Sizes ==
    /\ IsFiniteSet(Honest) /\ IsFiniteSet(Faulty)
    /\ N \in Nat /\ Cardinality(Faulty) \in Nat /\ Cardinality(Honest) \in Nat
    /\ Cardinality(Honest) + Cardinality(Faulty) = N
    /\ F \in Nat /\ Cardinality(Faulty) <= F /\ N >= 3 * F + 1
<1>1. IsFiniteSet(Proc) /\ IsFiniteSet(Faulty) /\ IsFiniteSet(Honest)
  BY ThresholdAssumption, FaultAssumption, FS_Subset DEF Honest
<1>2. Honest \cup Faulty = Proc /\ Honest \cap Faulty = {}
  BY FaultAssumption DEF Honest
<1>3. Cardinality(Proc) = Cardinality(Honest) + Cardinality(Faulty) - Cardinality({})
  BY <1>1, <1>2, FS_Union
<1> QED BY <1>1, <1>3, FS_EmptySet, FS_CardinalityType, ThresholdAssumption, FaultAssumption DEF N

\* A wait over all values ends when each single value stays below N - F and all
\* messages together do not.
LEMMA MixedFromHonest ==
    ASSUME NEW h0 \in 0 .. N - F - 1, NEW h1 \in 0 .. N - F - 1, NEW h01 \in Nat,
           NEW both \in BOOLEAN, h0 + h1 + (IF both THEN h01 ELSE 0) >= N - F
    PROVE  MixedWait(h0, h1, h01, 0, both)
<1> DEFINE range == 0 .. N - F - 1
           Ends(c) == LET b0 == Borrowed(c[1], h0)
                          b1 == Borrowed(c[2], h1)
                          left == IF Equivocate THEN 0 ELSE 0 - b0 - b1
                      IN  /\ b0 <= 0 /\ b1 <= 0 /\ left >= 0
                          /\ c[1] + c[2] + (IF both THEN h01 + left ELSE 0) >= N - F
<1>1. Borrowed(h0, h0) = 0 /\ Borrowed(h1, h1) = 0
  BY DEF Borrowed
<1>2. <<h0, h1>> \in range \X range
  OBVIOUS
<1>3. Ends(<<h0, h1>>)
  BY <1>1, Sizes
<1>4. {c \in range \X range : Ends(c)} # {}
  <2> HIDE DEF Ends
  <2> QED BY <1>2, <1>3
<1> QED BY <1>4 DEF MixedWait

LEMMA HonestSize ==
    ASSUME NEW A \in SUBSET Honest
    PROVE  IsFiniteSet(A) /\ Cardinality(A) \in Nat /\ Cardinality(A) <= Cardinality(Honest)
  BY Sizes, FS_Subset, FS_CardinalityType

LEMMA Larger ==
    ASSUME NEW A \in SUBSET Honest, NEW B \in SUBSET Honest, A \subseteq B
    PROVE  Cardinality(A) <= Cardinality(B)
  BY HonestSize, FS_Subset

\* Disjoint sets of honest parties.
LEMMA Apart ==
    ASSUME NEW A \in SUBSET Honest, NEW B \in SUBSET Honest, A \cap B = {}
    PROVE  /\ Cardinality(A \cup B) = Cardinality(A) + Cardinality(B)
           /\ Cardinality(A) + Cardinality(B) <= Cardinality(Honest)
<1>1. Cardinality(A \cup B) = Cardinality(A) + Cardinality(B) - Cardinality({})
  BY HonestSize, FS_Union
<1>2. Cardinality(A \cup B) = Cardinality(A) + Cardinality(B)
  BY <1>1, FS_EmptySet, HonestSize
<1>3. A \cup B \in SUBSET Honest
  OBVIOUS
<1> QED BY <1>2, <1>3, HonestSize

\* Of N - F parties for one message and N - F for another an honest one sent both.
LEMMA QuorumsMeet ==
    ASSUME NEW A \in SUBSET Honest, NEW B \in SUBSET Honest,
           Cardinality(A) + Cardinality(Faulty) >= N - F,
           Cardinality(B) + Cardinality(Faulty) >= N - F
    PROVE  A \cap B # {}
<1> SUFFICES ASSUME A \cap B = {} PROVE FALSE
  OBVIOUS
<1>1. Cardinality(A) + Cardinality(B) <= Cardinality(Honest)
  BY Apart
<1>2. Cardinality(A) \in Nat /\ Cardinality(B) \in Nat
  BY HonestSize
<1> QED BY <1>1, <1>2, Sizes

\* More messages than there are faulty parties: one is from an honest party.
LEMMA OneIsHonest ==
    ASSUME NEW A \in SUBSET Honest, Cardinality(A) + Cardinality(Faulty) >= F + 1
    PROVE  A # {}
<1> SUFFICES ASSUME A = {} PROVE FALSE
  OBVIOUS
<1> QED BY FS_EmptySet, Sizes

LEMMA ValueFacts ==
    /\ Inputs \in [Honest -> SUBSET Bits] /\ CoinBits \in [Rounds -> SUBSET Bits]
    /\ MaxRound \in Nat /\ None \notin Bits
  BY ValueAssumption

\* A set with one element.
LEMMA OneBit ==
    ASSUME NEW S \in SUBSET Bits
    PROVE  /\ Cardinality(S) = 1 => \E v \in Bits : S = {v}
           /\ \A v \in Bits : S = {v} => Cardinality(S) = 1 /\ (CHOOSE x \in S : TRUE) = v
           /\ S # {} => (\E v \in Bits : S = {v}) \/ S = Bits
           /\ S = Bits => Cardinality(S) # 1
<1>1. IsFiniteSet(Bits)
  <2>1. IsFiniteSet({0}) /\ Bits = {0} \cup {1}
    BY FS_Singleton DEF Bits
  <2> QED BY <2>1, FS_AddElement
<1>2. IsFiniteSet(S)
  BY <1>1, FS_Subset
<1>3. Cardinality(S) = 1 <=> \E x : S = {x}
  BY <1>2, FS_Singleton
<1>4. Cardinality(S) = 1 => \E v \in Bits : S = {v}
  BY <1>3
<1>5. \A v \in Bits : S = {v} => Cardinality(S) = 1 /\ (CHOOSE x \in S : TRUE) = v
  BY <1>3
<1>6. S # {} => (\E v \in Bits : S = {v}) \/ S = Bits
  BY DEF Bits
<1>7. S = Bits => Cardinality(S) # 1
  BY <1>4 DEF Bits
<1> QED BY <1>4, <1>5, <1>6, <1>7

-----------------------------------------------------------------------------
(* What the invariant says of one state.                                   *)

LEMMA VotersHonest ==
    ASSUME NEW r, NEW c
    PROVE  {p \in Honest : conf_sent[p][r] = c} \in SUBSET Honest
  OBVIOUS

\* Two different bits do not both win a round.
LEMMA OneWinner ==
    ASSUME NEW r, NEW v \in Bits, NEW w \in Bits, Single(r, v), Single(r, w)
    PROVE  v = w
<1> DEFINE A == {p \in Honest : conf_sent[p][r] = {v}}
           B == {p \in Honest : conf_sent[p][r] = {w}}
<1>1. A \cap B # {}
  <2>1. A \in SUBSET Honest /\ B \in SUBSET Honest
    OBVIOUS
  <2>2. Cardinality(A) + Cardinality(Faulty) >= N - F /\ Cardinality(B) + Cardinality(Faulty) >= N - F
    BY DEF Single, SingleWait, ConfVotes
  <2> HIDE DEF A, B
  <2> QED BY <2>1, <2>2, QuorumsMeet
<1> QED BY <1>1

\* A bit that won was accepted, and sent, by an honest party.
LEMMA WinnerSent ==
    ASSUME IInv, NEW r \in Rounds, NEW v \in Bits, Single(r, v)
    PROVE  \E q \in Honest : v \in est_sent[q][r]
<1> DEFINE A == {p \in Honest : conf_sent[p][r] = {v}}
<1>1. A \in SUBSET Honest /\ Cardinality(A) + Cardinality(Faulty) >= N - F
  BY DEF Single, SingleWait, ConfVotes
<1>2. Cardinality(A) \in Nat
  BY <1>1, HonestSize
<1>3. Cardinality(A) + Cardinality(Faulty) >= F + 1
  BY <1>1, <1>2, Sizes
<1>4. A # {}
  BY <1>1, <1>3, OneIsHonest
<1>5. PICK p \in Honest : conf_sent[p][r] = {v}
  BY <1>4
<1> QED BY <1>5 DEF IInv, BinBacked

\* A bit an honest party may have sent in round r has survived all rounds before.
LEMMA SentSurvived ==
    ASSUME IInv, NEW r \in Rounds, NEW v \in Bits, NEW q \in Honest, v \in est_sent[q][r]
    PROVE  Survived(v, r) /\ Backed(v) /\ \A b \in 0 .. r - 1 : v \in Left(b)
  BY DEF IInv, Carried, Survived

\* After a round that a bit won and whose coin showed it only that bit is left.
LEMMA WonForGood ==
    ASSUME NEW r, NEW v \in Bits, Single(r, v), coin[r] = v, NEW w \in Left(r)
    PROVE  w = v
  BY OneWinner DEF Left

LEMMA DecisionsAgree == IInv => Agreement
<1> SUFFICES ASSUME IInv, NEW p \in Honest, NEW q \in Honest,
                    decided[p] # None, decided[q] # None
             PROVE  decided[p] = decided[q]
  BY DEF Agreement
<1>1. decided[p] \in Bits /\ decided[q] \in Bits
  BY DEF IInv, TypeOK
<1>2. PICK r \in Rounds : Single(r, decided[p]) /\ coin[r] = decided[p]
  BY DEF IInv, DecisionsBacked, DecisionOf
<1>3. PICK s \in Rounds : Single(s, decided[q]) /\ coin[s] = decided[q]
  BY DEF IInv, DecisionsBacked, DecisionOf
<1>4. r < s \/ s < r \/ r = s
  BY DEF Rounds
<1>5. ASSUME r < s PROVE decided[p] = decided[q]
  <2>1. decided[q] \in Left(r)
    <3>1. r \in 0 .. s - 1
      BY <1>5, ValueFacts DEF Rounds
    <3> QED BY <1>1, <1>3, <3>1, WinnerSent, SentSurvived
  <2> QED BY <1>1, <1>2, <2>1, WonForGood
<1>6. ASSUME s < r PROVE decided[p] = decided[q]
  <2>1. decided[p] \in Left(s)
    <3>1. s \in 0 .. r - 1
      BY <1>6, ValueFacts DEF Rounds
    <3> QED BY <1>1, <1>2, <3>1, WinnerSent, SentSurvived
  <2> QED BY <1>1, <1>3, <2>1, WonForGood
<1> QED BY <1>2, <1>3, <1>4, <1>5, <1>6

LEMMA EstimatesLocked == IInv => Locked
<1> SUFFICES ASSUME IInv, NEW p \in Honest, NEW q \in Honest,
                    decided[p] # None, round[q] >= round[p]
             PROVE  est[q] = decided[p]
  BY DEF Locked
<1>1. decided[p] \in Bits /\ round[p] \in Nat /\ round[q] \in Nat
  BY ValueFacts DEF IInv, TypeOK
<1>2. PICK r \in Rounds : r < round[p] /\ Single(r, decided[p]) /\ coin[r] = decided[p]
  BY DEF IInv, DecisionsBacked, DecisionOf
<1>3. r \in 0 .. round[q] - 1 /\ r \in Nat
  BY <1>1, <1>2, ValueFacts DEF Rounds
<1>4. est[q] # None
  BY <1>1, <1>3 DEF IInv, TypeOK, PhasesOK
<1>5. est[q] \in Left(r)
  BY <1>3, <1>4 DEF IInv, Carried, Survived
<1> QED BY <1>1, <1>2, <1>5, WonForGood

LEMMA ConfsSingle == IInv => SingleConf
<1> SUFFICES ASSUME IInv, NEW p \in Honest, NEW q \in Honest, round[p] = round[q],
                    Cardinality(values[p]) = 1, Cardinality(values[q]) = 1
             PROVE  values[p] = values[q]
  BY DEF SingleConf
<1>1. values[p] \in SUBSET Bits /\ values[q] \in SUBSET Bits
  BY DEF IInv, TypeOK
<1>2. PICK v \in Bits : values[p] = {v}
  BY <1>1, OneBit
<1>3. PICK w \in Bits : values[q] = {w}
  BY <1>1, OneBit
<1>4. Single(round[p], v) /\ Single(round[p], w)
  BY <1>2, <1>3 DEF IInv, ValuesBacked, ValuesOf
<1> QED BY <1>2, <1>3, <1>4, OneWinner

LEMMA BitsValid == IInv => Validity
<1> SUFFICES ASSUME IInv, NEW p \in Honest, NEW v \in Bits,
                    \/ decided[p] = v
                    \/ \E r \in Rounds : v \in bin_values[p][r] \/ v \in conf_sent[p][r]
             PROVE  Backed(v)
  BY DEF Validity, Backed
<1>1. CASE decided[p] = v
  <2>1. PICK r \in Rounds : Single(r, v)
    BY <1>1, ValueFacts DEF IInv, DecisionsBacked, DecisionOf
  <2> QED BY <2>1, WinnerSent, SentSurvived
<1>2. CASE \E r \in Rounds : v \in bin_values[p][r] \/ v \in conf_sent[p][r]
  <2>1. PICK r \in Rounds : v \in bin_values[p][r]
    BY <1>2 DEF IInv, BinBacked
  <2>2. \E q \in Honest : v \in est_sent[q][r]
    BY <2>1 DEF IInv, BinBacked
  <2> QED BY <2>2, SentSurvived
<1> QED BY <1>1, <1>2
-----------------------------------------------------------------------------
(* What every step keeps.                                                  *)

\* What has been sent stays sent, and the coin of a round is one bit.
Grows ==
    /\ \A p \in Honest, r \in Rounds :
         /\ est_sent[p][r] \subseteq est_sent'[p][r]
         /\ bin_values[p][r] \subseteq bin_values'[p][r]
         /\ conf_sent[p][r] # {} => conf_sent'[p][r] = conf_sent[p][r]
    /\ \A r \in Rounds : coin[r] # None => coin'[r] = coin[r]
    /\ \A p \in Honest : input[p] # None => input'[p] = input[p]

LEMMA SingleStays ==
    ASSUME Grows, NEW r \in Rounds, NEW v \in Bits, Single(r, v) PROVE Single(r, v)'
<1> DEFINE A == {p \in Honest : conf_sent[p][r] = {v}}
           B == {p \in Honest : conf_sent'[p][r] = {v}}
<1>1. A \in SUBSET Honest /\ B \in SUBSET Honest /\ A \subseteq B
  BY DEF Grows
<1>2. Cardinality(A) + Cardinality(Faulty) >= N - F
  BY DEF Single, SingleWait, ConfVotes
<1>3. Single(r, v)' <=> Cardinality(B) + Cardinality(Faulty) >= N - F
  BY DEF Single, SingleWait, ConfVotes
<1> HIDE DEF A, B
<1>4. Cardinality(A) <= Cardinality(B) /\ Cardinality(A) \in Nat /\ Cardinality(B) \in Nat
  BY <1>1, Larger, HonestSize
<1> QED BY <1>2, <1>3, <1>4, Sizes

LEMMA BothStay ==
    ASSUME TypeOK', Grows, NEW p \in Honest, NEW r \in Rounds, bin_values[p][r] = Bits
    PROVE  bin_values'[p][r] = Bits
<1>1. bin_values'[p][r] \in SUBSET Bits
  BY DEF TypeOK
<1>2. bin_values[p][r] \subseteq bin_values'[p][r]
  BY DEF Grows
<1> QED BY <1>1, <1>2

LEMMA LeftStays ==
    ASSUME IInv, TypeOK', Grows, NEW r \in Rounds
    PROVE  /\ Mixed(r) => Mixed(r)'
           /\ \A v \in Left(r) : v \in Left(r)'
<1>1. Mixed(r) => Mixed(r)'
  BY BothStay DEF Mixed
<1>2. ASSUME NEW v \in Left(r) PROVE v \in Left(r)'
  <2>1. v \in Bits
    BY DEF Left
  <2>2. CASE Single(r, v)
    BY <2>1, <2>2, SingleStays DEF Left
  <2>3. CASE coin[r] = v /\ Mixed(r)
    BY <1>1, <2>1, <2>3, ValueFacts DEF Left, Grows
  <2> QED BY <2>2, <2>3 DEF Left
<1> QED BY <1>1, <1>2

LEMMA SurvivedStays ==
    ASSUME IInv, TypeOK', Grows, NEW v \in Bits, NEW r \in 0 .. MaxRound + 1, Survived(v, r)
    PROVE  Survived(v, r)'
<1>1. Backed(v)'
  BY ValueFacts DEF Survived, Backed, Grows
<1>2. ASSUME NEW b \in 0 .. r - 1 PROVE v \in Left(b)'
  <2>1. b \in Rounds
    BY ValueFacts DEF Rounds
  <2> QED BY <2>1, LeftStays DEF Survived
<1> QED BY <1>1, <1>2 DEF Survived

\* The parts of the invariant that are about what a step leaves alone.
LEMMA PartsKept ==
    ASSUME IInv, TypeOK', Grows
    PROVE  /\ UNCHANGED <<bin_values, conf_sent>> => BinBacked'
           /\ \A p \in Honest : values'[p] = values[p] /\ round'[p] = round[p] => ValuesOf(p)'
           /\ \A p \in Honest, r \in Rounds : \A v \in est_sent[p][r] : Survived(v, r)'
           /\ \A p \in Honest : est'[p] = est[p] /\ round'[p] = round[p] /\ est'[p] # None
                                 => Survived(est[p], round[p])'
           /\ \A p \in Honest : decided'[p] = decided[p] /\ round'[p] >= round[p] => DecisionOf(p)'
<1>1. UNCHANGED <<bin_values, conf_sent>> => BinBacked'
  BY DEF IInv, BinBacked, Grows
<1>2. ASSUME NEW p \in Honest, values'[p] = values[p], round'[p] = round[p] PROVE ValuesOf(p)'
  <2>1. values[p] # {} => round[p] \in Rounds
    BY DEF IInv, PhasesOK
  <2>2. ASSUME NEW r \in Rounds, round[p] = r
        PROVE  /\ \A v \in Bits : values'[p] = {v} => Single(r, v)'
               /\ values'[p] = Bits => bin_values'[p][r] = Bits
    <3>1. /\ \A v \in Bits : values[p] = {v} => Single(r, v)
          /\ values[p] = Bits => bin_values[p][r] = Bits
      BY <2>2 DEF IInv, ValuesBacked, ValuesOf
    <3> QED BY <1>2, <3>1, SingleStays, BothStay
  <2>3. ASSUME values'[p] # {} PROVE ValuesOf(p)'
    <3>1. PICK r \in Rounds : round[p] = r
      BY <1>2, <2>1, <2>3
    <3>2. round'[p] = r
      BY <1>2, <3>1
    <3> QED BY <2>2, <3>1, <3>2 DEF ValuesOf, Single, SingleWait, ConfVotes
  <2>4. ASSUME values'[p] = {} PROVE ValuesOf(p)'
    BY <2>4 DEF ValuesOf, Bits
  <2> QED BY <2>3, <2>4
<1>3. ASSUME NEW p \in Honest, NEW r \in Rounds, NEW v \in est_sent[p][r] PROVE Survived(v, r)'
  <2>1. v \in Bits /\ r \in 0 .. MaxRound + 1
    BY ValueFacts DEF IInv, TypeOK, Rounds
  <2> QED BY <2>1, SurvivedStays DEF IInv, Carried
<1>4. ASSUME NEW p \in Honest, est'[p] = est[p], round'[p] = round[p], est'[p] # None
      PROVE  Survived(est[p], round[p])'
  <2>1. PICK v \in Bits, r \in 0 .. MaxRound + 1 : est[p] = v /\ round[p] = r
    BY <1>4 DEF IInv, TypeOK
  <2>2. Survived(v, r)
    BY <1>4, <2>1 DEF IInv, Carried
  <2>3. Survived(v, r)'
    BY <2>2, SurvivedStays
  <2>4. est'[p] = v /\ round'[p] = r
    BY <1>4, <2>1
  <2> QED BY <2>3, <2>4 DEF Survived
<1>5. ASSUME NEW p \in Honest, decided'[p] = decided[p], round'[p] >= round[p]
      PROVE  DecisionOf(p)'
  <2> SUFFICES ASSUME decided[p] # None PROVE DecisionOf(p)'
    BY <1>5 DEF DecisionOf
  <2>1. PICK v \in Bits : decided[p] = v
    BY DEF IInv, TypeOK
  <2>2. PICK r \in Rounds : r < round[p] /\ Single(r, v) /\ coin[r] = v
    BY <2>1 DEF IInv, DecisionsBacked, DecisionOf
  <2>3. Single(r, v)'
    BY <2>2, SingleStays
  <2>4. coin'[r] = v
    BY <2>2, ValueFacts DEF Grows
  <2>5. r < round'[p]
    BY <1>5, <2>2, ValueFacts DEF IInv, TypeOK, Rounds
  <2>6. decided'[p] = v
    BY <1>5, <2>1
  <2> QED BY <2>3, <2>4, <2>5, <2>6 DEF DecisionOf
<1> QED BY <1>1, <1>2, <1>3, <1>4, <1>5
-----------------------------------------------------------------------------
(* One lemma for each action.                                              *)

LEMMA BitFacts == Bits = {0, 1} /\ 0 \in Rounds /\ MaxRound \in Nat
  BY ValueFacts DEF Bits, Rounds

\* One more EST is sent.
LEMMA OneMore ==
    ASSUME NEW f \in [Honest -> [Rounds -> SUBSET Bits]], NEW p \in Honest, NEW r \in Rounds,
           NEW v \in Bits, NEW g, g = [f EXCEPT ![p][r] = @ \cup {v}]
    PROVE  /\ g \in [Honest -> [Rounds -> SUBSET Bits]]
           /\ \A q \in Honest, b \in Rounds :
                /\ f[q][b] \subseteq g[q][b]
                /\ \A w \in g[q][b] : w \in f[q][b] \/ (w = v /\ b = r)
<1> DEFINE row == [f[p] EXCEPT ![r] = f[p][r] \cup {v}]
<1>1. f[p] \in [Rounds -> SUBSET Bits] /\ f[p][r] \cup {v} \in SUBSET Bits
  OBVIOUS
<1>2. row \in [Rounds -> SUBSET Bits]
  BY <1>1
<1>3. \A b \in Rounds : row[b] = IF b = r THEN f[p][r] \cup {v} ELSE f[p][b]
  BY <1>1
<1>4. g = [f EXCEPT ![p] = row]
  OBVIOUS
<1> HIDE DEF row
<1>5. g \in [Honest -> [Rounds -> SUBSET Bits]]
  BY <1>2, <1>4
<1>6. \A q \in Honest : g[q] = IF q = p THEN row ELSE f[q]
  BY <1>4
<1> QED BY <1>3, <1>5, <1>6

LEMMA StartKeeps ==
    ASSUME IInv, NEW p \in Honest, NEW vi \in Inputs[p], Start(p, vi) PROVE IInv' /\ Grows
<1> USE DEF Start
<1>1. vi \in Bits /\ vi # None /\ pc[p] = "input" /\ input[p] = None /\ round[p] = 0
      /\ est[p] = None /\ values[p] = {}
  <2>1. vi \in Bits /\ vi # None
    BY ValueFacts
  <2>2. pc[p] = "input" /\ input[p] = None /\ round[p] = 0 /\ values[p] = {}
    BY DEF IInv, PhasesOK
  <2>3. est[p] = None
    BY DEF IInv, TypeOK
  <2> QED BY <2>1, <2>2, <2>3
<1>2. TypeOK'
  <2>1. /\ input' \in [Honest -> Bits \cup {None}] /\ est' \in [Honest -> Bits \cup {None}]
        /\ pc' \in [Honest -> Phases]
    BY <1>1 DEF IInv, TypeOK, Phases
  <2>2. est_sent' \in [Honest -> [Rounds -> SUBSET Bits]]
    BY <1>1, BitFacts, OneMore DEF IInv, TypeOK
  <2>3. \A q \in Honest : est'[q] = None <=> pc'[q] = "input"
    BY <1>1 DEF IInv, TypeOK
  <2> QED BY <2>1, <2>2, <2>3 DEF IInv, TypeOK
<1>3. PhasesOK'
  BY <1>1, BitFacts DEF IInv, TypeOK, PhasesOK
<1>4. Grows
  BY <1>1 DEF IInv, TypeOK, Grows
<1>5. BinBacked' /\ ValuesBacked' /\ DecisionsBacked'
  BY <1>2, <1>4, PartsKept DEF IInv, TypeOK, ValuesBacked, DecisionsBacked
<1>6. Carried'
  <2>1. Survived(vi, 0)'
    BY <1>1 DEF Survived, Backed, IInv, TypeOK
  <2>2. ASSUME NEW q \in Honest, NEW r \in Rounds, NEW v \in est_sent'[q][r]
        PROVE  Survived(v, r)'
    <3>1. CASE v \in est_sent[q][r]
      BY <1>2, <1>4, <3>1, PartsKept DEF IInv
    <3>2. CASE v \notin est_sent[q][r]
      <4>1. v = vi /\ r = 0
        BY <2>2, <3>2 DEF IInv, TypeOK
      <4> QED BY <2>1, <4>1
    <3> QED BY <3>1, <3>2
  <2>3. ASSUME NEW q \in Honest, est'[q] # None PROVE Survived(est[q], round[q])'
    <3>1. CASE q = p
      <4>1. est'[p] = vi /\ round'[p] = 0
        BY <1>1 DEF IInv, TypeOK
      <4> QED BY <2>1, <3>1, <4>1 DEF Survived
    <3>2. CASE q # p
      <4>1. est'[q] = est[q] /\ round'[q] = round[q]
        BY <3>2 DEF IInv, TypeOK
      <4> QED BY <1>2, <1>4, <2>3, <4>1, PartsKept DEF IInv
    <3> QED BY <3>1, <3>2
  <2> QED BY <2>2, <2>3 DEF Carried
<1> QED BY <1>2, <1>3, <1>4, <1>5, <1>6 DEF IInv

\* F + 1 ESTs for a bit: an honest party has sent one of them.
LEMMA EstSent ==
    ASSUME NEW r, NEW v, NEW held \in {F + 1, 2 * F + 1},
           held <= EstVotes(r, v, Cardinality(Faulty))
    PROVE  \E q \in Honest : v \in est_sent[q][r]
<1> DEFINE A == {q \in Honest : v \in est_sent[q][r]}
<1>1. A \in SUBSET Honest /\ Cardinality(A) + Cardinality(Faulty) >= held
  <2>1. A \in SUBSET Honest
    OBVIOUS
  <2>2. Cardinality(A) \in Nat
    BY <2>1, HonestSize
  <2> QED BY <2>1, <2>2, Sizes DEF EstVotes
<1>2. Cardinality(A) \in Nat
  BY <1>1, HonestSize
<1> HIDE DEF A
<1>3. Cardinality(A) + Cardinality(Faulty) >= F + 1
  BY <1>1, <1>2, Sizes
<1>4. A # {}
  BY <1>1, <1>3, OneIsHonest
<1> QED BY <1>4 DEF A

LEMMA RecvEstKeeps ==
    ASSUME IInv, NEW p \in Honest, NEW r \in Rounds, NEW v \in Bits,
           NEW held \in {F + 1, 2 * F + 1}, RecvEst(p, r, v, held)
    PROVE  IInv' /\ Grows
<1> USE DEF RecvEst, Relayed, Accepted
<1>1. PICK q \in Honest : v \in est_sent[q][r]
  BY EstSent
<1>2. \A s \in Honest, b \in Rounds :
        /\ est_sent[s][b] \subseteq est_sent'[s][b] /\ bin_values[s][b] \subseteq bin_values'[s][b]
        /\ \A w \in est_sent'[s][b] : w \in est_sent[s][b] \/ (w = v /\ b = r)
        /\ \A w \in bin_values'[s][b] : w \in bin_values[s][b] \/ (w = v /\ b = r)
  BY DEF IInv, TypeOK
<1>3. TypeOK'
  BY DEF IInv, TypeOK
<1>4. PhasesOK'
  BY DEF IInv, PhasesOK
<1>5. Grows
  BY <1>2 DEF Grows
<1>6. ValuesBacked' /\ DecisionsBacked'
  BY <1>3, <1>5, PartsKept DEF IInv, TypeOK, ValuesBacked, DecisionsBacked
<1>7. BinBacked'
  BY <1>1, <1>2 DEF IInv, BinBacked
<1>8. Carried'
  <2>1. Survived(v, r)'
    BY <1>1, <1>3, <1>5, PartsKept
  <2>2. ASSUME NEW s \in Honest, NEW b \in Rounds, NEW w \in est_sent'[s][b]
        PROVE  Survived(w, b)'
    <3>1. CASE w \in est_sent[s][b]
      BY <1>3, <1>5, <3>1, PartsKept
    <3>2. CASE w = v /\ b = r
      BY <2>1, <3>2
    <3> QED BY <1>2, <3>1, <3>2
  <2>3. ASSUME NEW s \in Honest, est'[s] # None PROVE Survived(est[s], round[s])'
    BY <1>3, <1>5, <2>3, PartsKept
  <2> QED BY <2>2, <2>3 DEF Carried
<1> QED BY <1>3, <1>4, <1>5, <1>6, <1>7, <1>8 DEF IInv

\* A step that leaves the ESTs and the estimates alone.
LEMMA CarriedKept ==
    ASSUME IInv, TypeOK', Grows, UNCHANGED <<est_sent, est, round>> PROVE Carried'
<1>1. ASSUME NEW q \in Honest, NEW r \in Rounds, NEW v \in est_sent'[q][r] PROVE Survived(v, r)'
  BY <1>1, PartsKept
<1>2. ASSUME NEW q \in Honest, est'[q] # None PROVE Survived(est[q], round[q])'
  BY <1>2, PartsKept
<1> QED BY <1>1, <1>2 DEF Carried

LEMMA SendAuxKeeps == ASSUME IInv, NEW p \in Honest, SendAux(p) PROVE IInv' /\ Grows
<1> USE DEF SendAux
<1>1. round[p] \in Rounds /\ pc[p] = "bin"
  BY DEF IInv, PhasesOK
<1>2. TypeOK'
  BY BitFacts, ValueFacts DEF IInv, TypeOK, Phases
<1>3. PhasesOK'
  BY <1>1, ValueFacts DEF IInv, TypeOK, PhasesOK
<1>4. Grows
  BY DEF Grows
<1>5. BinBacked' /\ ValuesBacked' /\ DecisionsBacked'
  BY <1>2, <1>4, PartsKept DEF IInv, TypeOK, ValuesBacked, DecisionsBacked
<1> QED BY <1>2, <1>3, <1>4, <1>5, CarriedKept DEF IInv

LEMMA SendConfKeeps == ASSUME IInv, NEW p \in Honest, SendConf(p) PROVE IInv' /\ Grows
<1> USE DEF SendConf
<1>1. round[p] \in Rounds /\ pc[p] = "aux" /\ conf_sent[p][round[p]] = {}
  <2>1. round[p] \in Rounds /\ pc[p] = "aux"
    BY DEF IInv, PhasesOK
  <2>2. ~(round[p] < round[p])
    BY <2>1, ValueFacts DEF Rounds
  <2> QED BY <2>1, <2>2 DEF IInv, PhasesOK
<1>2. TypeOK'
  BY <1>1, ValueFacts DEF IInv, TypeOK, Phases
<1>3. PhasesOK'
  BY <1>1, ValueFacts DEF IInv, TypeOK, PhasesOK
<1>4. Grows
  BY <1>1 DEF IInv, TypeOK, Grows
<1>5. ValuesBacked' /\ DecisionsBacked'
  BY <1>2, <1>4, PartsKept DEF IInv, TypeOK, ValuesBacked, DecisionsBacked
<1>6. BinBacked'
  BY <1>1 DEF IInv, TypeOK, BinBacked
<1> QED BY <1>2, <1>3, <1>4, <1>5, <1>6, CarriedKept DEF IInv

LEMMA CallCoinKeeps ==
    ASSUME IInv, NEW p \in Honest, NEW vals \in SUBSET Bits, CallCoin(p, vals) PROVE IInv' /\ Grows
<1> USE DEF CallCoin
<1>1. round[p] \in Rounds /\ pc[p] = "conf" /\ values[p] = {}
  BY DEF IInv, PhasesOK
<1>2. /\ \A v \in Bits : vals = {v} => Single(round[p], v)
      /\ vals = Bits => bin_values[p][round[p]] = Bits
      /\ vals # {}
  <2>1. CASE \E v \in bin_values[p][round[p]] :
               vals = {v} /\ SingleWait(ConfVotes(round[p], {v}), Cardinality(Faulty))
    BY <2>1, BitFacts DEF Single
  <2>2. CASE bin_values[p][round[p]] = Bits /\ vals = Bits
    BY <2>2, BitFacts
  <2> QED BY <2>1, <2>2 DEF ConfDone
<1>3. TypeOK'
  BY <1>1, ValueFacts DEF IInv, TypeOK, Phases
<1>4. PhasesOK'
  BY <1>1, <1>2, ValueFacts DEF IInv, TypeOK, PhasesOK
<1>5. Grows
  BY DEF Grows
<1>6. BinBacked' /\ DecisionsBacked'
  BY <1>3, <1>5, PartsKept DEF IInv, TypeOK, DecisionsBacked
<1>7. ValuesBacked'
  <2>1. ValuesOf(p)'
    <3>1. values'[p] = vals /\ round'[p] = round[p]
      BY DEF IInv, TypeOK
    <3>2. UNCHANGED <<conf_sent, bin_values>>
      OBVIOUS
    <3> QED BY <1>2, <3>1, <3>2 DEF ValuesOf, Single, SingleWait, ConfVotes
  <2>2. ASSUME NEW q \in Honest, q # p PROVE ValuesOf(q)'
    <3>1. values'[q] = values[q] /\ round'[q] = round[q]
      BY <2>2 DEF IInv, TypeOK
    <3> QED BY <1>3, <1>5, <3>1, PartsKept
  <2> QED BY <2>1, <2>2 DEF ValuesBacked
<1> QED BY <1>3, <1>4, <1>5, <1>6, <1>7, CarriedKept DEF IInv
\* The estimate with which p leaves round R.
NextEstimate(p, s) == IF Cardinality(values[p]) = 1 THEN CHOOSE v \in values[p] : TRUE ELSE s

LEMMA EstimateSurvives ==
    ASSUME IInv, TypeOK', Grows, NEW p \in Honest, NEW s \in Bits, NEW R \in Rounds,
           round[p] = R, pc[p] = "coin", coin'[R] = s,
           NEW new, new = NextEstimate(p, s)
    PROVE  new \in Bits /\ Survived(new, R + 1)'
<1>1. values[p] \in SUBSET Bits /\ values[p] # {}
  BY DEF IInv, TypeOK, PhasesOK
<1>2. \/ new \in Bits /\ Single(R, new)
      \/ new = s /\ bin_values[p][R] = Bits
  <2>1. CASE \E v \in Bits : values[p] = {v}
    <3>1. PICK v \in Bits : values[p] = {v}
      BY <2>1
    <3>2. new = v
      BY <1>1, <3>1, OneBit DEF NextEstimate
    <3> QED BY <3>1, <3>2 DEF IInv, ValuesBacked, ValuesOf
  <2>2. CASE values[p] = Bits
    <3>1. new = s
      BY <1>1, <2>2, OneBit DEF NextEstimate
    <3> QED BY <2>2, <3>1 DEF IInv, ValuesBacked, ValuesOf
  <2> QED BY <1>1, <2>1, <2>2, OneBit
<1>3. new \in Bits
  BY <1>2
<1>4. \E q \in Honest : new \in est_sent[q][R]
  <2>1. CASE Single(R, new)
    BY <1>3, <2>1, WinnerSent
  <2>2. CASE new = s /\ bin_values[p][R] = Bits
    BY <2>2 DEF IInv, BinBacked
  <2> QED BY <1>2, <2>1, <2>2
<1>5. Survived(new, R)
  BY <1>3, <1>4, SentSurvived
<1>6. Survived(new, R)'
  <2>1. R \in 0 .. MaxRound + 1
    BY ValueFacts DEF Rounds
  <2> QED BY <1>3, <1>5, <2>1, SurvivedStays
<1>7. new \in Left(R)'
  <2>1. CASE Single(R, new)
    BY <1>3, <2>1, SingleStays DEF Left
  <2>2. CASE new = s /\ bin_values[p][R] = Bits
    <3>1. Mixed(R)'
      BY <2>2, LeftStays DEF Mixed
    <3> QED BY <1>3, <2>2, <3>1 DEF Left
  <2> QED BY <1>2, <2>1, <2>2
<1>8. \A b \in 0 .. (R + 1) - 1 : b \in 0 .. R - 1 \/ b = R
  BY ValueFacts DEF Rounds
<1> QED BY <1>3, <1>6, <1>7, <1>8 DEF Survived

LEMMA GetCoinKeeps ==
    ASSUME IInv, NEW p \in Honest, NEW s \in Bits, GetCoin(p, s) PROVE IInv' /\ Grows
<1> DEFINE lucky == values[p] = {s}
<1>1. PICK R \in Rounds : round[p] = R
  BY DEF IInv, PhasesOK, GetCoin
<1>2. /\ pc[p] = "coin" /\ coin[R] \in {None, s}
      /\ coin' = [coin EXCEPT ![R] = s]
      /\ UNCHANGED <<input, bin_values, aux_sent, conf_sent>>
      /\ NewEstimate(p, s)
  BY <1>1 DEF GetCoin
<1>3. s # None /\ R \in Nat /\ R <= MaxRound
  BY ValueFacts DEF Rounds
<1>4. values[p] \in SUBSET Bits /\ values[p] # {}
  BY <1>2 DEF IInv, TypeOK, PhasesOK
<1>5. PICK new \in Bits : new = NextEstimate(p, s)
  <2>1. Cardinality(values[p]) = 1 => NextEstimate(p, s) \in Bits
    BY <1>4, OneBit DEF NextEstimate
  <2> QED BY <2>1 DEF NextEstimate
<1>6. coin' \in [Rounds -> Bits \cup {None}] /\ coin'[R] = s
      /\ \A r \in Rounds : coin[r] # None => coin'[r] = coin[r]
  BY <1>2 DEF IInv, TypeOK
<1>7. CASE lucky /\ decided[p] = s
  <2>1. /\ pc' = [pc EXCEPT ![p] = "quit"]
        /\ UNCHANGED <<round, est, est_sent, values, decided>>
    BY <1>2, <1>7 DEF NewEstimate
  <2>2. TypeOK'
    BY <1>2, <1>6, <2>1 DEF IInv, TypeOK, Phases
  <2>3. PhasesOK'
    BY <1>2, <1>4, <2>1 DEF IInv, TypeOK, PhasesOK
  <2>4. Grows
    BY <1>2, <1>6, <2>1 DEF Grows
  <2>5. BinBacked' /\ ValuesBacked' /\ DecisionsBacked'
    BY <1>2, <2>1, <2>2, <2>4, PartsKept DEF IInv, TypeOK, ValuesBacked, DecisionsBacked
  <2> QED BY <2>1, <2>2, <2>3, <2>4, <2>5, CarriedKept DEF IInv
<1>8. CASE ~(lucky /\ decided[p] = s)
  <2>1. /\ decided' = IF lucky /\ decided[p] = None
                      THEN [decided EXCEPT ![p] = s] ELSE decided
        /\ est' = [est EXCEPT ![p] = new]
        /\ round' = [round EXCEPT ![p] = R + 1]
        /\ values' = [values EXCEPT ![p] = {}]
        /\ IF R + 1 <= MaxRound
           THEN /\ est_sent' = [est_sent EXCEPT ![p][R + 1] = @ \cup {new}]
                /\ pc' = [pc EXCEPT ![p] = "bin"]
           ELSE /\ pc' = [pc EXCEPT ![p] = "bound"]
                /\ UNCHANGED est_sent
    BY <1>1, <1>2, <1>5, <1>8 DEF NewEstimate, NextEstimate
  <2>sent. /\ est_sent' \in [Honest -> [Rounds -> SUBSET Bits]]
           /\ \A q \in Honest, b \in Rounds :
                /\ est_sent[q][b] \subseteq est_sent'[q][b]
                /\ \A w \in est_sent'[q][b] : w \in est_sent[q][b] \/ (w = new /\ b = R + 1)
    <3>1. est_sent \in [Honest -> [Rounds -> SUBSET Bits]]
      BY DEF IInv, TypeOK
    <3>2. CASE R + 1 <= MaxRound
      <4>1. R + 1 \in Rounds
        BY <1>3, <3>2, ValueFacts DEF Rounds
      <4>2. est_sent' = [est_sent EXCEPT ![p][R + 1] = @ \cup {new}]
        BY <2>1, <3>2
      <4> QED BY <3>1, <4>1, <4>2, OneMore
    <3>3. CASE ~(R + 1 <= MaxRound)
      BY <2>1, <3>1, <3>3
    <3> QED BY <3>2, <3>3
  <2>2. TypeOK'
    <3>1. /\ decided' \in [Honest -> Bits \cup {None}] /\ est' \in [Honest -> Bits \cup {None}]
          /\ pc' \in [Honest -> Phases] /\ values' \in [Honest -> SUBSET Bits]
      BY <1>5, <2>1 DEF IInv, TypeOK, Phases
    <3>2. round' \in [Honest -> 0 .. MaxRound + 1]
      BY <1>3, <2>1, ValueFacts DEF IInv, TypeOK
    <3>3. est_sent' \in [Honest -> [Rounds -> SUBSET Bits]]
      BY <2>sent
    <3>4. \A q \in Honest : est'[q] = None <=> pc'[q] = "input"
      BY <1>2, <1>5, <2>1, ValueFacts DEF IInv, TypeOK
    <3> QED BY <1>2, <1>6, <3>1, <3>2, <3>3, <3>4 DEF IInv, TypeOK
  <2>3. PhasesOK'
    <3>1. ASSUME NEW q \in Honest, q # p
          PROVE  pc'[q] = pc[q] /\ round'[q] = round[q] /\ values'[q] = values[q]
      BY <2>1, <3>1 DEF IInv, TypeOK
    <3>2. round'[p] = R + 1 /\ values'[p] = {}
          /\ pc'[p] = IF R + 1 <= MaxRound THEN "bin" ELSE "bound"
      BY <2>1 DEF IInv, TypeOK
    <3>3. R + 1 <= MaxRound => R + 1 \in Rounds
      BY <1>3, ValueFacts DEF Rounds
    <3>4. \A r \in Rounds : r < R \/ r = R => r < R + 1
      BY <1>3, ValueFacts DEF Rounds
    <3> QED BY <1>1, <1>2, <3>1, <3>2, <3>3, <3>4 DEF IInv, PhasesOK
  <2>4. Grows
    BY <1>2, <1>6, <2>sent DEF Grows
  <2>5. BinBacked'
    BY <1>2, <2>2, <2>4, PartsKept
  <2>6. ValuesBacked'
    <3>1. ASSUME NEW q \in Honest, q # p PROVE ValuesOf(q)'
      <4>1. values'[q] = values[q] /\ round'[q] = round[q]
        BY <2>1, <3>1 DEF IInv, TypeOK
      <4> QED BY <2>2, <2>4, <4>1, PartsKept
    <3>2. ValuesOf(p)'
      <4>1. values'[p] = {}
        BY <2>1 DEF IInv, TypeOK
      <4> QED BY <4>1, BitFacts DEF ValuesOf
    <3> QED BY <3>1, <3>2 DEF ValuesBacked
  <2>7. Survived(new, R + 1)'
    BY <1>1, <1>2, <1>5, <1>6, <2>2, <2>4, EstimateSurvives
  <2>8. Carried'
    <3>1. ASSUME NEW q \in Honest, NEW r \in Rounds, NEW v \in est_sent'[q][r]
          PROVE  Survived(v, r)'
      <4>1. CASE v \in est_sent[q][r]
        BY <2>2, <2>4, <4>1, PartsKept
      <4>2. CASE v \notin est_sent[q][r]
        <5>1. v = new /\ r = R + 1
          BY <2>sent, <3>1, <4>2
        <5> QED BY <2>7, <5>1
      <4> QED BY <4>1, <4>2
    <3>2. ASSUME NEW q \in Honest, est'[q] # None PROVE Survived(est[q], round[q])'
      <4>1. CASE q = p
        <5>1. est'[p] = new /\ round'[p] = R + 1
          BY <2>1 DEF IInv, TypeOK
        <5> QED BY <2>7, <4>1, <5>1 DEF Survived
      <4>2. CASE q # p
        <5>1. est'[q] = est[q] /\ round'[q] = round[q]
          BY <2>1, <4>2 DEF IInv, TypeOK
        <5> QED BY <2>2, <2>4, <3>2, <5>1, PartsKept
      <4> QED BY <4>1, <4>2
    <3> QED BY <3>1, <3>2 DEF Carried
  <2>9. DecisionsBacked'
    <3>1. ASSUME NEW q \in Honest, decided'[q] = decided[q] PROVE DecisionOf(q)'
      <4>1. round[q] \in Nat /\ round'[q] \in Nat /\ round'[q] >= round[q]
        BY <1>1, <1>3, <2>1, ValueFacts DEF IInv, TypeOK
      <4> QED BY <2>2, <2>4, <3>1, <4>1, PartsKept
    <3>2. ASSUME decided'[p] # decided[p] PROVE DecisionOf(p)'
      <4>1. decided'[p] = s /\ lucky /\ round'[p] = R + 1
        BY <2>1, <3>2 DEF IInv, TypeOK
      <4>2. Single(R, s)
        BY <1>1, <4>1 DEF IInv, ValuesBacked, ValuesOf
      <4>3. Single(R, s)'
        BY <2>4, <4>2, SingleStays
      <4>4. R < R + 1
        BY <1>3
      <4> QED BY <1>6, <4>1, <4>3, <4>4 DEF DecisionOf
    <3>3. \A q \in Honest : q # p => decided'[q] = decided[q]
      BY <2>1 DEF IInv, TypeOK
    <3> QED BY <3>1, <3>2, <3>3 DEF DecisionsBacked
  <2> QED BY <2>2, <2>3, <2>4, <2>5, <2>6, <2>8, <2>9 DEF IInv
<1> QED BY <1>7, <1>8

-----------------------------------------------------------------------------
LEMMA IInvInit == Init => IInv
<1> SUFFICES ASSUME Init PROVE IInv
  OBVIOUS
<1> USE DEF Init
<1>1. TypeOK
  BY BitFacts DEF TypeOK, Phases
<1>2. PhasesOK
  BY BitFacts DEF PhasesOK
<1>3. BinBacked /\ ValuesBacked
  BY BitFacts DEF BinBacked, ValuesBacked, ValuesOf
<1>4. Carried /\ DecisionsBacked
  BY DEF Carried, DecisionsBacked, DecisionOf
<1> QED BY <1>1, <1>2, <1>3, <1>4 DEF IInv

LEMMA IInvStep == IInv /\ [Next]_vars => IInv' /\ Grows
<1> SUFFICES ASSUME IInv, [Next]_vars PROVE IInv' /\ Grows
  OBVIOUS
<1>1. ASSUME NEW p \in Honest, NEW vi \in Inputs[p], Start(p, vi) PROVE IInv' /\ Grows
  BY <1>1, StartKeeps
<1>2. ASSUME NEW p \in Honest, NEW r \in Rounds, NEW v \in Bits,
             NEW held \in {F + 1, 2 * F + 1}, RecvEst(p, r, v, held)
      PROVE IInv' /\ Grows
  BY <1>2, RecvEstKeeps
<1>3. ASSUME NEW p \in Honest, SendAux(p) PROVE IInv' /\ Grows
  BY <1>3, SendAuxKeeps
<1>4. ASSUME NEW p \in Honest, SendConf(p) PROVE IInv' /\ Grows
  BY <1>4, SendConfKeeps
<1>5. ASSUME NEW p \in Honest, NEW vals \in SUBSET Bits, CallCoin(p, vals) PROVE IInv' /\ Grows
  BY <1>5, CallCoinKeeps
<1>6. ASSUME NEW p \in Honest, NEW s \in Bits, GetCoin(p, s) PROVE IInv' /\ Grows
  BY <1>6, GetCoinKeeps
<1>7. CASE UNCHANGED vars
  <2> USE <1>7 DEF vars
  <2>1. TypeOK'
    BY DEF IInv, TypeOK
  <2>2. PhasesOK'
    BY DEF IInv, PhasesOK
  <2>3. Grows
    BY DEF Grows
  <2>4. BinBacked' /\ ValuesBacked' /\ DecisionsBacked'
    BY <2>1, <2>3, PartsKept DEF IInv, TypeOK, ValuesBacked, DecisionsBacked
  <2> QED BY <2>1, <2>2, <2>3, <2>4, CarriedKept DEF IInv
<1> QED BY <1>1, <1>2, <1>3, <1>4, <1>5, <1>6, <1>7 DEF Next

\* What decisions and estimates rest on: bits that won a round, or that its coin showed,
\* back to the input of an honest party.
THEOREM AgreementInvariant == Spec => []IInv
BY IInvInit, IInvStep, PTL DEF Spec

\* The variables of binaryagreement() keep their types: sets of bits, and at most one
\* bit decided.
THEOREM TypeCorrect == Spec => []TypeOK
<1>1. IInv => TypeOK
  BY DEF IInv
<1> QED BY <1>1, AgreementInvariant, PTL

\* Honest parties decide the same bit, in whatever rounds they do: whatever faulty
\* parties send, whatever the coins show, and however far parties are apart.
THEOREM AgreementHolds == Spec => []Agreement
BY AgreementInvariant, DecisionsAgree, PTL

\* After a decision every estimate of a later round is the decided bit (the comment in
\* set_new_estimate).
THEOREM LockedHolds == Spec => []Locked
BY AgreementInvariant, EstimatesLocked, PTL

\* The CONF waits of one round do not end with two different single bits.
THEOREM SingleConfHolds == Spec => []SingleConf
BY AgreementInvariant, ConfsSingle, PTL

\* Faulty parties bring in no bit that is not the input of an honest party.
THEOREM ValidityHolds == Spec => []Validity
BY AgreementInvariant, BitsValid, PTL

-----------------------------------------------------------------------------
(* The refinement: without messages, rounds and coins a binary agreement   *)
(* is AgreementService.                                                    *)

\* A party that takes part has its input.
InputGiven == \A p \in Honest : input[p] = None => pc[p] = "input"

LEMMA InputGivenStep ==
    ASSUME IInv, InputGiven, [Next]_vars
    PROVE  InputGiven'
<1> USE DEF InputGiven, IInv, TypeOK
<1>1. ASSUME NEW p \in Honest, NEW vi \in Inputs[p], Start(p, vi) PROVE InputGiven'
  <2>1. vi # None
    BY ValueAssumption
  <2>2. input' = [input EXCEPT ![p] = vi] /\ pc' = [pc EXCEPT ![p] = "bin"]
    BY <1>1 DEF Start
  <2> QED BY <2>1, <2>2
<1>2. ASSUME NEW p \in Honest,
             \/ \E r \in Rounds, v \in Bits, held \in {F + 1, 2 * F + 1} : RecvEst(p, r, v, held)
             \/ SendAux(p) \/ SendConf(p)
             \/ \E vals \in SUBSET Bits : CallCoin(p, vals)
             \/ \E s \in Bits : GetCoin(p, s)
      PROVE  input' = input /\ \A q \in Honest : pc[q] = "input" => pc'[q] = "input"
  BY <1>2 DEF RecvEst, SendAux, SendConf, CallCoin, GetCoin, NewEstimate
<1>3. CASE UNCHANGED vars
  BY <1>3 DEF vars
<1> QED BY <1>1, <1>2, <1>3 DEF Next

\* The coin of a round settles a decision: a bit of an honest input, and the one
\* that all have who have decided.
LEMMA CoinIsService ==
    ASSUME IInv, IInv', InputGiven, NEW p \in Honest, NEW s \in Bits, GetCoin(p, s)
    PROVE  Service!Next \/ UNCHANGED Service!svars
<1>1. /\ NewEstimate(p, s) /\ input' = input /\ pc[p] = "coin"
  BY DEF GetCoin
<1>2. \/ decided' = decided
      \/ decided[p] = None /\ decided' = [decided EXCEPT ![p] = s]
  BY <1>1 DEF NewEstimate
<1>3. CASE decided' = decided
  BY <1>1, <1>3 DEF Service!svars
<1>4. CASE decided[p] = None /\ decided' = [decided EXCEPT ![p] = s]
  <2>1. decided'[p] = s /\ s # None
    BY <1>4, ValueFacts DEF IInv, TypeOK
  <2>2. Agreement' /\ Validity'
    <3>1. IInv' => Agreement'
      BY DecisionsAgree, PTL
    <3>2. IInv' => Validity'
      BY BitsValid, PTL
    <3> QED BY <3>1, <3>2
  <2>3. \E q \in Honest : input[q] = s
    BY <1>1, <2>1, <2>2 DEF Validity
  <2>4. ASSUME NEW q \in Honest PROVE decided[q] \in {None, s}
    <3>1. q # p => decided'[q] = decided[q]
      BY <1>4 DEF IInv, TypeOK
    <3> QED BY <1>4, <2>1, <2>2, <3>1 DEF Agreement
  <2>5. input[p] # None
    BY <1>1 DEF InputGiven
  <2>6. Service!Decide(p, s)
    BY <1>1, <1>4, <2>3, <2>4, <2>5 DEF Service!Decide
  <2> QED BY <2>6 DEF Service!Next
<1> QED BY <1>2, <1>3, <1>4

\* binaryagreement() implements the service: each step is a proposal, a decision of
\* the one bit, or invisible, whatever faulty parties send and coins show.
THEOREM AgreementImplements == Spec => ImplementsAgreement
<1>1. Init => IInv /\ InputGiven /\ Service!Init
  BY IInvInit DEF Init, InputGiven, Service!Init
<1>2. IInv /\ InputGiven /\ [Next]_vars => IInv' /\ InputGiven'
  BY IInvStep, InputGivenStep
<1>3. IInv /\ IInv' /\ InputGiven /\ [Next]_vars => [Service!Next]_(Service!svars)
  <2> SUFFICES ASSUME IInv, IInv', InputGiven, [Next]_vars
               PROVE  Service!Next \/ UNCHANGED Service!svars
    OBVIOUS
  <2>1. ASSUME NEW p \in Honest, NEW vi \in Inputs[p], Start(p, vi) PROVE Service!Next
    <3>1. vi \in Bits /\ input[p] = None
      BY <2>1, ValueAssumption DEF Start, IInv, PhasesOK
    <3>2. Service!Propose(p, vi)
      BY <2>1, <3>1 DEF Start, Service!Propose
    <3> QED BY <3>1, <3>2 DEF Service!Next
  <2>2. ASSUME NEW p \in Honest,
               \/ \E r \in Rounds, v \in Bits, held \in {F + 1, 2 * F + 1} : RecvEst(p, r, v, held)
               \/ SendAux(p) \/ SendConf(p)
               \/ \E vals \in SUBSET Bits : CallCoin(p, vals)
        PROVE  UNCHANGED Service!svars
    BY <2>2 DEF RecvEst, SendAux, SendConf, CallCoin, Service!svars
  <2>3. CASE UNCHANGED vars
    BY <2>3 DEF vars, Service!svars
  <2> QED BY <2>1, <2>2, <2>3, CoinIsService DEF Next
<1> QED BY <1>1, <1>2, <1>3, PTL DEF Spec, ImplementsAgreement, Service!Spec

-----------------------------------------------------------------------------
(* A round is bound to one bit by the CONFs of N - F parties, whatever     *)
(* faulty parties send.  The coin comes later than these unless a faulty   *)
(* party is counted more than once in a wait.                              *)

\* A CONF for one bit rests on the AUX of N - F parties for it.
ConfFromAux == \A p \in Honest, r \in Rounds, v \in Bits :
    conf_sent[p][r] = {v} => SingleWait(AuxVotes(r, v), Cardinality(Faulty))

\* Whoever has released a share of the coin has CONFs of N - F parties.
Confs(r, c)   == {p \in Honest : conf_sent[p][r] = c}
Confirmers(r) == {p \in Honest : conf_sent[p][r] # {}}
Heard(r)      == Cardinality(Confirmers(r)) + Cardinality(Faulty) >= N - F
CallersHeard  == \A r \in Rounds : CoinCallers(r) # {} => Heard(r)

ConfInv == IInv /\ ConfFromAux
CoinInv == ConfInv /\ CallersHeard

\* When N - F parties may have sent CONF, at most one bit can still win the round.
BoundByConfs == \A r \in Rounds : Heard(r) => \E v \in Bits : ~StillOpen(r, v)

LEMMA NotBothConfirmed ==
    ASSUME ConfFromAux, NEW p \in Honest, NEW q \in Honest, NEW r \in Rounds,
           NEW v \in Bits, NEW w \in Bits, conf_sent[p][r] = {v}, conf_sent[q][r] = {w}
    PROVE  v = w
<1> DEFINE A == {s \in Honest : aux_sent[s][r] = v}
           B == {s \in Honest : aux_sent[s][r] = w}
<1>1. A \in SUBSET Honest /\ B \in SUBSET Honest
  OBVIOUS
<1>2. Cardinality(A) + Cardinality(Faulty) >= N - F /\ Cardinality(B) + Cardinality(Faulty) >= N - F
  BY DEF ConfFromAux, SingleWait, AuxVotes
<1>3. A \cap B # {}
  <2> HIDE DEF A, B
  <2> QED BY <1>1, <1>2, QuorumsMeet
<1> QED BY <1>3

LEMMA ConfsBind == ConfInv => BoundByConfs
<1> SUFFICES ASSUME ConfInv, NEW r \in Rounds, Heard(r)
             PROVE  \E v \in Bits : ~StillOpen(r, v)
  BY DEF BoundByConfs
<1>1. PICK v \in Bits : \A p \in Honest : conf_sent[p][r] # {v}
  <2>1. CASE \E p \in Honest : conf_sent[p][r] = {0}
    BY <2>1, NotBothConfirmed, BitFacts DEF ConfInv
  <2>2. CASE \A p \in Honest : conf_sent[p][r] # {0}
    BY <2>2, BitFacts
  <2> QED BY <2>1, <2>2
<1> DEFINE S == {p \in Honest : conf_sent[p][r] \in {{}, {v}}}
<1>2. S \cap Confirmers(r) = {} /\ S \in SUBSET Honest /\ Confirmers(r) \in SUBSET Honest
  BY <1>1 DEF Confirmers
<1>3. StillOpen(r, v) <=> Cardinality(S) + Cardinality(Faulty) >= N - F
  BY DEF StillOpen
<1> HIDE DEF S
<1>4. Cardinality(S) + Cardinality(Confirmers(r)) <= Cardinality(Honest)
  BY <1>2, Apart
<1>5. Cardinality(S) \in Nat /\ Cardinality(Confirmers(r)) \in Nat
  BY <1>2, HonestSize
<1>7. ~StillOpen(r, v)
  BY <1>3, <1>4, <1>5, Sizes DEF Heard
<1> QED BY <1>7

\* A CONF wait that has ended.
LEMMA ConfsHeard ==
    ASSUME IInv, ~Equivocate, NEW p \in Honest, NEW r \in Rounds, round[p] = r,
           NEW vals \in SUBSET Bits, ConfDone(p, vals, Cardinality(Faulty))
    PROVE  Heard(r)
<1> DEFINE H(c) == Confs(r, c)
           f    == Cardinality(Faulty)
<1>1. Confirmers(r) \in SUBSET Honest
  BY DEF Confirmers
<1>2. \A c : H(c) \in SUBSET Honest /\ Cardinality(H(c)) \in Nat
  <2>1. ASSUME NEW c PROVE H(c) \in SUBSET Honest
    BY DEF Confs
  <2> QED BY <2>1, HonestSize
<1>3. Cardinality(Confirmers(r)) \in Nat
  BY <1>1, HonestSize
<1>4. CASE \E v \in Bits : SingleWait(ConfVotes(r, {v}), f)
  <2>1. PICK v \in Bits : Cardinality(H({v})) + f >= N - F
    BY <1>4 DEF SingleWait, ConfVotes, Confs
  <2>2. H({v}) \subseteq Confirmers(r)
    BY DEF Confirmers, Confs
  <2>3. Cardinality(H({v})) <= Cardinality(Confirmers(r))
    BY <1>1, <1>2, <2>2, Larger
  <2> QED BY <1>2, <1>3, <2>1, <2>3, Sizes DEF Heard
<1>5. CASE MixedWait(ConfVotes(r, {0}), ConfVotes(r, {1}), ConfVotes(r, Bits), f, TRUE)
  <2>1. /\ ConfVotes(r, {0}) = Cardinality(H({0})) /\ ConfVotes(r, {1}) = Cardinality(H({1}))
        /\ ConfVotes(r, Bits) = Cardinality(H(Bits))
    BY DEF ConfVotes, Confs
  <2>2. Cardinality(H({0})) + Cardinality(H({1})) + Cardinality(H(Bits)) + f >= N - F
    <3> DEFINE h0  == Cardinality(H({0}))
               h1  == Cardinality(H({1}))
               h01 == Cardinality(H(Bits))
    <3>1. MixedWait(h0, h1, h01, f, TRUE)
      BY <1>5, <2>1
    <3>2. h0 \in Nat /\ h1 \in Nat /\ h01 \in Nat /\ f \in Nat
      BY <1>2, Sizes
    <3> HIDE DEF h0, h1, h01, f
    <3>3. PICK c0 \in 0 .. N - F - 1, c1 \in 0 .. N - F - 1 :
             c0 + c1 + (h01 + (f - Borrowed(c0, h0) - Borrowed(c1, h1))) >= N - F
      BY <3>1 DEF MixedWait
    <3>4. c0 - Borrowed(c0, h0) <= h0 /\ c1 - Borrowed(c1, h1) <= h1
          /\ Borrowed(c0, h0) \in Int /\ Borrowed(c1, h1) \in Int
      BY <3>2, Sizes DEF Borrowed
    <3>5. h0 + h1 + h01 + f >= N - F
      BY <3>2, <3>3, <3>4, Sizes
    <3> QED BY <3>5 DEF h0, h1, h01
  <2>3. Cardinality(H({0}) \cup H({1})) = Cardinality(H({0})) + Cardinality(H({1}))
    <3>1. H({0}) \cap H({1}) = {}
      BY DEF Confs
    <3> QED BY <1>2, <3>1, Apart
  <2>4. Cardinality((H({0}) \cup H({1})) \cup H(Bits))
          = Cardinality(H({0}) \cup H({1})) + Cardinality(H(Bits))
    <3>1. (H({0}) \cup H({1})) \cap H(Bits) = {}
      BY BitFacts DEF Confs
    <3>2. H({0}) \cup H({1}) \in SUBSET Honest /\ H(Bits) \in SUBSET Honest
      BY <1>2
    <3> QED BY <3>1, <3>2, Apart
  <2>5. (H({0}) \cup H({1})) \cup H(Bits) \subseteq Confirmers(r)
    BY BitFacts DEF Confirmers, Confs
  <2>6. Cardinality((H({0}) \cup H({1})) \cup H(Bits)) <= Cardinality(Confirmers(r))
    BY <1>1, <1>2, <2>5, Larger
  <2> QED BY <1>2, <1>3, <2>2, <2>3, <2>4, <2>6, Sizes DEF Heard
<1>6. bin_values[p][r] \in SUBSET Bits
  BY DEF IInv, TypeOK
<1> QED BY <1>4, <1>5, <1>6 DEF ConfDone

LEMMA HeardStays == ASSUME Grows, NEW r \in Rounds, Heard(r) PROVE Heard(r)'
<1>1. Confirmers(r) \in SUBSET Honest /\ Confirmers(r)' \in SUBSET Honest
      /\ Confirmers(r) \subseteq Confirmers(r)'
  BY DEF Confirmers, Grows
<1>2. /\ Cardinality(Confirmers(r)) <= Cardinality(Confirmers(r)')
      /\ Cardinality(Confirmers(r)) \in Nat /\ Cardinality(Confirmers(r)') \in Nat
  BY <1>1, Larger, HonestSize
<1> QED BY <1>2, Sizes DEF Heard

\* What happens to the callers of a coin, and to CONFs and AUXs.
LEMMA CallersStep ==
    ASSUME IInv, [Next]_vars, NEW p \in Honest, NEW r \in Rounds, p \in CoinCallers(r)'
    PROVE  \/ p \in CoinCallers(r)
           \/ round[p] = r /\ \E vals \in SUBSET Bits : ConfDone(p, vals, Cardinality(Faulty))
<1>1. round[p] \in Int
  BY ValueFacts DEF IInv, TypeOK
<1>2. ASSUME NEW q \in Honest, NEW vals \in SUBSET Bits, CallCoin(q, vals)
      PROVE  \/ p \in CoinCallers(r)
             \/ round[p] = r /\ ConfDone(p, vals, Cardinality(Faulty))
  BY <1>2 DEF CallCoin, CoinCallers, IInv, TypeOK
<1>3. ASSUME NEW q \in Honest, NEW s \in Bits, GetCoin(q, s) PROVE p \in CoinCallers(r)
  <2>1. pc[q] = "coin"
    BY <1>3 DEF GetCoin
  <2>2. \/ round' = round /\ pc' = [pc EXCEPT ![q] = "quit"]
        \/ /\ round' = [round EXCEPT ![q] = @ + 1]
           /\ pc'[q] \in {"bin", "bound"}
           /\ \A x \in Honest : x # q => pc'[x] = pc[x]
    BY <1>3 DEF GetCoin, NewEstimate, IInv, TypeOK
  <2>3. p = q => round[p] > r \/ round[p] = r
    BY <1>1, <2>2, ValueFacts DEF CoinCallers, IInv, TypeOK, Rounds
  <2> QED BY <2>1, <2>2, <2>3 DEF CoinCallers, IInv, TypeOK
<1>4. CASE UNCHANGED <<round, pc>>
  BY <1>4 DEF CoinCallers
<1>5. ASSUME NEW q \in Honest, UNCHANGED round, NEW to \in {"bin", "aux", "conf"},
             pc' = [pc EXCEPT ![q] = to]
      PROVE  p \in CoinCallers(r)
  BY <1>5 DEF CoinCallers, IInv, TypeOK
<1>6. ASSUME NEW q \in Honest, NEW vi, Start(q, vi) PROVE p \in CoinCallers(r)
  BY <1>5, <1>6 DEF Start
<1>7. ASSUME NEW q \in Honest, SendAux(q) \/ SendConf(q) PROVE p \in CoinCallers(r)
  BY <1>5, <1>7 DEF SendAux, SendConf
<1>8. ASSUME NEW q \in Honest, NEW b \in Rounds, NEW v, NEW held, RecvEst(q, b, v, held)
      PROVE  p \in CoinCallers(r)
  <2>1. UNCHANGED <<round, pc>>
    BY <1>8 DEF RecvEst
  <2> QED BY <2>1 DEF CoinCallers
<1>9. CASE UNCHANGED vars
  BY <1>4, <1>9 DEF vars
<1> QED BY <1>2, <1>3, <1>6, <1>7, <1>8, <1>9 DEF Next
LEMMA ConfsStep ==
    ASSUME IInv, [Next]_vars, NEW p \in Honest, NEW r \in Rounds
    PROVE  /\ conf_sent'[p][r] # conf_sent[p][r] =>
                 /\ conf_sent'[p][r] = bin_values[p][r]
                 /\ round[p] = r /\ AuxDone(p, Cardinality(Faulty))
           /\ aux_sent[p][r] # None => aux_sent'[p][r] = aux_sent[p][r]
<1>1. ASSUME NEW q \in Honest, SendConf(q)
      PROVE  /\ conf_sent'[p][r] # conf_sent[p][r] =>
                   /\ conf_sent'[p][r] = bin_values[p][r]
                   /\ round[p] = r /\ AuxDone(p, Cardinality(Faulty))
             /\ aux_sent' = aux_sent
  BY <1>1 DEF SendConf, IInv, TypeOK
<1>2. ASSUME NEW q \in Honest, SendAux(q)
      PROVE  /\ conf_sent' = conf_sent
             /\ aux_sent[p][r] # None => aux_sent'[p][r] = aux_sent[p][r]
  <2>1. pc[q] = "bin" /\ round[q] \in Rounds
    BY <1>2 DEF SendAux, IInv, PhasesOK
  <2>2. ~(round[q] < round[q])
    BY <2>1, ValueFacts DEF Rounds
  <2>3. aux_sent[q][round[q]] = None
    BY <2>1, <2>2 DEF IInv, PhasesOK
  <2> QED BY <1>2, <2>3 DEF SendAux, IInv, TypeOK
<1>3. CASE UNCHANGED <<conf_sent, aux_sent>>
  BY <1>3
<1>4. ASSUME NEW q \in Honest, NEW vi, Start(q, vi) PROVE UNCHANGED <<conf_sent, aux_sent>>
  BY <1>4 DEF Start
<1>5. ASSUME NEW q \in Honest, NEW b, NEW v, NEW held, RecvEst(q, b, v, held)
      PROVE  UNCHANGED <<conf_sent, aux_sent>>
  BY <1>5 DEF RecvEst
<1>6. ASSUME NEW q \in Honest, NEW vals, CallCoin(q, vals) PROVE UNCHANGED <<conf_sent, aux_sent>>
  BY <1>6 DEF CallCoin
<1>7. ASSUME NEW q \in Honest, NEW s, GetCoin(q, s) PROVE UNCHANGED <<conf_sent, aux_sent>>
  BY <1>7 DEF GetCoin
<1>8. CASE UNCHANGED vars
  BY <1>8 DEF vars
<1> QED BY <1>1, <1>2, <1>3, <1>4, <1>5, <1>6, <1>7, <1>8 DEF Next

LEMMA ConfInvStep == ConfInv /\ [Next]_vars => ConfInv'
<1> SUFFICES ASSUME ConfInv, [Next]_vars PROVE ConfInv'
  OBVIOUS
<1>1. IInv /\ ConfFromAux
  BY DEF ConfInv
<1>2. IInv' /\ Grows
  BY <1>1, IInvStep
<1>3. ASSUME NEW p \in Honest, NEW r \in Rounds, NEW v \in Bits, conf_sent'[p][r] = {v}
      PROVE  SingleWait(AuxVotes(r, v), Cardinality(Faulty))'
  <2> DEFINE A == {q \in Honest : aux_sent[q][r] = v}
             B == {q \in Honest : aux_sent'[q][r] = v}
  <2>1. SingleWait(AuxVotes(r, v), Cardinality(Faulty))
    <3>1. CASE conf_sent[p][r] = {v}
      BY <1>1, <3>1 DEF ConfFromAux
    <3>2. CASE conf_sent[p][r] # {v}
      <4>1. bin_values[p][r] = {v} /\ round[p] = r /\ AuxDone(p, Cardinality(Faulty))
        BY <1>1, <1>3, <3>2, ConfsStep
      <4>2. bin_values[p][r] # Bits
        BY <4>1, BitFacts
      <4> QED BY <4>1, <4>2 DEF AuxDone
    <3> QED BY <3>1, <3>2
  <2>2. A \in SUBSET Honest /\ B \in SUBSET Honest /\ A \subseteq B
    BY <1>1, ConfsStep, ValueFacts
  <2>3. Cardinality(A) + Cardinality(Faulty) >= N - F
    BY <2>1 DEF SingleWait, AuxVotes
  <2>4. SingleWait(AuxVotes(r, v), Cardinality(Faulty))' <=> Cardinality(B) + Cardinality(Faulty) >= N - F
    BY DEF SingleWait, AuxVotes
  <2> HIDE DEF A, B
  <2>5. Cardinality(A) <= Cardinality(B) /\ Cardinality(A) \in Nat /\ Cardinality(B) \in Nat
    BY <2>2, Larger, HonestSize
  <2> QED BY <2>3, <2>4, <2>5, Sizes
<1> QED BY <1>2, <1>3 DEF ConfInv, ConfFromAux

LEMMA CoinInvStep == ~Equivocate /\ CoinInv /\ [Next]_vars => CoinInv'
<1> SUFFICES ASSUME ~Equivocate, CoinInv, [Next]_vars PROVE CoinInv'
  OBVIOUS
<1>1. IInv /\ ConfInv /\ CallersHeard
  BY DEF CoinInv, ConfInv
<1>2. IInv' /\ Grows
  BY <1>1, IInvStep
<1>3. ConfInv'
  BY <1>1, ConfInvStep
<1>4. ASSUME NEW r \in Rounds, CoinCallers(r)' # {} PROVE Heard(r)'
  <2>1. PICK p \in Honest : p \in CoinCallers(r)'
    BY <1>4 DEF CoinCallers
  <2>2. CASE p \in CoinCallers(r)
    <3>1. Heard(r)
      BY <1>1, <2>2 DEF CallersHeard
    <3> QED BY <1>2, <3>1, HeardStays
  <2>3. CASE round[p] = r /\ \E vals \in SUBSET Bits : ConfDone(p, vals, Cardinality(Faulty))
    <3>1. Heard(r)
      BY <1>1, <2>3, ConfsHeard
    <3> QED BY <1>2, <3>1, HeardStays
  <2> QED BY <1>1, <2>1, <2>2, <2>3, CallersStep
<1> QED BY <1>3, <1>4 DEF CoinInv, CallersHeard

LEMMA ConfInvInit == Init => ConfInv
<1> SUFFICES ASSUME Init PROVE ConfInv
  OBVIOUS
<1>1. ConfFromAux
  BY BitFacts DEF Init, ConfFromAux
<1> QED BY <1>1, IInvInit DEF ConfInv

\* Once N - F parties may have sent the CONFs of a round, counting each faulty party
\* once, at most one bit can still win the round: for any number of parties, and
\* whatever values faulty parties send, one or several (the CONF phase of the loop).
THEOREM BoundByConfsHolds == Spec => []BoundByConfs
<1> QED BY ConfInvInit, ConfInvStep, ConfsBind, PTL DEF Spec

\* So, where a faulty party is counted once in each wait, the round is bound when its
\* coin can first be learnt.  (Where it is counted twice, this fails.)
COROLLARY CoinBindingIfCountedOnce == ~Equivocate => (Spec => []CoinBinding)
<1> SUFFICES ASSUME ~Equivocate PROVE Spec => []CoinBinding
  OBVIOUS
<1>1. Init => CoinInv
  <2> SUFFICES ASSUME Init PROVE CoinInv
    OBVIOUS
  <2>1. \A r \in Rounds : CoinCallers(r) = {}
    BY ValueFacts DEF Init, CoinCallers, Rounds
  <2> QED BY <2>1, ConfInvInit DEF CoinInv, CallersHeard
<1>2. CoinInv /\ [Next]_vars => CoinInv'
  BY CoinInvStep
<1>3. CoinInv => CoinBinding
  BY ConfsBind DEF CoinInv, CallersHeard, BoundByConfs, CoinBinding
<1> QED BY <1>1, <1>2, <1>3, PTL DEF Spec

-----------------------------------------------------------------------------
(* The messages of honest parties are enough until somebody has quit.      *)

\* What a party has sent when it has come to a point of a round, and what a bit in
\* bin_values stands for.
EstsSent == \A p \in Honest, r \in Rounds :
    r <= round[p] /\ pc[p] # "input" => est_sent[p][r] # {}

AuxesSent == \A p \in Honest, r \in Rounds :
    (r < round[p] \/ (r = round[p] /\ pc[p] \in {"aux", "conf", "coin", "quit"}))
        => aux_sent[p][r] \in bin_values[p][r]

ConfsSent == \A p \in Honest, r \in Rounds :
    (r < round[p] \/ (r = round[p] /\ pc[p] \in {"conf", "coin", "quit"}))
        => conf_sent[p][r] # {}

BinsSupported == \A p \in Honest, r \in Rounds :
    \A v \in bin_values[p][r] : EstVotes(r, v, 0) >= F + 1

CoinShown == \A r \in Rounds : coin[r] \in CoinBits[r] \cup {None}

SentInv == IInv /\ EstsSent /\ AuxesSent /\ ConfsSent /\ BinsSupported /\ CoinShown

LEMMA VotesStay ==
    ASSUME Grows, NEW r \in Rounds, NEW v, EstVotes(r, v, 0) >= F + 1
    PROVE  EstVotes(r, v, 0)' >= F + 1
<1> DEFINE A == {p \in Honest : v \in est_sent[p][r]}
           B == {p \in Honest : v \in est_sent'[p][r]}
<1>1. A \in SUBSET Honest /\ B \in SUBSET Honest /\ A \subseteq B
  BY DEF Grows
<1>2. EstVotes(r, v, 0) = Cardinality(A) + 0 /\ EstVotes(r, v, 0)' = Cardinality(B) + 0
  BY DEF EstVotes
<1> HIDE DEF A, B
<1>3. Cardinality(A) <= Cardinality(B) /\ Cardinality(A) \in Nat /\ Cardinality(B) \in Nat
  BY <1>1, Larger, HonestSize
<1> QED BY <1>2, <1>3, Sizes

LEMMA BinsKept ==
    ASSUME BinsSupported, Grows, UNCHANGED bin_values PROVE BinsSupported'
<1> SUFFICES ASSUME NEW p \in Honest, NEW r \in Rounds, NEW v \in bin_values[p][r]
             PROVE  EstVotes(r, v, 0)' >= F + 1
  BY DEF BinsSupported
<1> QED BY VotesStay DEF BinsSupported

\* A step that moves one party on within its round.
LEMMA MovesOn ==
    ASSUME SentInv, IInv', Grows, NEW p \in Honest, NEW to \in Phases,
           pc' = [pc EXCEPT ![p] = to], pc[p] # "input", UNCHANGED <<round, est_sent, bin_values>>
    PROVE  EstsSent' /\ BinsSupported'
<1>1. EstsSent'
  BY DEF SentInv, IInv, TypeOK, EstsSent
<1>2. BinsSupported'
  BY BinsKept DEF SentInv
<1> QED BY <1>1, <1>2

LEMMA StartSent ==
    ASSUME SentInv, NEW p \in Honest, NEW vi \in Inputs[p], Start(p, vi)
    PROVE  SentInv'
<1> USE DEF Start
<1>1. IInv /\ IInv' /\ Grows
  BY StartKeeps DEF SentInv
<1>2. round[p] = 0
  BY <1>1 DEF IInv, PhasesOK
<1>3. EstsSent'
  <2>1. ASSUME NEW r \in Rounds, r <= 0 PROVE est_sent'[p][r] # {}
    <3>1. r = 0
      BY <2>1, ValueFacts DEF Rounds
    <3> QED BY <1>1, <3>1 DEF IInv, TypeOK
  <2>2. ASSUME NEW q \in Honest, q # p PROVE pc'[q] = pc[q] /\ est_sent'[q] = est_sent[q]
    BY <1>1, <2>2 DEF IInv, TypeOK
  <2> QED BY <1>2, <2>1, <2>2 DEF EstsSent, SentInv
<1>4. AuxesSent' /\ ConfsSent'
  BY <1>1, <1>2 DEF SentInv, AuxesSent, ConfsSent, IInv, TypeOK
<1>5. BinsSupported'
  BY <1>1, BinsKept DEF SentInv
<1>6. CoinShown'
  BY DEF SentInv, CoinShown
<1> QED BY <1>1, <1>3, <1>4, <1>5, <1>6 DEF SentInv

LEMMA RecvEstSent ==
    ASSUME SentInv, NEW p \in Honest, NEW r \in Rounds, NEW v \in Bits,
           NEW held \in {F + 1, 2 * F + 1}, RecvEst(p, r, v, held)
    PROVE  SentInv'
<1> USE DEF RecvEst
<1>1. IInv /\ IInv' /\ Grows
  BY RecvEstKeeps DEF SentInv
<1>2. EstsSent' /\ AuxesSent' /\ ConfsSent'
  BY <1>1 DEF SentInv, EstsSent, AuxesSent, ConfsSent, Grows
<1>3. BinsSupported'
  <2> SUFFICES ASSUME NEW q \in Honest, NEW b \in Rounds, NEW w \in bin_values'[q][b]
               PROVE  EstVotes(b, w, 0)' >= F + 1
    BY DEF BinsSupported
  <2>1. CASE w \in bin_values[q][b]
    BY <1>1, <2>1, VotesStay DEF SentInv, BinsSupported
  <2>2. CASE w \notin bin_values[q][b]
    <3>1. b = r /\ w = v /\ held >= 2 * F + 1
      BY <1>1, <2>2 DEF IInv, TypeOK, Accepted
    <3> DEFINE A == {s \in Honest : v \in est_sent[s][r]}
    <3>2. EstVotes(r, v, 0) = Cardinality(A) + 0 /\ Cardinality(A) + Cardinality(Faulty) >= held
          /\ Cardinality(A) \in Nat
      <4>1. Cardinality(A) \in Nat
        BY HonestSize
      <4> QED BY <4>1, Sizes DEF EstVotes
    <3> HIDE DEF A
    <3>3. EstVotes(r, v, 0) >= F + 1
      BY <3>1, <3>2, Sizes
    <3> QED BY <1>1, <3>1, <3>3, VotesStay
  <2> QED BY <2>1, <2>2
<1>4. CoinShown'
  BY DEF SentInv, CoinShown
<1> QED BY <1>1, <1>2, <1>3, <1>4 DEF SentInv

LEMMA SendAuxSent == ASSUME SentInv, NEW p \in Honest, SendAux(p) PROVE SentInv'
<1> USE DEF SendAux
<1>1. IInv /\ IInv' /\ Grows
  BY SendAuxKeeps DEF SentInv
<1>2. PICK R \in Rounds : round[p] = R /\ pc[p] = "bin"
  BY <1>1 DEF IInv, PhasesOK
<1>3. AuxesSent'
  <2>1. bin_values[p][R] \in SUBSET {0, 1} /\ bin_values[p][R] # {}
    BY <1>1, <1>2, BitFacts DEF IInv, TypeOK
  <2>2. aux_sent'[p][R] \in bin_values[p][R]
    <3>1. aux_sent \in [Honest -> [Rounds -> Bits \cup {None}]]
      BY <1>1 DEF IInv, TypeOK
    <3>2. aux_sent'[p][R] = IF 0 \in bin_values[p][R] THEN 0 ELSE 1
      BY <1>2, <3>1
    <3> QED BY <2>1, <3>2
  <2>3. ASSUME NEW q \in Honest, NEW r \in Rounds, ~(q = p /\ r = R)
        PROVE  /\ aux_sent'[q][r] = aux_sent[q][r]
               /\ r = round[q] /\ pc'[q] \in {"aux", "conf", "coin", "quit"}
                     => pc[q] \in {"aux", "conf", "coin", "quit"}
    BY <1>1, <1>2, <2>3 DEF IInv, TypeOK
  <2> QED BY <2>2, <2>3 DEF SentInv, AuxesSent
<1>4. ConfsSent'
  BY <1>1 DEF SentInv, ConfsSent, IInv, TypeOK
<1>5. EstsSent' /\ BinsSupported'
  BY <1>1, <1>2, MovesOn DEF Phases
<1>6. CoinShown'
  BY DEF SentInv, CoinShown
<1> QED BY <1>1, <1>3, <1>4, <1>5, <1>6 DEF SentInv

LEMMA SendConfSent == ASSUME SentInv, NEW p \in Honest, SendConf(p) PROVE SentInv'
<1> USE DEF SendConf
<1>1. IInv /\ IInv' /\ Grows
  BY SendConfKeeps DEF SentInv
<1>2. PICK R \in Rounds : round[p] = R /\ pc[p] = "aux"
  BY <1>1 DEF IInv, PhasesOK
<1>3. ConfsSent'
  <2>1. bin_values[p][R] # {}
    BY <1>2 DEF SentInv, AuxesSent
  <2>2. conf_sent'[p][R] # {}
    BY <1>1, <1>2, <2>1 DEF IInv, TypeOK
  <2>3. ASSUME NEW q \in Honest, NEW r \in Rounds, ~(q = p /\ r = R)
        PROVE  /\ conf_sent'[q][r] = conf_sent[q][r]
               /\ r = round[q] /\ pc'[q] \in {"conf", "coin", "quit"}
                     => pc[q] \in {"conf", "coin", "quit"}
    BY <1>1, <1>2, <2>3 DEF IInv, TypeOK
  <2> QED BY <2>2, <2>3 DEF SentInv, ConfsSent
<1>4. AuxesSent'
  BY <1>1, <1>2 DEF SentInv, AuxesSent, IInv, TypeOK
<1>5. EstsSent' /\ BinsSupported'
  BY <1>1, <1>2, MovesOn DEF Phases
<1>6. CoinShown'
  BY DEF SentInv, CoinShown
<1> QED BY <1>1, <1>3, <1>4, <1>5, <1>6 DEF SentInv

LEMMA CallCoinSent ==
    ASSUME SentInv, NEW p \in Honest, NEW vals \in SUBSET Bits, CallCoin(p, vals) PROVE SentInv'
<1> USE DEF CallCoin
<1>1. IInv /\ IInv' /\ Grows
  BY CallCoinKeeps DEF SentInv
<1>2. pc[p] = "conf"
  OBVIOUS
<1>3. AuxesSent' /\ ConfsSent'
  BY <1>1, <1>2 DEF SentInv, AuxesSent, ConfsSent, IInv, TypeOK
<1>4. EstsSent' /\ BinsSupported'
  BY <1>1, <1>2, MovesOn DEF Phases
<1>5. CoinShown'
  BY DEF SentInv, CoinShown
<1> QED BY <1>1, <1>3, <1>4, <1>5 DEF SentInv

LEMMA GetCoinSent ==
    ASSUME SentInv, NEW p \in Honest, NEW s \in Bits, GetCoin(p, s) PROVE SentInv'
<1>1. IInv /\ IInv' /\ Grows
  BY GetCoinKeeps DEF SentInv
<1>2. PICK R \in Rounds : round[p] = R /\ pc[p] = "coin"
  BY <1>1 DEF IInv, PhasesOK, GetCoin
<1>3. R \in Nat
  BY ValueFacts DEF Rounds
<1>4. CoinShown'
  BY <1>1 DEF GetCoin, SentInv, CoinShown, IInv, TypeOK
<1>5. UNCHANGED <<bin_values, aux_sent, conf_sent>>
  BY DEF GetCoin
<1>6. BinsSupported'
  BY <1>1, <1>5, BinsKept DEF SentInv
<1>7. ASSUME NEW q \in Honest, q # p PROVE pc'[q] = pc[q] /\ round'[q] = round[q]
  BY <1>1, <1>7 DEF GetCoin, NewEstimate, IInv, TypeOK
<1>8. \/ round'[p] = R /\ pc'[p] = "quit"
      \/ /\ round'[p] = R + 1 /\ pc'[p] \in {"bin", "bound"}
         /\ R + 1 \in Rounds => est_sent'[p][R + 1] # {}
  <2>1. pc' = [pc EXCEPT ![p] = "quit"] /\ UNCHANGED round => round'[p] = R /\ pc'[p] = "quit"
    BY <1>1, <1>2 DEF IInv, TypeOK
  <2>2. ASSUME round' = [round EXCEPT ![p] = R + 1], NEW new,
               IF R + 1 <= MaxRound
               THEN /\ est_sent' = [est_sent EXCEPT ![p][R + 1] = @ \cup {new}]
                    /\ pc' = [pc EXCEPT ![p] = "bin"]
               ELSE pc' = [pc EXCEPT ![p] = "bound"]
        PROVE  /\ round'[p] = R + 1 /\ pc'[p] \in {"bin", "bound"}
               /\ R + 1 \in Rounds => est_sent'[p][R + 1] # {}
    <3>1. round'[p] = R + 1 /\ pc'[p] \in {"bin", "bound"}
      BY <1>1, <2>2 DEF IInv, TypeOK
    <3>2. ASSUME R + 1 \in Rounds PROVE est_sent'[p][R + 1] # {}
      <4>1. R + 1 <= MaxRound
        BY <3>2, ValueFacts DEF Rounds
      <4>2. est_sent[p] \in [Rounds -> SUBSET Bits]
        BY <1>1 DEF IInv, TypeOK
      <4>3. est_sent'[p][R + 1] = est_sent[p][R + 1] \cup {new}
        BY <1>1, <2>2, <3>2, <4>1, <4>2 DEF IInv, TypeOK
      <4> QED BY <4>3
    <3> QED BY <3>1, <3>2
  <2> QED BY <1>2, <2>1, <2>2 DEF GetCoin, NewEstimate
<1>9. AuxesSent' /\ ConfsSent'
  <2>1. ASSUME NEW q \in Honest, NEW r \in Rounds,
               r < round'[q] \/ (r = round'[q] /\ pc'[q] \in {"aux", "conf", "coin", "quit"})
        PROVE  r < round[q] \/ (r = round[q] /\ pc[q] \in {"aux", "conf", "coin", "quit"})
    BY <1>2, <1>3, <1>7, <1>8, <2>1, ValueFacts DEF Rounds
  <2>2. ASSUME NEW q \in Honest, NEW r \in Rounds,
               r < round'[q] \/ (r = round'[q] /\ pc'[q] \in {"conf", "coin", "quit"})
        PROVE  r < round[q] \/ (r = round[q] /\ pc[q] \in {"conf", "coin", "quit"})
    BY <1>2, <1>3, <1>7, <1>8, <2>2, ValueFacts DEF Rounds
  <2> QED BY <1>5, <2>1, <2>2 DEF SentInv, AuxesSent, ConfsSent
<1>10. EstsSent'
  <2> SUFFICES ASSUME NEW q \in Honest, NEW r \in Rounds, r <= round'[q], pc'[q] # "input"
               PROVE  est_sent'[q][r] # {}
    BY DEF EstsSent
  <2>1. CASE q = p /\ r = R + 1
    BY <1>3, <1>8, <2>1
  <2>2. CASE ~(q = p /\ r = R + 1)
    <3>1. r <= round[q] /\ pc[q] # "input"
      BY <1>2, <1>3, <1>7, <1>8, <2>2, ValueFacts DEF Rounds
    <3>2. est_sent[q][r] # {} /\ est_sent[q][r] \subseteq est_sent'[q][r]
      BY <1>1, <3>1 DEF SentInv, EstsSent, Grows
    <3> QED BY <3>2
  <2> QED BY <2>1, <2>2
<1> QED BY <1>1, <1>4, <1>6, <1>9, <1>10 DEF SentInv

LEMMA SentInvHolds == Spec => []SentInv
<1>1. Init => SentInv
  <2> SUFFICES ASSUME Init PROVE SentInv
    OBVIOUS
  <2>1. EstsSent /\ BinsSupported /\ CoinShown
    BY BitFacts DEF Init, EstsSent, BinsSupported, CoinShown
  <2>2. AuxesSent /\ ConfsSent
    BY BitFacts DEF Init, AuxesSent, ConfsSent, Rounds
  <2> QED BY <2>1, <2>2, IInvInit DEF SentInv
<1>2. SentInv /\ [Next]_vars => SentInv'
  <2> SUFFICES ASSUME SentInv, [Next]_vars PROVE SentInv'
    OBVIOUS
  <2>1. ASSUME NEW p \in Honest, NEW vi \in Inputs[p], Start(p, vi) PROVE SentInv'
    BY <2>1, StartSent
  <2>2. ASSUME NEW p \in Honest, NEW r \in Rounds, NEW v \in Bits,
               NEW held \in {F + 1, 2 * F + 1}, RecvEst(p, r, v, held)
        PROVE  SentInv'
    BY <2>2, RecvEstSent
  <2>3. ASSUME NEW p \in Honest, SendAux(p) PROVE SentInv'
    BY <2>3, SendAuxSent
  <2>4. ASSUME NEW p \in Honest, SendConf(p) PROVE SentInv'
    BY <2>4, SendConfSent
  <2>5. ASSUME NEW p \in Honest, NEW vals \in SUBSET Bits, CallCoin(p, vals) PROVE SentInv'
    BY <2>5, CallCoinSent
  <2>6. ASSUME NEW p \in Honest, NEW s \in Bits, GetCoin(p, s) PROVE SentInv'
    BY <2>6, GetCoinSent
  <2>7. CASE UNCHANGED vars
    <3>1. IInv' /\ Grows
      BY IInvStep DEF SentInv
    <3>2. BinsSupported'
      BY <2>7, <3>1, BinsKept DEF SentInv, vars
    <3>3. EstsSent' /\ AuxesSent' /\ ConfsSent' /\ CoinShown'
      BY <2>7 DEF vars, SentInv, EstsSent, AuxesSent, ConfsSent, CoinShown
    <3> QED BY <3>1, <3>2, <3>3 DEF SentInv
  <2> QED BY <2>1, <2>2, <2>3, <2>4, <2>5, <2>6, <2>7 DEF Next
<1> QED BY <1>1, <1>2, PTL DEF Spec

\* A nonempty set of rounds has a first one.
LEMMA FirstRound ==
    ASSUME NEW S \in SUBSET Nat, S # {}
    PROVE  \E r \in S : \A q \in S : r <= q
<1> DEFINE Earlier == {e \in Nat \X Nat : e[1] < e[2]}
<1>1. IsWellFoundedOn(Earlier, Nat)
  BY NatLessThanWellFounded DEF OpToRel
<1>2. PICK r \in S : \A q \in S : <<q, r>> \notin Earlier
  <2> HIDE DEF Earlier
  <2> QED BY <1>1, WFMin
<1>3. ASSUME NEW q \in S PROVE r <= q
  <2>1. q \in Nat /\ r \in Nat /\ <<q, r>> \notin Earlier
    BY <1>2
  <2> QED BY <2>1
<1> QED BY <1>3

\* All honest parties have come to round r, and those in it cannot go on.
StuckIn(r) == /\ AllStuck
              /\ \A p \in Honest : pc[p] \notin {"input", "quit", "bound"} /\ round[p] \in Rounds
              /\ \A p \in Honest : r <= round[p]

\* The parts of EstVotes, AuxVotes and ConfVotes.
EstOf(r, v)  == {p \in Honest : v \in est_sent[p][r]}
AuxOf(r, v)  == {p \in Honest : aux_sent[p][r] = v}
ConfOf(r, c) == {p \in Honest : conf_sent[p][r] = c}

LEMMA VotesAre ==
    ASSUME NEW r, NEW v
    PROVE  /\ EstVotes(r, v, 0) = Cardinality(EstOf(r, v))
           /\ AuxVotes(r, v) = Cardinality(AuxOf(r, v))
           /\ ConfVotes(r, v) = Cardinality(ConfOf(r, v))
           /\ EstOf(r, v) \in SUBSET Honest /\ AuxOf(r, v) \in SUBSET Honest
           /\ ConfOf(r, v) \in SUBSET Honest
           /\ Cardinality(EstOf(r, v)) \in Nat /\ Cardinality(AuxOf(r, v)) \in Nat
           /\ Cardinality(ConfOf(r, v)) \in Nat
<1>1. /\ EstOf(r, v) \in SUBSET Honest /\ AuxOf(r, v) \in SUBSET Honest
      /\ ConfOf(r, v) \in SUBSET Honest
  BY DEF EstOf, AuxOf, ConfOf
<1>2. /\ Cardinality(EstOf(r, v)) \in Nat /\ Cardinality(AuxOf(r, v)) \in Nat
      /\ Cardinality(ConfOf(r, v)) \in Nat
  BY <1>1, HonestSize
<1>3. /\ EstVotes(r, v, 0) = Cardinality(EstOf(r, v)) + 0
      /\ AuxVotes(r, v) = Cardinality(AuxOf(r, v))
      /\ ConfVotes(r, v) = Cardinality(ConfOf(r, v))
  BY DEF EstVotes, AuxVotes, ConfVotes, EstOf, AuxOf, ConfOf
<1> QED BY <1>1, <1>2, <1>3

\* F + 1 honest ESTs for a bit bring it to everybody: all relay it, and all accept it.
LEMMA BitsSpread ==
    ASSUME SentInv, NEW r \in Rounds, StuckIn(r), NEW v \in Bits, EstVotes(r, v, 0) >= F + 1,
           NEW p \in Honest
    PROVE  v \in bin_values[p][r]
<1>1. ASSUME NEW q \in Honest, NEW held \in {F + 1, 2 * F + 1}, held <= EstVotes(r, v, 0)
      PROVE  Relayed(q, r, v, held) = est_sent[q][r] /\ Accepted(q, r, v, held) = bin_values[q][r]
  <2>1. ~CanRecvEst(q) /\ pc[q] # "quit" /\ round[q] \in Rounds /\ r <= round[q]
    BY DEF StuckIn, AllStuck, CanStep
  <2>2. r <= round[q] + Ahead
    BY <2>1, ValueAssumption DEF Rounds
  <2> QED BY <1>1, <2>1, <2>2 DEF CanRecvEst
<1>2. ASSUME NEW q \in Honest PROVE v \in est_sent[q][r]
  <2>1. Relayed(q, r, v, F + 1) = est_sent[q][r]
    BY <1>1
  <2> QED BY <2>1, Sizes DEF Relayed
<1>3. EstOf(r, v) = Honest
  BY <1>2 DEF EstOf
<1>4. 2 * F + 1 <= EstVotes(r, v, 0)
  BY <1>3, VotesAre, Sizes
<1>5. Accepted(p, r, v, 2 * F + 1) = bin_values[p][r]
  BY <1>1, <1>4
<1> QED BY <1>5, Sizes DEF Accepted

\* One of the two bits has F + 1 honest ESTs.
LEMMA SomeBitSpreads ==
    ASSUME SentInv, NEW r \in Rounds, StuckIn(r), NEW p \in Honest
    PROVE  bin_values[p][r] # {}
<1>1. ASSUME NEW q \in Honest PROVE 0 \in est_sent[q][r] \/ 1 \in est_sent[q][r]
  <2>1. est_sent[q][r] # {}
    BY DEF StuckIn, SentInv, EstsSent
  <2>2. est_sent[q][r] \in SUBSET {0, 1}
    BY BitFacts DEF SentInv, IInv, TypeOK
  <2> QED BY <2>1, <2>2
<1> DEFINE Rest == Honest \ EstOf(r, 0)
<1>2. Rest \subseteq EstOf(r, 1) /\ Rest \cap EstOf(r, 0) = {} /\ Rest \in SUBSET Honest
      /\ EstOf(r, 0) \cup Rest = Honest
  BY <1>1 DEF EstOf
<1> HIDE DEF Rest
<1>3. Cardinality(EstOf(r, 0)) + Cardinality(Rest) = Cardinality(Honest)
  <2>1. EstOf(r, 0) \cap Rest = {} /\ EstOf(r, 0) \in SUBSET Honest
    BY <1>2, VotesAre
  <2>2. Cardinality(EstOf(r, 0) \cup Rest) = Cardinality(EstOf(r, 0)) + Cardinality(Rest)
    BY <1>2, <2>1, Apart
  <2> QED BY <1>2, <2>2
<1>4. Cardinality(Rest) <= Cardinality(EstOf(r, 1)) /\ Cardinality(Rest) \in Nat
  BY <1>2, VotesAre, Larger, HonestSize
<1>5. Cardinality(EstOf(r, 0)) >= F + 1 \/ Cardinality(EstOf(r, 1)) >= F + 1
  BY <1>3, <1>4, VotesAre, Sizes
<1>6. PICK v \in Bits : EstVotes(r, v, 0) >= F + 1
  BY <1>5, VotesAre, BitFacts
<1> QED BY <1>6, BitsSpread

\* Nobody waits for ESTs of the round.
LEMMA NobodyInBin ==
    ASSUME SentInv, NEW r \in Rounds, StuckIn(r), NEW p \in Honest, round[p] = r
    PROVE  pc[p] \in {"aux", "conf", "coin"}
<1>1. pc[p] # "bin"
  BY SomeBitSpreads DEF StuckIn, AllStuck, CanStep
<1>2. pc[p] \in Phases /\ pc[p] \notin {"input", "quit", "bound"}
  BY DEF StuckIn, SentInv, IInv, TypeOK
<1> QED BY <1>1, <1>2 DEF Phases

LEMMA AheadOrIn ==
    ASSUME NEW r \in Rounds, StuckIn(r), NEW p \in Honest PROVE r < round[p] \/ round[p] = r
  BY ValueFacts DEF StuckIn, Rounds

\* A bit that one party has accepted all have.
LEMMA BinsShared ==
    ASSUME SentInv, NEW r \in Rounds, StuckIn(r), NEW p \in Honest, NEW q \in Honest
    PROVE  bin_values[q][r] \subseteq bin_values[p][r]
<1>1. bin_values[q][r] \in SUBSET Bits
  BY DEF SentInv, IInv, TypeOK
<1> QED BY <1>1, BitsSpread DEF SentInv, BinsSupported

\* Nobody waits for AUXs: those of all honest parties are for bits that all have accepted.
LEMMA NobodyInAux ==
    ASSUME SentInv, NEW r \in Rounds, StuckIn(r), NEW p \in Honest, round[p] = r
    PROVE  pc[p] # "aux"
<1>1. ASSUME NEW q \in Honest PROVE aux_sent[q][r] \in bin_values[p][r]
  <2>1. aux_sent[q][r] \in bin_values[q][r]
    BY AheadOrIn, NobodyInBin DEF SentInv, AuxesSent
  <2> QED BY <2>1, BinsShared
<1>2. bin_values[p][r] \in SUBSET {0, 1}
  BY BitFacts DEF SentInv, IInv, TypeOK
<1>3. AuxOf(r, 0) \cup AuxOf(r, 1) = Honest /\ AuxOf(r, 0) \cap AuxOf(r, 1) = {}
  BY <1>1, <1>2 DEF AuxOf
<1>4. Cardinality(AuxOf(r, 0)) + Cardinality(AuxOf(r, 1)) = Cardinality(Honest)
  BY <1>3, VotesAre, Apart
<1> DEFINE h0 == Cardinality(AuxOf(r, 0))
           h1 == Cardinality(AuxOf(r, 1))
<1>5. h0 \in Nat /\ h1 \in Nat /\ h0 + h1 >= N - F /\ N - F >= 1 /\ N \in Nat /\ F \in Nat
  BY <1>4, VotesAre, Sizes
<1>6. /\ h0 > 0 => 0 \in bin_values[p][r]
      /\ h1 > 0 => 1 \in bin_values[p][r]
  <2>1. AuxOf(r, 0) # {} => 0 \in bin_values[p][r]
    BY <1>1 DEF AuxOf
  <2>2. AuxOf(r, 1) # {} => 1 \in bin_values[p][r]
    BY <1>1 DEF AuxOf
  <2>3. h0 > 0 => AuxOf(r, 0) # {}
    BY FS_EmptySet
  <2>4. h1 > 0 => AuxOf(r, 1) # {}
    BY FS_EmptySet
  <2> QED BY <2>1, <2>2, <2>3, <2>4
<1>7. AuxVotes(r, 0) = h0 /\ AuxVotes(r, 1) = h1
  BY VotesAre
<1> HIDE DEF h0, h1
<1>8. CASE h0 >= N - F
  <2>1. SingleWait(AuxVotes(r, 0), 0) /\ 0 \in bin_values[p][r]
    BY <1>5, <1>6, <1>7, <1>8 DEF SingleWait
  <2> QED BY <2>1 DEF StuckIn, AllStuck, CanStep, AuxDone
<1>9. CASE h1 >= N - F
  <2>1. SingleWait(AuxVotes(r, 1), 0) /\ 1 \in bin_values[p][r]
    BY <1>5, <1>6, <1>7, <1>9 DEF SingleWait
  <2> QED BY <2>1 DEF StuckIn, AllStuck, CanStep, AuxDone
<1>10. CASE h0 < N - F /\ h1 < N - F
  <2>1. bin_values[p][r] = Bits
    BY <1>2, <1>5, <1>6, <1>10, BitFacts
  <2>2. MixedWait(AuxVotes(r, 0), AuxVotes(r, 1), 0, 0, FALSE)
    <3>1. h0 \in 0 .. N - F - 1 /\ h1 \in 0 .. N - F - 1
      BY <1>5, <1>10
    <3>2. MixedWait(h0, h1, 0, 0, FALSE)
      <4>1. h0 + h1 + (IF FALSE THEN 0 ELSE 0) >= N - F
        BY <1>5
      <4> HIDE DEF h0, h1
      <4> QED BY <3>1, <4>1, MixedFromHonest
    <3> QED BY <1>7, <3>2
  <2> QED BY <2>1, <2>2 DEF StuckIn, AllStuck, CanStep, AuxDone
<1> QED BY <1>5, <1>8, <1>9, <1>10

\* Nobody waits for CONFs.
LEMMA NobodyInConf ==
    ASSUME SentInv, NEW r \in Rounds, StuckIn(r), NEW p \in Honest, round[p] = r
    PROVE  pc[p] # "conf"
<1>1. ASSUME NEW q \in Honest
      PROVE  conf_sent[q][r] # {} /\ conf_sent[q][r] \subseteq bin_values[p][r]
  <2>1. conf_sent[q][r] # {}
    BY AheadOrIn, NobodyInBin, NobodyInAux DEF SentInv, ConfsSent
  <2>2. conf_sent[q][r] \subseteq bin_values[q][r]
    BY DEF SentInv, IInv, BinBacked
  <2> QED BY <2>1, <2>2, BinsShared
<1>2. bin_values[p][r] \in SUBSET {0, 1}
  BY BitFacts DEF SentInv, IInv, TypeOK
<1>3. (ConfOf(r, {0}) \cup ConfOf(r, {1})) \cup ConfOf(r, Bits) = Honest
  <2>1. ASSUME NEW q \in Honest PROVE conf_sent[q][r] \in {{0}, {1}, {0, 1}}
    BY <1>1, <1>2
  <2> QED BY <2>1, BitFacts DEF ConfOf
<1>4. ConfOf(r, {0}) \cap ConfOf(r, {1}) = {}
      /\ (ConfOf(r, {0}) \cup ConfOf(r, {1})) \cap ConfOf(r, Bits) = {}
  BY BitFacts DEF ConfOf
<1> DEFINE h0  == Cardinality(ConfOf(r, {0}))
           h1  == Cardinality(ConfOf(r, {1}))
           h01 == Cardinality(ConfOf(r, Bits))
<1>5. h0 + h1 + h01 = Cardinality(Honest)
  <2>1. Cardinality(ConfOf(r, {0}) \cup ConfOf(r, {1})) = h0 + h1
    BY <1>4, VotesAre, Apart
  <2>2. ConfOf(r, {0}) \cup ConfOf(r, {1}) \in SUBSET Honest /\ ConfOf(r, Bits) \in SUBSET Honest
    BY VotesAre
  <2>3. Cardinality((ConfOf(r, {0}) \cup ConfOf(r, {1})) \cup ConfOf(r, Bits)) = (h0 + h1) + h01
    BY <1>4, <2>1, <2>2, Apart
  <2> QED BY <1>3, <2>3
<1>6. h0 \in Nat /\ h1 \in Nat /\ h01 \in Nat /\ h0 + h1 + h01 >= N - F /\ N - F >= 1
      /\ N \in Nat /\ F \in Nat
  BY <1>5, VotesAre, Sizes
<1>7. /\ h0 > 0 => 0 \in bin_values[p][r]
      /\ h1 > 0 => 1 \in bin_values[p][r]
      /\ h01 > 0 => bin_values[p][r] = Bits
  <2>1. /\ ConfOf(r, {0}) # {} => 0 \in bin_values[p][r]
        /\ ConfOf(r, {1}) # {} => 1 \in bin_values[p][r]
        /\ ConfOf(r, Bits) # {} => bin_values[p][r] = Bits
    BY <1>1, <1>2, BitFacts DEF ConfOf
  <2>2. h0 > 0 => ConfOf(r, {0}) # {}
    BY FS_EmptySet
  <2>3. h1 > 0 => ConfOf(r, {1}) # {}
    BY FS_EmptySet
  <2>4. h01 > 0 => ConfOf(r, Bits) # {}
    BY FS_EmptySet
  <2> QED BY <2>1, <2>2, <2>3, <2>4
<1>8. ConfVotes(r, {0}) = h0 /\ ConfVotes(r, {1}) = h1 /\ ConfVotes(r, Bits) = h01
  BY VotesAre
<1> HIDE DEF h0, h1, h01
<1>9. ASSUME NEW v \in Bits, ConfVotes(r, {v}) >= N - F, v \in bin_values[p][r]
      PROVE  pc[p] # "conf"
  <2>1. SingleWait(ConfVotes(r, {v}), 0)
    <3>1. ConfVotes(r, {v}) \in Nat
      BY VotesAre
    <3>2. ConfVotes(r, {v}) + 0 >= N - F
      BY <1>6, <1>9, <3>1
    <3> QED BY <3>2 DEF SingleWait
  <2>2. ConfDone(p, {v}, 0) /\ {v} \in SUBSET Bits
    BY <1>9, <2>1 DEF ConfDone
  <2> QED BY <2>2 DEF StuckIn, AllStuck, CanStep
<1>10. CASE h0 >= N - F
  BY <1>6, <1>7, <1>8, <1>9, <1>10, BitFacts
<1>11. CASE h1 >= N - F
  BY <1>6, <1>7, <1>8, <1>9, <1>11, BitFacts
<1>12. CASE h0 < N - F /\ h1 < N - F
  <2>1. bin_values[p][r] = Bits
    BY <1>2, <1>6, <1>7, <1>12, BitFacts
  <2>2. MixedWait(ConfVotes(r, {0}), ConfVotes(r, {1}), ConfVotes(r, Bits), 0, TRUE)
    <3>1. h0 \in 0 .. N - F - 1 /\ h1 \in 0 .. N - F - 1
      BY <1>6, <1>12
    <3>2. MixedWait(h0, h1, h01, 0, TRUE)
      BY <1>6, <3>1, MixedFromHonest
    <3> QED BY <1>8, <3>2
  <2>3. ConfDone(p, Bits, 0)
    BY <2>1, <2>2 DEF ConfDone
  <2> QED BY <2>3 DEF StuckIn, AllStuck, CanStep
<1> QED BY <1>6, <1>10, <1>11, <1>12

\* The shares of honest parties give the coin.
LEMMA NobodyInCoin ==
    ASSUME SentInv, NEW r \in Rounds, StuckIn(r), CoinBits[r] # {}, NEW p \in Honest, round[p] = r
    PROVE  pc[p] # "coin"
<1>1. CoinCallers(r) = Honest
  <2>1. ASSUME NEW q \in Honest PROVE round[q] > r \/ (round[q] = r /\ pc[q] = "coin")
    <3>1. CASE round[q] = r
      BY <3>1, NobodyInBin, NobodyInAux, NobodyInConf
    <3>2. CASE r < round[q]
      BY <3>2, ValueFacts DEF StuckIn, Rounds
    <3> QED BY <3>1, <3>2, AheadOrIn
  <2> QED BY <2>1 DEF CoinCallers
<1>2. CoinReady(r, 0)
  BY <1>1, Sizes DEF CoinReady
<1>3. \E s \in CoinBits[r] : coin[r] \in {None, s}
  BY DEF SentInv, CoinShown
<1> QED BY <1>2, <1>3 DEF StuckIn, AllStuck, CanStep, CanGetCoin

LEMMA NeverStuck ==
    ASSUME \A p \in Honest : Inputs[p] # {}, \A r \in Rounds : CoinBits[r] # {}, SentInv
    PROVE  NoStall
<1> SUFFICES ASSUME AllStuck, \A p \in Honest : pc[p] \notin {"quit", "bound"}
             PROVE  FALSE
  BY DEF NoStall
<1>1. \A p \in Honest : pc[p] # "input" /\ round[p] \in Rounds
  BY DEF AllStuck, CanStep, CanStart, SentInv, IInv, PhasesOK
<1> DEFINE S == {round[p] : p \in Honest}
<1>2. Honest # {}
  BY Sizes, FS_EmptySet
<1>3. S \in SUBSET Nat /\ S # {}
  BY <1>1, <1>2, ValueFacts DEF Rounds
<1>4. PICK p \in Honest : \A q \in Honest : round[p] <= round[q]
  <2>1. PICK r \in S : \A b \in S : r <= b
    <3> HIDE DEF S
    <3> QED BY <1>3, FirstRound
  <2> QED BY <2>1
<1>5. PICK r \in Rounds : round[p] = r
  BY <1>1
<1>6. StuckIn(r)
  BY <1>1, <1>4, <1>5 DEF StuckIn
<1>7. pc[p] \in {"aux", "conf", "coin"} /\ pc[p] # "aux" /\ pc[p] # "conf" /\ pc[p] # "coin"
  BY <1>5, <1>6, NobodyInBin, NobodyInAux, NobodyInConf, NobodyInCoin
<1> QED BY <1>7

\* If every party is given an input and every coin shows a bit, then as long as no
\* honest party has quit (or left the last round) one of them can go on with the messages
\* of honest parties alone, though parties may be any number of rounds apart.
THEOREM NoStallHolds ==
    ASSUME \A p \in Honest : Inputs[p] # {}, \A r \in Rounds : CoinBits[r] # {}
    PROVE  Spec => []NoStall
BY SentInvHolds, NeverStuck, PTL
=============================================================================
