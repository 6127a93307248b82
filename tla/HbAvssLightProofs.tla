------------------------- MODULE HbAvssLightProofs -------------------------
(***************************************************************************)
(* KeysKept, Shared and SharesDelivered for every number of parties, any   *)
(* set of at most T faulty ones and whatever a faulty dealer deals.        *)
(***************************************************************************)
EXTENDS HbAvssLight, FiniteSetTheorems, TLAPS

Phase == {"waiting", "lost", "running", "ended", "raised"}

TypeOK ==
    /\ dealer \in Proc
    /\ blob \in [Proc -> Blob]
    /\ phase \in [Honest -> Phase]
    /\ sent \in [Honest -> SUBSET Kind]
    /\ share_valid \in [Honest -> BOOLEAN]
    /\ ok_set \in [Honest -> SUBSET Proc]
    /\ implicate_set \in [Honest -> SUBSET Proc]
    /\ recovery_shares \in [Honest -> SUBSET (Proc \X {"good"})]
    /\ output \in [Honest -> {None, "point", "other"}]
    /\ recovered \in [Honest -> BOOLEAN]

\* What a party has multicast tells whether its share is valid, or was when
\* it got the dealer's message.
SentTells ==
    \A p \in Honest :
        /\ phase[p] = "waiting" => sent[p] = {} /\ ~share_valid[p]
        /\ sent[p] \cap {"OK", "RECOVERY"} # {} => share_valid[p]
        /\ "IMPLICATE" \in sent[p] => Opened(p, "own") # "good"

\* Who counts as OK at an honest party and is honest has its share.
OksValid == \A p \in Honest : \A q \in ok_set[p] \cap Honest : share_valid[q]

HonestlyDealt == dealer \in Honest => blob = HonestDealing

IInv == TypeOK /\ SentTells /\ OksValid /\ HonestlyDealt /\ KeysKept

-----------------------------------------------------------------------------
LEMMA HonestFacts ==
    /\ IsFiniteSet(Proc) /\ IsFiniteSet(Honest) /\ IsFiniteSet(Faulty)
    /\ Honest \subseteq Proc /\ Honest \cap Faulty = {} /\ T \in Nat
    /\ Cardinality(Faulty) \in Nat /\ Cardinality(Faulty) <= T
<1>1. Honest \subseteq Proc /\ Honest \cap Faulty = {}
  BY DEF Honest
<1>2. IsFiniteSet(Honest) /\ IsFiniteSet(Faulty)
  BY <1>1, SizeAssumption, FS_Subset
<1> QED
  BY <1>1, <1>2, SizeAssumption, FS_CardinalityType

\* Of 2T + 1 parties T + 1 are honest.
LEMMA HonestMajority ==
    ASSUME NEW S \in SUBSET Proc, Cardinality(S) = 2 * T + 1,
           NEW V \in SUBSET Honest, S \cap Honest \subseteq V
    PROVE  Cardinality(V) >= T + 1
<1>1. IsFiniteSet(S) /\ IsFiniteSet(V) /\ IsFiniteSet(Faulty) /\ IsFiniteSet(S \cap Honest)
  BY HonestFacts, FS_Subset
<1>2. S \subseteq V \cup Faulty
  BY DEF Honest
<1>3. IsFiniteSet(V \cup Faulty) /\ Cardinality(S) <= Cardinality(V \cup Faulty)
  BY <1>1, <1>2, FS_Union, FS_Subset
<1>4. Cardinality(V \cup Faulty)
        = Cardinality(V) + Cardinality(Faulty) - Cardinality(V \cap Faulty)
  BY <1>1, FS_Union
<1>5. V \cap Faulty = {}
  BY DEF Honest
<1>6. Cardinality(V \cap Faulty) = 0
  BY <1>5, FS_EmptySet
<1>7. Cardinality(V) \in Nat
  BY <1>1, FS_CardinalityType
<1> QED
  BY <1>3, <1>4, <1>6, <1>7, HonestFacts

-----------------------------------------------------------------------------
LEMMA InitInv == Init => IInv
<1> SUFFICES ASSUME Init PROVE IInv
  OBVIOUS
<1>1. HonestDealing \in [Proc -> Blob]
  BY DEF HonestDealing, Blob, Key, Contents
<1>2. TypeOK
  BY <1>1, SizeAssumption DEF Init, TypeOK, Phase, Kind
<1>3. SentTells /\ OksValid /\ KeysKept
  BY DEF Init, SentTells, OksValid, KeysKept
<1>4. HonestlyDealt
  BY DEF Init, HonestlyDealt
<1> QED
  BY <1>2, <1>3, <1>4 DEF IInv

\* The steps of a running party, by what it has received and sent when it
\* comes to the head of the loop.
Sound(p, oks, implicates, shares, sends) ==
    /\ oks \in SUBSET Proc /\ implicates \in SUBSET Proc
    /\ shares \in SUBSET (Proc \X {"good"})
    /\ sends \in SUBSET Kind /\ sent[p] \subseteq sends
    /\ \A q \in oks \cap Honest : share_valid[q]
    /\ "OK" \in sends => "OK" \in sent[p]
    /\ "IMPLICATE" \in sends => "IMPLICATE" \in sent[p]
    /\ "RECOVERY" \in sends => share_valid[p]
    /\ dealer \in Honest => sends \subseteq {"OK"}

LEMMA HeadInv ==
    ASSUME NEW p \in Honest, NEW oks, NEW implicates, NEW shares, NEW sends,
           IInv, phase[p] = "running", UNCHANGED <<dealer, blob>>,
           Sound(p, oks, implicates, shares, sends),
           LoopHead(p, oks, implicates, shares, sends)
    PROVE  IInv'
<1> DEFINE byOk  == Cardinality(oks) = OutputThreshold /\ share_valid[p] /\ output[p] = None
           byRec == Cardinality(shares) = T + 1 /\ output[p] = None /\ ~byOk
<1>0. TypeOK /\ SentTells /\ OksValid /\ HonestlyDealt /\ KeysKept
  BY DEF IInv
<1>1. /\ sent' = [sent EXCEPT ![p] = IF byRec THEN sends \cup {"OK"} ELSE sends]
      /\ share_valid' = [share_valid EXCEPT ![p] = @ \/ byRec]
      /\ ok_set' = [ok_set EXCEPT ![p] = oks]
      /\ implicate_set' = [implicate_set EXCEPT ![p] = implicates]
      /\ recovery_shares' = [recovery_shares EXCEPT ![p] = shares]
      /\ recovered' = [recovered EXCEPT ![p] = recovered[p] \/ byRec]
      /\ phase' \in {phase, [phase EXCEPT ![p] = "ended"]}
      /\ output' = [output EXCEPT ![p] = IF byOk THEN "point"
                                         ELSE IF byRec THEN Interpolated(shares)
                                         ELSE @]
  BY <1>0 DEF LoopHead, TypeOK
<1> HIDE DEF byRec, byOk
<1>2. Interpolated(shares) \in {"point", "other"}
  BY DEF Interpolated
<1>3. TypeOK'
  <2>1. dealer' \in Proc /\ blob' \in [Proc -> Blob]
    BY <1>0 DEF TypeOK
  <2>2. phase' \in [Honest -> Phase]
    BY <1>0, <1>1 DEF TypeOK, Phase
  <2>3. sent' \in [Honest -> SUBSET Kind]
    BY <1>0, <1>1 DEF TypeOK, Sound, Kind
  <2>4. share_valid' \in [Honest -> BOOLEAN] /\ recovered' \in [Honest -> BOOLEAN]
    <3>1. (share_valid[p] \/ byRec) \in BOOLEAN /\ (recovered[p] \/ byRec) \in BOOLEAN
      OBVIOUS
    <3> QED
      BY <1>0, <1>1, <3>1, Zenon DEF TypeOK
  <2>5. /\ ok_set' \in [Honest -> SUBSET Proc]
        /\ implicate_set' \in [Honest -> SUBSET Proc]
        /\ recovery_shares' \in [Honest -> SUBSET (Proc \X {"good"})]
    BY <1>0, <1>1 DEF TypeOK, Sound
  <2>6. output' \in [Honest -> {None, "point", "other"}]
    BY <1>0, <1>1, <1>2 DEF TypeOK
  <2> QED
    BY <2>1, <2>2, <2>3, <2>4, <2>5, <2>6 DEF TypeOK
<1>4. \A q \in Honest : share_valid[q] => share_valid'[q]
  BY <1>0, <1>1 DEF TypeOK
<1>5. SentTells'
  <2> SUFFICES ASSUME NEW q \in Honest
               PROVE  /\ phase'[q] = "waiting" => sent'[q] = {} /\ ~share_valid'[q]
                      /\ sent'[q] \cap {"OK", "RECOVERY"} # {} => share_valid'[q]
                      /\ "IMPLICATE" \in sent'[q] => Opened(q, "own") # "good"
    BY DEF SentTells, Opened
  <2>1. CASE q # p
    BY <1>0, <1>1, <2>1 DEF SentTells, TypeOK
  <2>2. CASE q = p
    <3>1. phase'[p] # "waiting"
      BY <1>0, <1>1 DEF TypeOK
    <3>2. sent'[p] = (IF byRec THEN sends \cup {"OK"} ELSE sends)
          /\ (share_valid'[p] <=> (share_valid[p] \/ byRec))
      BY <1>0, <1>1 DEF TypeOK
    <3>3. sends \cap {"OK", "RECOVERY"} # {} => share_valid[p]
      BY <1>0 DEF Sound, SentTells
    <3>4. "IMPLICATE" \in sends => Opened(p, "own") # "good"
      BY <1>0 DEF Sound, SentTells
    <3> QED
      BY <2>2, <3>1, <3>2, <3>3, <3>4
  <2> QED
    BY <2>1, <2>2
<1>6. OksValid'
  BY <1>0, <1>1, <1>4 DEF OksValid, Sound, TypeOK
<1>7. HonestlyDealt'
  BY <1>0 DEF HonestlyDealt, HonestDealing
<1>8. KeysKept'
  BY <1>0, <1>1 DEF KeysKept, Sound, TypeOK
<1> QED
  BY <1>3, <1>5, <1>6, <1>7, <1>8 DEF IInv

\* Every receiving action is a step to the head of the loop or an exception.
Head(p) ==
    \/ \E oks, implicates, shares, sends :
          Sound(p, oks, implicates, shares, sends)
          /\ LoopHead(p, oks, implicates, shares, sends)
    \/ Raise(p)

LEMMA SoundNow ==
    ASSUME NEW p \in Honest, IInv
    PROVE  Sound(p, ok_set[p], implicate_set[p], recovery_shares[p], sent[p])
BY HonestFacts DEF IInv, TypeOK, SentTells, OksValid, KeysKept, Sound

LEMMA OkSound ==
    ASSUME NEW p \in Honest, NEW q \in Proc, IInv, RecvOk(p, q)
    PROVE  Head(p)
<1>1. q \in Honest => share_valid[q]
  BY DEF IInv, SentTells, RecvOk, Take
<1>2. Sound(p, ok_set[p] \cup {q}, implicate_set[p], recovery_shares[p], sent[p])
  BY <1>1, SoundNow DEF Sound
<1> QED
  BY <1>2 DEF RecvOk, Head

\* An honest party is implicated by nobody whose blob is good, and an honest
\* dealer deals good blobs.
LEMMA ImplicateSound ==
    ASSUME NEW p \in Honest, NEW q \in Proc, NEW key \in KeysOf(q), IInv,
           RecvImplicate(p, q, key)
    PROVE  Head(p)
<1> DEFINE checks == "RECOVERY" \notin sent[p] /\ share_valid[p]
           outcome == IF checks THEN ImplicateOutcome(q, key) ELSE "ignored"
           oks == ok_set[p] \cup {x \in {q} : outcome = "invalid"}
           implicates == implicate_set[p] \cup {q}
           sends == sent[p] \cup {x \in {"RECOVERY"} : outcome = "valid"}
<1>1. CASE outcome = "raises"
  BY <1>1 DEF RecvImplicate, Head
<1>2. CASE outcome # "raises"
  <2>1. LoopHead(p, oks, implicates, recovery_shares[p], sends)
    BY <1>2 DEF RecvImplicate
  <2>2. q \in Honest => outcome # "invalid"
    <3>1. q \in Honest => key = "own" /\ "IMPLICATE" \in sent[q]
      BY DEF KeysOf, RecvImplicate, Take
    <3>2. q \in Honest => key = "own" /\ Opened(q, key) # "good"
      BY <3>1 DEF IInv, SentTells
    <3> QED
      BY <3>2 DEF ImplicateOutcome
  <2>3. dealer \in Honest => outcome # "valid"
    BY DEF IInv, HonestlyDealt, HonestDealing, ImplicateOutcome, Opened
  <2>4. outcome = "valid" => share_valid[p]
    OBVIOUS
  <2>5. Sound(p, ok_set[p], implicate_set[p], recovery_shares[p], sent[p])
    BY SoundNow
  <2>6. oks \in SUBSET Proc /\ implicates \in SUBSET Proc
        /\ \A x \in oks \cap Honest : share_valid[x]
    BY <2>2, <2>5 DEF Sound
  <2>7. /\ sends \in SUBSET Kind /\ sent[p] \subseteq sends
        /\ "OK" \in sends => "OK" \in sent[p]
        /\ "IMPLICATE" \in sends => "IMPLICATE" \in sent[p]
        /\ "RECOVERY" \in sends => share_valid[p]
        /\ dealer \in Honest => sends \subseteq {"OK"}
    BY <2>3, <2>4, <2>5 DEF Sound, Kind
  <2>8. Sound(p, oks, implicates, recovery_shares[p], sends)
    BY <2>5, <2>6, <2>7 DEF Sound
  <2> QED
    BY <2>1, <2>8 DEF Head
<1> QED
  BY <1>1, <1>2

LEMMA RecoverySound ==
    ASSUME NEW p \in Honest, NEW q \in Proc, NEW key \in KeysOf(q), IInv,
           RecvRecovery(p, q, key)
    PROVE  Head(p)
<1> DEFINE opened == Opened(q, key)
           uses == ~share_valid[p] /\ \A x \in recovery_shares[p] : x[1] # q
           oks == ok_set[p] \cup {x \in {q} : uses /\ opened = "garbled"}
           shares == recovery_shares[p] \cup {x \in {<<q, opened>>} : uses /\ Accepts(opened)}
<1>1. CASE uses /\ opened = "short"
  BY <1>1 DEF RecvRecovery, Head
<1>2. CASE ~(uses /\ opened = "short")
  <2>1. LoopHead(p, oks, implicate_set[p], shares, sent[p])
    BY <1>2 DEF RecvRecovery
  <2>2. q \in Honest => share_valid[q]
    BY DEF IInv, SentTells, RecvRecovery, Take
  <2>3. shares \subseteq recovery_shares[p] \cup {<<q, "good">>}
    BY DEF Accepts
  <2>4. Sound(p, ok_set[p], implicate_set[p], recovery_shares[p], sent[p])
    BY SoundNow
  <2>5. Sound(p, oks, implicate_set[p], shares, sent[p])
    BY <2>2, <2>3, <2>4 DEF Sound
  <2> QED
    BY <2>1, <2>5 DEF Head
<1> QED
  BY <1>1, <1>2

LEMMA StartInv ==
    ASSUME NEW p \in Honest, IInv, Start(p)
    PROVE  IInv'
<1> DEFINE valid == Opened(p, "own") = "good"
<1>0. TypeOK /\ SentTells /\ OksValid /\ HonestlyDealt /\ KeysKept
  BY DEF IInv
<1>1. /\ share_valid' = [share_valid EXCEPT ![p] = valid]
      /\ sent' = [sent EXCEPT ![p] = {IF valid THEN "OK" ELSE "IMPLICATE"}]
      /\ phase' = [phase EXCEPT ![p] = "running"]
      /\ UNCHANGED <<dealer, blob, ok_set, implicate_set, recovery_shares,
                     output, recovered>>
      /\ ~share_valid[p]
  BY <1>0 DEF Start, received, SentTells
<1>2. valid \in BOOLEAN
  OBVIOUS
<1>3. TypeOK'
  BY <1>0, <1>1, <1>2 DEF TypeOK, Phase, Kind
<1>4. \A q \in Honest : Opened(q, "own")' = Opened(q, "own")
  BY <1>1 DEF Opened
<1>5. SentTells'
  BY <1>0, <1>1, <1>4 DEF SentTells, TypeOK
<1>6. OksValid'
  BY <1>0, <1>1 DEF OksValid, TypeOK
<1>7. HonestlyDealt' /\ KeysKept'
  <2>1. dealer \in Honest => valid
    BY <1>0, HonestFacts DEF HonestlyDealt, HonestDealing, Opened
  <2> QED
    BY <1>0, <1>1, <2>1 DEF HonestlyDealt, HonestDealing, KeysKept, TypeOK
<1> QED
  BY <1>3, <1>5, <1>6, <1>7 DEF IInv

LEMMA LoseInv ==
    ASSUME NEW p \in Honest, IInv, Lose(p)
    PROVE  IInv'
BY DEF IInv, TypeOK, SentTells, OksValid, HonestlyDealt, HonestDealing, KeysKept,
       Lose, received, results, Phase, Opened

LEMMA RaiseInv ==
    ASSUME NEW p \in Honest, IInv, Raise(p), phase[p] = "running",
           UNCHANGED <<dealer, blob>>
    PROVE  IInv'
BY DEF IInv, TypeOK, SentTells, OksValid, HonestlyDealt, HonestDealing, KeysKept,
       Raise, received, results, Phase, Opened

\* What the steps of Next have in common.
LEMMA StepCases ==
    ASSUME NEW p \in Honest, IInv, Step(p)
    PROVE  \/ Start(p)
           \/ Lose(p)
           \/ phase[p] = "running" /\ UNCHANGED <<dealer, blob>> /\ Head(p)
<1>1. ASSUME NEW q \in Proc, RecvOk(p, q)
      PROVE  phase[p] = "running" /\ UNCHANGED <<dealer, blob>> /\ Head(p)
  BY <1>1, OkSound DEF RecvOk, Take
<1>2. ASSUME NEW q \in Proc, NEW key \in KeysOf(q), RecvImplicate(p, q, key)
      PROVE  phase[p] = "running" /\ UNCHANGED <<dealer, blob>> /\ Head(p)
  BY <1>2, ImplicateSound DEF RecvImplicate, Take
<1>3. ASSUME NEW q \in Proc, NEW key \in KeysOf(q), RecvRecovery(p, q, key)
      PROVE  phase[p] = "running" /\ UNCHANGED <<dealer, blob>> /\ Head(p)
  BY <1>3, RecoverySound DEF RecvRecovery, Take
<1> QED
  BY <1>1, <1>2, <1>3 DEF Step

LEMMA NextInv == IInv /\ [Next]_vars => IInv'
<1> SUFFICES ASSUME IInv, [Next]_vars PROVE IInv'
  OBVIOUS
<1>1. ASSUME NEW p \in Honest, Step(p) PROVE IInv'
  <2>1. CASE Start(p)
    BY <2>1, StartInv
  <2>2. CASE phase[p] = "running" /\ UNCHANGED <<dealer, blob>> /\ Head(p)
    BY <2>2, HeadInv, RaiseInv DEF Head
  <2>3. CASE Lose(p)
    BY <2>3, LoseInv
  <2> QED
    BY <1>1, <2>1, <2>2, <2>3, StepCases
<1>2. CASE UNCHANGED vars
  BY <1>2 DEF IInv, TypeOK, SentTells, OksValid, HonestlyDealt, HonestDealing,
              KeysKept, vars, received, results, Opened
<1> QED
  BY <1>1, <1>2 DEF Next

-----------------------------------------------------------------------------
\* The inductive invariant of one sharing (HbAvssLight of hbavss.py).
THEOREM SharingInvariant == Spec => []IInv
<1> QED
  BY InitInv, NextInv, PTL DEF Spec

\* As long as the dealer follows the code no honest party shows its private
\* key (_handle_implication, and the senders of IMPLICATE and RECOVERY).
THEOREM KeysKeptHolds == Spec => []KeysKept
<1>1. IInv => KeysKept
  BY DEF IInv
<1> QED
  BY <1>1, SharingInvariant, PTL

LEMMA MoreValid ==
    ASSUME IInv, IInv', \A q \in Honest : share_valid[q] => share_valid'[q]
    PROVE  Cardinality({q \in Honest : share_valid[q]})
              <= Cardinality({q \in Honest : share_valid'[q]})
           /\ Cardinality({q \in Honest : share_valid[q]}) \in Nat
           /\ Cardinality({q \in Honest : share_valid'[q]}) \in Nat
<1> DEFINE V == {q \in Honest : share_valid[q]}
           W == {q \in Honest : share_valid'[q]}
<1>1. V \subseteq W /\ W \subseteq Honest
  OBVIOUS
<1>2. IsFiniteSet(W) /\ IsFiniteSet(V)
  BY <1>1, HonestFacts, FS_Subset
<1> QED
  BY <1>1, <1>2, FS_Subset, FS_CardinalityType

LEMMA HeadShared ==
    ASSUME NEW p \in Honest, NEW oks, NEW implicates, NEW shares, NEW sends,
           IInv, IInv', Shared, UNCHANGED dealer,
           Sound(p, oks, implicates, shares, sends),
           LoopHead(p, oks, implicates, shares, sends)
    PROVE  Shared'
<1> DEFINE byOk  == Cardinality(oks) = OutputThreshold /\ share_valid[p] /\ output[p] = None
           byRec == Cardinality(shares) = T + 1 /\ output[p] = None /\ ~byOk
           V == {q \in Honest : share_valid[q]}
           W == {q \in Honest : share_valid'[q]}
<1>1. /\ share_valid' = [share_valid EXCEPT ![p] = @ \/ byRec]
      /\ recovered' = [recovered EXCEPT ![p] = recovered[p] \/ byRec]
      /\ output' = [output EXCEPT ![p] = IF byOk THEN "point"
                                         ELSE IF byRec THEN Interpolated(shares)
                                         ELSE @]
  BY DEF LoopHead
<1>2. byOk => Cardinality(oks) = 2 * T + 1
  BY DEF OutputThreshold
<1> HIDE DEF byRec, byOk
<1>3. TypeOK
  BY DEF IInv
<1>4. \A q \in Honest : share_valid[q] => share_valid'[q]
  BY <1>1, <1>3 DEF TypeOK
<1>5. Cardinality(V) <= Cardinality(W) /\ Cardinality(V) \in Nat /\ Cardinality(W) \in Nat
  BY <1>4, MoreValid
<1>6. byOk => Cardinality(V) >= T + 1
  <2>1. oks \in SUBSET Proc /\ oks \cap Honest \subseteq V /\ V \in SUBSET Honest
    BY DEF Sound
  <2> QED
    BY <1>2, <2>1, HonestMajority
<1>7. Interpolated(shares) # "point" => dealer \in Faulty /\ Degree = "higher"
  BY SizeAssumption DEF Interpolated, Sound, IInv, TypeOK, Honest
<1> SUFFICES ASSUME NEW q \in Honest, output'[q] # None
             PROVE  /\ ~recovered'[q] => /\ output'[q] = "point"
                                         /\ Cardinality(W) >= T + 1
                    /\ output'[q] # "point" => dealer \in Faulty /\ Degree = "higher"
  BY DEF Shared
<1>8. CASE q = p /\ (byOk \/ byRec)
  <2>1. /\ output'[p] = IF byOk THEN "point" ELSE Interpolated(shares)
        /\ recovered'[p] <=> (recovered[p] \/ byRec)
    BY <1>1, <1>3, <1>8 DEF TypeOK
  <2>2. byOk => Cardinality(W) >= T + 1
    BY <1>5, <1>6, HonestFacts
  <2> QED
    BY <1>7, <1>8, <2>1, <2>2
<1>9. CASE ~(q = p /\ (byOk \/ byRec))
  <2>1. output'[q] = output[q] /\ (recovered'[q] <=> recovered[q])
    BY <1>1, <1>3, <1>9 DEF TypeOK
  <2>2. /\ ~recovered[q] => output[q] = "point" /\ Cardinality(V) >= T + 1
        /\ output[q] # "point" => dealer \in Faulty /\ Degree = "higher"
    BY <2>1 DEF Shared
  <2> QED
    BY <1>5, <2>1, <2>2, HonestFacts
<1> QED
  BY <1>8, <1>9

LEMMA SharedStep ==
    ASSUME IInv, IInv', Shared, [Next]_vars
    PROVE  Shared'
<1>1. ASSUME NEW p \in Honest, Step(p) PROVE Shared'
  <2>1. CASE Start(p)
    <3>1. UNCHANGED <<dealer, output, recovered>>
      BY <2>1 DEF Start
    <3>2. \A q \in Honest : share_valid[q] => share_valid'[q]
      BY <2>1 DEF Start, IInv, SentTells, TypeOK
    <3> QED
      BY <3>1, <3>2, MoreValid, HonestFacts DEF Shared
  <2>2. CASE Lose(p)
    BY <2>2 DEF Lose, results, Shared
  <2>3. CASE Head(p) /\ UNCHANGED dealer
    <3>1. CASE Raise(p)
      BY <2>3, <3>1 DEF Raise, results, Shared
    <3> QED BY <2>3, <3>1, HeadShared DEF Head
  <2> QED
    BY <1>1, <2>1, <2>2, <2>3, StepCases
<1>2. CASE UNCHANGED vars
  BY <1>2 DEF vars, results, Shared
<1> QED
  BY <1>1, <1>2 DEF Next

\* Every share that is output is a point of the committed polynomial, unless a
\* faulty dealer commits to one of a higher degree and the share is recovered;
\* and T + 1 honest parties have theirs when the first outputs the share it was
\* dealt, whatever the degree (_process_avss_msg).
THEOREM SharedHolds == Spec => []Shared
<1>1. Init => Shared
  BY DEF Init, Shared
<1>2. IInv /\ IInv' /\ Shared /\ [Next]_vars => Shared'
  BY SharedStep
<1> QED
  BY <1>1, <1>2, SharingInvariant, PTL DEF Spec

-----------------------------------------------------------------------------
(* With an honest dealer.                                                  *)

\* Every honest party has its share and says OK; nobody but faulty parties
\* implicates the dealer, so that no loop ends or raises before 2T + 1 OKs,
\* and no party has so many without having output its share.
Undisturbed ==
    dealer \in Honest =>
        \A p \in Honest :
            /\ phase[p] # "raised"
            /\ phase[p] \notin {"waiting", "lost"} =>
                  "OK" \in sent[p] /\ share_valid[p]
            /\ phase[p] = "ended" => output[p] # None
            /\ implicate_set[p] \subseteq Faulty
            /\ output[p] = None => Cardinality(ok_set[p]) <= 2 * T

LEMMA PartySets ==
    ASSUME NEW S \in SUBSET Proc
    PROVE  IsFiniteSet(S) /\ Cardinality(S) \in Nat
BY HonestFacts, FS_Subset, FS_CardinalityType

\* One more OK at most is counted when the loop comes round.
LEMMA HeadUndisturbed ==
    ASSUME NEW p \in Honest, NEW q \in Proc,
           NEW oks, NEW implicates, NEW shares, NEW sends,
           IInv, Undisturbed, phase[p] = "running",
           UNCHANGED <<dealer, blob>>, dealer \in Honest,
           Sound(p, oks, implicates, shares, sends),
           oks \subseteq ok_set[p] \cup {q}, implicates \subseteq Faulty,
           LoopHead(p, oks, implicates, shares, sends)
    PROVE  Undisturbed'
<1> DEFINE byOk  == Cardinality(oks) = OutputThreshold /\ share_valid[p] /\ output[p] = None
           byRec == Cardinality(shares) = T + 1 /\ output[p] = None /\ ~byOk
           ends  == \/ Cardinality(oks) = N
                    \/ Cardinality(implicates) >= T + 1
                    \/ /\ Cardinality(oks) >= 2 * T + 1
                       /\ "RECOVERY" \in sends \/ recovered[p] \/ byRec
<1>1. TypeOK
  BY DEF IInv
<1>2. /\ "OK" \in sent[p] /\ share_valid[p]
      /\ output[p] = None => Cardinality(ok_set[p]) <= 2 * T
  BY DEF Undisturbed
<1>3. output[p] = None => Cardinality(oks) <= 2 * T + 1
  <2>1. ok_set[p] \in SUBSET Proc /\ oks \in SUBSET Proc
    BY <1>1 DEF TypeOK, Sound
  <2>2. /\ IsFiniteSet(ok_set[p]) /\ Cardinality(ok_set[p]) \in Nat
        /\ Cardinality(oks) \in Nat
    BY <2>1, PartySets
  <2>3. /\ IsFiniteSet(ok_set[p] \cup {q})
        /\ Cardinality(ok_set[p] \cup {q}) <= Cardinality(ok_set[p]) + 1
        /\ Cardinality(ok_set[p] \cup {q}) \in Nat
    <3>1. CASE q \in ok_set[p]
      <4>1. ok_set[p] \cup {q} = ok_set[p]
        BY <3>1
      <4>2. Cardinality(ok_set[p] \cup {q}) = Cardinality(ok_set[p])
        BY <4>1
      <4>3. IsFiniteSet(ok_set[p] \cup {q})
        BY <2>2, <4>1
      <4> QED BY <2>2, <4>2, <4>3
    <3>2. CASE q \notin ok_set[p]
      BY <2>2, <3>2, FS_AddElement, FS_CardinalityType
    <3> QED BY <3>1, <3>2
  <2>4. Cardinality(oks) <= Cardinality(ok_set[p] \cup {q})
    BY <2>3, FS_Subset
  <2> QED BY <1>2, <2>2, <2>3, <2>4, HonestFacts
<1>4. Cardinality(implicates) <= T /\ Cardinality(implicates) \in Nat
  BY HonestFacts, FS_Subset, FS_CardinalityType
<1>5. /\ \A x \in Honest : x # p => /\ phase'[x] = phase[x]
                                    /\ sent'[x] = sent[x]
                                    /\ share_valid'[x] = share_valid[x]
                                    /\ output'[x] = output[x]
                                    /\ implicate_set'[x] = implicate_set[x]
                                    /\ ok_set'[x] = ok_set[x]
      /\ phase'[p] = IF ends THEN "ended" ELSE "running"
      /\ sends \subseteq sent'[p]
      /\ share_valid'[p]
      /\ implicate_set'[p] = implicates
      /\ ok_set'[p] = oks
  BY <1>1, <1>2 DEF LoopHead, TypeOK
<1>6. /\ output[p] # None => output'[p] # None
      /\ byOk => output'[p] # None
  <2>1. Interpolated(shares) # None
    BY SizeAssumption DEF Interpolated
  <2>2. output'[p] = IF byOk THEN "point"
                     ELSE IF byRec THEN Interpolated(shares) ELSE output[p]
    BY <1>1 DEF LoopHead, TypeOK
  <2> HIDE DEF byRec
  <2> QED BY <2>1, <2>2, SizeAssumption
<1>7. Cardinality(oks) \in Nat /\ N \in Nat
  <2>1. oks \in SUBSET Proc
    BY DEF Sound
  <2> QED BY <2>1, PartySets DEF N
<1>8. output'[p] = None => Cardinality(oks) <= 2 * T
  <2> SUFFICES ASSUME output'[p] = None PROVE Cardinality(oks) <= 2 * T
    OBVIOUS
  <2>1. output[p] = None /\ ~byOk
    BY <1>6
  <2>2. Cardinality(oks) # 2 * T + 1
    BY <1>2, <2>1 DEF OutputThreshold
  <2> QED BY <1>3, <1>7, <2>1, <2>2, HonestFacts
<1>9. ends => output'[p] # None
  <2>1. N >= 3 * T + 1 /\ T \in Nat
    BY SizeAssumption
  <2>2. ends => Cardinality(oks) >= 2 * T + 1
    BY <1>4, <1>7, <2>1
  <2> QED BY <1>7, <1>8, <2>1, <2>2
<1>10. "OK" \in sends
  BY <1>2 DEF Sound
<1> HIDE DEF ends, byOk
<1> QED BY <1>5, <1>8, <1>9, <1>10 DEF Undisturbed

\* An honest dealer's blob opens for its party, whoever shows the key.
LEMMA BlobGood ==
    ASSUME IInv, dealer \in Honest, NEW q \in Proc, NEW key \in KeysOf(q)
    PROVE  /\ Opened(q, key) \in {"good", "garbled"}
           /\ ImplicateOutcome(q, key) = "invalid"
BY DEF IInv, HonestlyDealt, HonestDealing, Opened, ImplicateOutcome

LEMMA UndisturbedStep == IInv /\ Undisturbed /\ [Next]_vars => Undisturbed'
<1> SUFFICES ASSUME IInv, Undisturbed, [Next]_vars, dealer' \in Honest
             PROVE  Undisturbed'
  BY DEF Undisturbed
<1>1. CASE UNCHANGED vars
  BY <1>1 DEF Undisturbed, vars, received, results
<1>2. ASSUME NEW p \in Honest, Step(p) PROVE Undisturbed'
  <2>1. UNCHANGED <<dealer, blob>> /\ dealer \in Honest
    BY <1>2 DEF Step, Start, Lose, RecvOk, RecvImplicate, RecvRecovery, Take
  <2>2. TypeOK /\ KeysKept
    BY DEF IInv
  <2>3. CASE Start(p)
    <3>1. Opened(p, "own") = "good"
      BY <2>1, HonestFacts DEF IInv, HonestlyDealt, HonestDealing, Opened
    <3>2. /\ \A x \in Honest : x # p => /\ phase'[x] = phase[x]
                                        /\ sent'[x] = sent[x]
                                        /\ share_valid'[x] = share_valid[x]
          /\ phase'[p] = "running" /\ sent'[p] = {"OK"} /\ share_valid'[p]
          /\ UNCHANGED <<output, implicate_set, ok_set>>
      BY <2>2, <2>3, <3>1 DEF Start, received, TypeOK
    <3> QED BY <2>1, <3>2 DEF Undisturbed
  <2>4. ASSUME NEW q \in Proc, RecvOk(p, q) PROVE Undisturbed'
    <3>1. q \in Honest => share_valid[q]
      BY <2>4 DEF IInv, SentTells, RecvOk, Take
    <3>2. Sound(p, ok_set[p] \cup {q}, implicate_set[p], recovery_shares[p], sent[p])
      BY <3>1, SoundNow DEF Sound
    <3>3. implicate_set[p] \subseteq Faulty
      BY <2>1 DEF Undisturbed
    <3>4. phase[p] = "running"
      BY <2>4 DEF RecvOk, Take
    <3> QED BY <2>1, <2>4, <3>2, <3>3, <3>4, HeadUndisturbed DEF RecvOk
  <2>5. ASSUME NEW q \in Proc, NEW key \in KeysOf(q), RecvImplicate(p, q, key)
        PROVE  Undisturbed'
    <3>1. phase[p] = "running" /\ (q \in Honest => "IMPLICATE" \in sent[q])
      BY <2>5 DEF RecvImplicate, Take
    <3>2. q \notin Honest
      BY <2>1, <2>2, <3>1 DEF KeysKept
    <3>3. share_valid[p] /\ "RECOVERY" \notin sent[p]
      BY <2>1, <2>2, <3>1 DEF Undisturbed, KeysKept
    <3>4. ImplicateOutcome(q, key) = "invalid"
      BY <2>1, BlobGood
    <3>5. LoopHead(p, ok_set[p] \cup {q}, implicate_set[p] \cup {q},
                   recovery_shares[p], sent[p])
      <4>1. {x \in {q} : "invalid" = "invalid"} = {q}
        OBVIOUS
      <4>2. sent[p] \cup {x \in {"RECOVERY"} : "invalid" = "valid"} = sent[p]
        OBVIOUS
      <4> QED BY <2>5, <3>3, <3>4, <4>1, <4>2 DEF RecvImplicate
    <3>6. Sound(p, ok_set[p] \cup {q}, implicate_set[p] \cup {q},
                recovery_shares[p], sent[p])
      BY <3>2, SoundNow DEF Sound
    <3>7. implicate_set[p] \cup {q} \subseteq Faulty
      BY <2>1, <3>2 DEF Undisturbed, Honest
    <3> QED BY <2>1, <3>1, <3>5, <3>6, <3>7, HeadUndisturbed
  <2>6. ASSUME NEW q \in Proc, NEW key \in KeysOf(q), RecvRecovery(p, q, key)
        PROVE  Undisturbed'
    <3>1. phase[p] = "running"
      BY <2>6 DEF RecvRecovery, Take
    <3>2. share_valid[p]
      BY <2>1, <3>1 DEF Undisturbed
    <3>3. LoopHead(p, ok_set[p], implicate_set[p], recovery_shares[p], sent[p])
      BY <2>6, <3>2 DEF RecvRecovery
    <3>4. Sound(p, ok_set[p], implicate_set[p], recovery_shares[p], sent[p])
      BY SoundNow
    <3>5. implicate_set[p] \subseteq Faulty
      BY <2>1 DEF Undisturbed
    <3> QED BY <2>1, <3>1, <3>3, <3>4, <3>5, HeadUndisturbed
  <2>7. CASE Lose(p)
    BY <2>1, <2>2, <2>7 DEF Lose, received, results, Undisturbed, TypeOK
  <2> QED BY <1>2, <2>3, <2>4, <2>5, <2>6, <2>7 DEF Step
<1> QED BY <1>1, <1>2 DEF Next

LEMMA AllDelivered == IInv /\ Undisturbed => SharesDelivered
<1> SUFFICES ASSUME IInv, Undisturbed, dealer \in Honest, OksReceived,
                    NEW p \in Served, output[p] = None, ~Starved(p)
             PROVE  FALSE
  BY DEF SharesDelivered
<1>1. p \in Honest /\ phase[p] # "lost"
  BY DEF Served
<1>2. phase[p] = "running"
  BY <1>1 DEF Undisturbed, OksReceived, IInv, TypeOK, Phase
<1>3. Served \subseteq ok_set[p]
  BY <1>1, <1>2 DEF Undisturbed, OksReceived, Heard, Served
<1>4. IsFiniteSet(ok_set[p]) /\ Cardinality(ok_set[p]) \in Nat
  <2>1. ok_set[p] \in SUBSET Proc
    BY <1>1 DEF IInv, TypeOK
  <2> QED BY <2>1, PartySets
<1>5. /\ Cardinality(Served) <= Cardinality(ok_set[p])
      /\ Cardinality(Served) \in Nat
  BY <1>3, <1>4, FS_Subset, FS_CardinalityType
<1>6. Cardinality(ok_set[p]) <= 2 * T
  BY <1>1 DEF Undisturbed
<1> QED BY <1>4, <1>5, <1>6, HonestFacts DEF Starved

\* With a dealer that follows the code every honest party at which the broadcast
\* returns has its share once the OKs of honest parties have come, whatever
\* faulty parties send, if there are 2T + 1 such parties or it has as many OKs
\* (_process_avss_msg).
THEOREM SharesDeliveredHolds == Spec => []SharesDelivered
<1>1. Init => Undisturbed
  BY FS_EmptySet, HonestFacts DEF Init, Undisturbed
<1> QED
  BY <1>1, UndisturbedStep, AllDelivered, SharingInvariant, PTL DEF Spec
=============================================================================
