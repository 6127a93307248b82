---------------------- MODULE ReliableBroadcastProofs ----------------------
(***************************************************************************)
(* Proofs about ReliableBroadcast for any number of parties, any set of at *)
(* most F faulty ones and any behaviour of theirs the model admits: the    *)
(* inductive invariant and what follows from it, what becomes of one       *)
(* broadcast with an honest leader, whom a stripe that is not verified can *)
(* hurt and that the protocol implements BroadcastService, and what has    *)
(* become of the parties when all messages have been received.             *)
(***************************************************************************)
EXTENDS ReliableBroadcast, FiniteSetTheorems, TLAPS

USE DEF Honest, Roots, Stripes, K, EchoThreshold, ReadyThreshold,
        OutputThreshold

\* Each step keeps every variable in its type.
LEMMA TypeStep == TypeOK /\ [Next]_vars => TypeOK'
<1> SUFFICES ASSUME TypeOK, [Next]_vars PROVE TypeOK'
  OBVIOUS
<1> USE ValueAssumption DEF TypeOK, Echo, NoEcho
<1>1. ASSUME NEW m \in Msgs, Disperse(m) PROVE TypeOK'
  BY <1>1 DEF Disperse
<1>2. ASSUME NEW p \in Honest, NEW root \in Roots, RecvVal(p, root)
      PROVE TypeOK'
  BY <1>2 DEF RecvVal
<1>3. ASSUME NEW p \in Honest, NEW echoes \in [Proc -> Echo \cup {NoEcho}],
             NEW readies \in [Proc -> Roots \cup {None}], NEW root \in Roots,
             Finish(p, echoes, readies, root)
      PROVE /\ stripes' \in [Proc -> [Proc -> Echo \cup {NoEcho}]]
            /\ ready' \in [Proc -> [Proc -> Roots \cup {None}]]
            /\ output' \in [Proc -> Msgs \cup {None, Failed}]
  <2>1. DecodeOutput(echoes, root) \in Msgs \cup {None, Failed}
    BY DEF DecodeOutput
  <2>2. /\ Empty \in [Proc -> Echo \cup {NoEcho}]
        /\ NoReady \in [Proc -> Roots \cup {None}]
    BY DEF Empty, NoReady
  <2> HIDE DEF Echo, NoEcho, Roots
  <2>3. CASE CanOutput(echoes, readies, root)
    <3>1. PICK row \in [Proc -> Echo \cup {NoEcho}] :
              stripes' = [stripes EXCEPT ![p] = row]
      BY <1>3, <2>2, <2>3 DEF Finish
    <3>2. /\ ready' = [ready EXCEPT ![p] = NoReady]
          /\ output' = [output EXCEPT ![p] = DecodeOutput(echoes, root)]
      BY <1>3, <2>3 DEF Finish
    <3> QED BY <2>1, <2>2, <3>1, <3>2
  <2>4. CASE ~CanOutput(echoes, readies, root)
    BY <1>3, <2>4 DEF Finish
  <2> QED BY <2>3, <2>4
<1>4. ASSUME NEW p \in Honest, NEW q \in Proc, NEW root \in Roots,
             NEW stripe \in Stripes, RecvEcho(p, q, root, stripe)
      PROVE TypeOK'
  <2> DEFINE row == [stripes[p] EXCEPT ![q] = [root |-> root, stripe |-> stripe]]
  <2>1. row \in [Proc -> Echo \cup {NoEcho}]
    OBVIOUS
  <2>2. ready[p] \in [Proc -> Roots \cup {None}]
    OBVIOUS
  <2>3. Finish(p, row, ready[p], root)
    BY <1>4 DEF RecvEcho
  <2>4. /\ ready_sent' \in [Proc -> Roots \cup {None}]
        /\ UNCHANGED <<input, from_leader>>
    BY <1>4 DEF RecvEcho
  <2> HIDE DEF row
  <2> QED BY <1>3, <2>1, <2>2, <2>3, <2>4
<1>5. ASSUME NEW p \in Honest, NEW q \in Proc, NEW root \in Roots,
             RecvReady(p, q, root)
      PROVE TypeOK'
  <2> DEFINE row == [ready[p] EXCEPT ![q] = root]
  <2>1. row \in [Proc -> Roots \cup {None}]
    OBVIOUS
  <2>2. stripes[p] \in [Proc -> Echo \cup {NoEcho}]
    OBVIOUS
  <2>3. Finish(p, stripes[p], row, root)
    BY <1>5 DEF RecvReady
  <2>4. /\ ready_sent' \in [Proc -> Roots \cup {None}]
        /\ UNCHANGED <<input, from_leader>>
    BY <1>5 DEF RecvReady
  <2> HIDE DEF row
  <2> QED BY <1>3, <2>1, <2>2, <2>3, <2>4
<1>6. CASE UNCHANGED vars
  BY <1>6 DEF vars
<1> QED BY <1>1, <1>2, <1>4, <1>5, <1>6 DEF Next

\* The variables of reliablebroadcast() keep their types: an output is a
\* message or an exception, never a root that is no message.
THEOREM TypeCorrect == Spec => []TypeOK
<1>1. Init => TypeOK
  BY ValueAssumption DEF Init, TypeOK, Empty, NoReady, NoEcho, Echo
<1> QED BY <1>1, TypeStep, PTL DEF Spec

-----------------------------------------------------------------------------
(* Counting.                                                               *)

LEMMA Sizes ==
    /\ IsFiniteSet(Proc) /\ IsFiniteSet(Honest) /\ IsFiniteSet(Faulty)
    /\ N \in Nat /\ Cardinality(Faulty) \in Nat /\ Cardinality(Honest) \in Nat
    /\ Cardinality(Honest) + Cardinality(Faulty) = N
<1>1. IsFiniteSet(Proc) /\ IsFiniteSet(Faulty) /\ IsFiniteSet(Honest)
  BY ThresholdAssumption, FaultAssumption, FS_Subset, FS_Difference
<1>2. Proc \cap Faulty = Faulty
  BY FaultAssumption
<1>3. Cardinality(Honest) = N - Cardinality(Faulty)
  BY <1>2, ThresholdAssumption, FS_Difference DEF N
<1>4. N \in Nat /\ Cardinality(Faulty) \in Nat /\ Cardinality(Honest) \in Nat
  BY <1>1, FS_CardinalityType DEF N
<1> QED BY <1>1, <1>3, <1>4

\* Of the members of a set of parties, all but the faulty ones are honest.
LEMMA HonestPart ==
    ASSUME NEW S \in SUBSET Proc, NEW H \in SUBSET Honest,
           \A q \in S : q \in Honest => q \in H
    PROVE  /\ Cardinality(S) \in Nat /\ Cardinality(H) \in Nat
           /\ Cardinality(S) <= Cardinality(H) + Cardinality(Faulty)
<1>1. IsFiniteSet(S) /\ IsFiniteSet(H) /\ IsFiniteSet(H \cap Faulty)
  BY Sizes, FS_Subset
<1>2. /\ IsFiniteSet(H \cup Faulty)
      /\ Cardinality(H \cup Faulty)
            = Cardinality(H) + Cardinality(Faulty) - Cardinality(H \cap Faulty)
  BY <1>1, Sizes, FS_Union
<1>3. S \in SUBSET (H \cup Faulty)
  OBVIOUS
<1>4. Cardinality(S) <= Cardinality(H \cup Faulty)
  BY <1>2, <1>3, FS_Subset
<1>5. /\ Cardinality(S) \in Nat /\ Cardinality(H) \in Nat
      /\ Cardinality(H \cap Faulty) \in Nat /\ Cardinality(Faulty) \in Nat
  BY <1>1, Sizes, FS_CardinalityType
<1> QED BY <1>2, <1>4, <1>5

\* A larger set of honest parties counts for more.
LEMMA Larger ==
    ASSUME NEW A \in SUBSET Honest, NEW B \in SUBSET Honest, A \subseteq B
    PROVE  /\ Cardinality(A) \in Nat /\ Cardinality(B) \in Nat
           /\ Cardinality(A) <= Cardinality(B)
<1>1. IsFiniteSet(A) /\ IsFiniteSet(B)
  BY Sizes, FS_Subset
<1> QED BY <1>1, FS_Subset, FS_CardinalityType

\* Two sets of honest parties that each reach the echo threshold with the
\* help of the faulty ones share an honest party.
LEMMA EchoQuorumsMeet ==
    ASSUME NEW A \in SUBSET Honest, NEW B \in SUBSET Honest,
           Cardinality(A) + Cardinality(Faulty) >= EchoThreshold,
           Cardinality(B) + Cardinality(Faulty) >= EchoThreshold
    PROVE  A \cap B # {}
<1>1. Cardinality(A) \in Nat /\ Cardinality(B) \in Nat
  BY Larger
<1>2. Cardinality(A) + Cardinality(B) > Cardinality(Honest)
  BY <1>1, Sizes, ThresholdAssumption, FaultAssumption
<1> QED BY <1>2, Sizes, FS_MajoritiesIntersect

\* More parties than can be faulty include an honest one.
LEMMA OneIsHonest ==
    ASSUME NEW S \in SUBSET Proc, Cardinality(S) >= ReadyThreshold
    PROVE  \E q \in S : q \in Honest
<1> SUFFICES ASSUME S \in SUBSET Faulty PROVE FALSE
  OBVIOUS
<1>1. Cardinality(S) <= Cardinality(Faulty) /\ Cardinality(S) \in Nat
  BY Sizes, FS_Subset, FS_CardinalityType
<1> QED BY <1>1, Sizes, FaultAssumption, ThresholdAssumption

-----------------------------------------------------------------------------
(* The invariant gives the properties.                                     *)

LEMMA ReadiesAgree == IInv => ReadyAgreement
<1> SUFFICES ASSUME IInv, NEW p \in Honest, NEW q \in Honest,
                    ready_sent[p] # None, ready_sent[q] # None
             PROVE  ready_sent[p] = ready_sent[q]
  BY DEF ReadyAgreement
<1>1. /\ EchoedBy(ready_sent[p]) \in SUBSET Honest
      /\ EchoedBy(ready_sent[q]) \in SUBSET Honest
  BY DEF EchoedBy
<1>2. EchoedBy(ready_sent[p]) \cap EchoedBy(ready_sent[q]) # {}
  BY <1>1, EchoQuorumsMeet DEF IInv, ReadySupported
<1> QED BY <1>2 DEF EchoedBy

LEMMA OutputReady ==
    ASSUME IInv, NEW p \in Honest, output[p] \in Msgs
    PROVE  /\ Cardinality(ReadiedBy(output[p])) \in Nat
           /\ Cardinality(ReadiedBy(output[p])) >= ReadyThreshold
           /\ \E q \in Honest : ready_sent[q] = output[p]
<1>1. ReadiedBy(output[p]) \in SUBSET Honest
  BY DEF ReadiedBy
<1>2. Cardinality(ReadiedBy(output[p])) \in Nat
  BY <1>1, Larger
<1>3. Cardinality(ReadiedBy(output[p])) >= ReadyThreshold
  BY <1>2, Sizes, FaultAssumption, ThresholdAssumption
     DEF IInv, OutputSupported
<1>4. ReadiedBy(output[p]) # {}
  <2> SUFFICES ASSUME ReadiedBy(output[p]) = {} PROVE FALSE
    OBVIOUS
  <2>1. Cardinality(ReadiedBy(output[p])) = 0
    BY FS_EmptySet
  <2> QED BY <1>3, <2>1, ThresholdAssumption
<1> QED BY <1>2, <1>3, <1>4 DEF ReadiedBy

LEMMA OutputsAgree == IInv => Agreement
<1> SUFFICES ASSUME IInv, NEW p \in Honest, NEW q \in Honest,
                    output[p] \in Msgs, output[q] \in Msgs
             PROVE  output[p] = output[q]
  BY DEF Agreement
<1>1. PICK a \in Honest : ready_sent[a] = output[p]
  BY OutputReady
<1>2. PICK b \in Honest : ready_sent[b] = output[q]
  BY OutputReady
<1> QED BY <1>1, <1>2, ReadiesAgree, ValueAssumption DEF ReadyAgreement

LEMMA OutputsRecoverable == IInv => Recoverable
<1> SUFFICES ASSUME IInv, NEW p \in Honest, output[p] \in Msgs
             PROVE  /\ Cardinality(ReadiedBy(output[p])) >= ReadyThreshold
                    /\ Cardinality(EchoedBy(output[p])) >= K
  BY DEF Recoverable
<1>1. PICK a \in Honest : ready_sent[a] = output[p]
  BY OutputReady
<1>2. Cardinality(EchoedBy(output[p])) + Cardinality(Faulty) >= EchoThreshold
  BY <1>1, ValueAssumption DEF IInv, ReadySupported
<1>3. Cardinality(EchoedBy(output[p])) \in Nat
  BY Larger DEF EchoedBy
<1>4. Cardinality(EchoedBy(output[p])) >= K
  BY <1>2, <1>3, Sizes, FaultAssumption, ThresholdAssumption
<1> QED BY <1>4, OutputReady

-----------------------------------------------------------------------------
(* The invariant holds initially and is kept by every step.                *)

\* What honest parties have broadcast never changes, so the supporters of a
\* root only grow in number.
SentStays == \A p \in Honest :
    /\ from_leader[p] # None => from_leader'[p] = from_leader[p]
    /\ ready_sent[p] # None => ready_sent'[p] = ready_sent[p]

LEMMA SupportGrows ==
    ASSUME SentStays, NEW root \in Roots
    PROVE  /\ Cardinality(EchoedBy(root)') >= Cardinality(EchoedBy(root))
           /\ Cardinality(ReadiedBy(root)') >= Cardinality(ReadiedBy(root))
           /\ Cardinality(EchoedBy(root)) \in Nat
           /\ Cardinality(EchoedBy(root)') \in Nat
           /\ Cardinality(ReadiedBy(root)) \in Nat
           /\ Cardinality(ReadiedBy(root)') \in Nat
<1>1. /\ EchoedBy(root) \in SUBSET Honest /\ EchoedBy(root)' \in SUBSET Honest
      /\ EchoedBy(root) \subseteq EchoedBy(root)'
  BY ValueAssumption DEF EchoedBy, SentStays
<1>2. /\ ReadiedBy(root) \in SUBSET Honest /\ ReadiedBy(root)' \in SUBSET Honest
      /\ ReadiedBy(root) \subseteq ReadiedBy(root)'
  BY ValueAssumption DEF ReadiedBy, SentStays
<1> QED BY <1>1, <1>2, Larger

\* The invariant survives a step if the only new READY, if any, is p's and
\* supported, and the only new output, if any, is p's and supported.
LEMMA SupportKept ==
    ASSUME IInv, TypeOK', SentStays, NEW p \in Honest, NEW root \in Roots,
           \A q \in Honest : q # p => /\ ready_sent'[q] = ready_sent[q]
                                      /\ output'[q] = output[q],
           \/ ready_sent'[p] = ready_sent[p]
           \/ /\ ready_sent'[p] = root
              /\ Cardinality(EchoedBy(root)) + Cardinality(Faulty)
                    >= EchoThreshold,
           \/ output'[p] = output[p]
           \/ output'[p] = Failed
           \/ /\ output'[p] = root
              /\ Cardinality(ReadiedBy(root)) + Cardinality(Faulty)
                    >= OutputThreshold
    PROVE  ReadySupported' /\ OutputSupported'
<1>1. ASSUME NEW q \in Honest, ready_sent'[q] # None
      PROVE  Cardinality(EchoedBy(ready_sent[q])') + Cardinality(Faulty)
                >= EchoThreshold
  <2>1. PICK r \in Roots : r = ready_sent'[q]
    BY <1>1 DEF TypeOK
  <2>2. Cardinality(EchoedBy(r)) + Cardinality(Faulty) >= EchoThreshold
    BY <1>1, <2>1 DEF IInv, ReadySupported
  <2>3. Cardinality(EchoedBy(r)') + Cardinality(Faulty) >= EchoThreshold
    BY <2>2, SupportGrows, Sizes, ThresholdAssumption
  <2> QED BY <2>1, <2>3 DEF EchoedBy
<1>2. ASSUME NEW q \in Honest, output'[q] \in Msgs
      PROVE  Cardinality(ReadiedBy(output[q])') + Cardinality(Faulty)
                >= OutputThreshold
  <2>1. PICK r \in Roots : r = output'[q]
    BY <1>2
  <2>2. Cardinality(ReadiedBy(r)) + Cardinality(Faulty) >= OutputThreshold
    BY <1>2, <2>1, ValueAssumption DEF IInv, OutputSupported
  <2>3. Cardinality(ReadiedBy(r)') + Cardinality(Faulty) >= OutputThreshold
    BY <2>2, SupportGrows, Sizes, ThresholdAssumption
  <2> QED BY <2>1, <2>3 DEF ReadiedBy
<1> QED BY <1>1, <1>2 DEF ReadySupported, OutputSupported

\* The end of a handler keeps genuine rows genuine and returns only a value
\* with enough READYs behind it.
LEMMA FinishStep ==
    ASSUME IInv, SentStays, NEW p \in Honest, NEW root \in Roots,
           NEW echoes \in [Proc -> Echo \cup {NoEcho}],
           NEW readies \in [Proc -> Roots \cup {None}],
           \A q \in Honest : echoes[q].root # None =>
                                 echoes[q].root = from_leader[q],
           \A q \in Honest : readies[q] # None => readies[q] = ready_sent[q],
           Finish(p, echoes, readies, root)
    PROVE  /\ EchoesGenuine' /\ ReadiesGenuine'
           /\ \A q \in Honest : q # p => output'[q] = output[q]
           /\ \/ output'[p] = output[p]
              \/ output'[p] = Failed
              \/ /\ output'[p] = root
                 /\ Cardinality(ReadiedBy(root)) + Cardinality(Faulty)
                       >= OutputThreshold
<1> USE DEF IInv, TypeOK
<1>1. CASE ~CanOutput(echoes, readies, root)
  <2>1. /\ stripes' = [stripes EXCEPT ![p] = echoes]
        /\ ready' = [ready EXCEPT ![p] = readies]
        /\ output' = output
    BY <1>1 DEF Finish
  <2>2. EchoesGenuine'
    BY <2>1 DEF EchoesGenuine, SentStays
  <2>3. ReadiesGenuine'
    BY <2>1 DEF ReadiesGenuine, SentStays
  <2> QED BY <2>1, <2>2, <2>3
<1>2. CASE CanOutput(echoes, readies, root)
  <2>1. /\ \/ stripes' = [stripes EXCEPT ![p] = Empty]
           \/ stripes' = [stripes EXCEPT ![p] = echoes]
        /\ ready' = [ready EXCEPT ![p] = NoReady]
        /\ output' = [output EXCEPT ![p] = DecodeOutput(echoes, root)]
    BY <1>2 DEF Finish
  <2>2. EchoesGenuine'
    <3>1. \A x \in Honest : stripes'[x] \in {stripes[x], echoes, Empty}
      BY <2>1
    <3>2. \A q \in Proc : Empty[q].root = None
      BY DEF Empty, NoEcho
    <3> QED BY <2>1, <3>1, <3>2 DEF EchoesGenuine, SentStays
  <2>3. ReadiesGenuine'
    BY <2>1 DEF ReadiesGenuine, SentStays, NoReady
  <2>4. /\ Readiers(readies, root) \in SUBSET Proc
        /\ ReadiedBy(root) \in SUBSET Honest
        /\ \A q \in Readiers(readies, root) :
              q \in Honest => q \in ReadiedBy(root)
    BY ValueAssumption DEF Readiers, ReadiedBy
  <2>5. Cardinality(ReadiedBy(root)) + Cardinality(Faulty) >= OutputThreshold
    <3>1. /\ Cardinality(Readiers(readies, root)) \in Nat
          /\ Cardinality(ReadiedBy(root)) \in Nat
          /\ Cardinality(Readiers(readies, root))
                <= Cardinality(ReadiedBy(root)) + Cardinality(Faulty)
      BY <2>4, HonestPart
    <3>2. Cardinality(Readiers(readies, root)) >= OutputThreshold
      BY <1>2 DEF CanOutput
    <3> QED BY <3>1, <3>2, Sizes, ThresholdAssumption
  <2>6. DecodeOutput(echoes, root) \in {root, Failed}
    BY DEF DecodeOutput
  <2> QED BY <2>1, <2>2, <2>3, <2>5, <2>6
<1> QED BY <1>1, <1>2

\* An ECHO: p holds N - F of them when it sends READY on their account.
LEMMA RecvEchoKeeps ==
    ASSUME IInv, TypeOK', NEW p \in Honest, NEW q \in Proc,
           NEW root \in Roots, NEW stripe \in Stripes,
           RecvEcho(p, q, root, stripe)
    PROVE  IInv'
<1> DEFINE row == [stripes[p] EXCEPT ![q] = [root |-> root, stripe |-> stripe]]
<1>1. /\ row \in [Proc -> Echo \cup {NoEcho}]
      /\ ready[p] \in [Proc -> Roots \cup {None}]
  BY DEF IInv, TypeOK, Echo
<1>2. \A x \in Honest : row[x].root # None => row[x].root = from_leader[x]
  BY DEF IInv, TypeOK, EchoesGenuine, RecvEcho, EchoSent
<1>3. \A x \in Honest : ready[p][x] # None => ready[p][x] = ready_sent[x]
  BY DEF IInv, ReadiesGenuine
<1>4. /\ Finish(p, row, ready[p], root)
      /\ from_leader' = from_leader
      /\ ready_sent' = IF /\ Cardinality(Echoers(row, root)) >= EchoThreshold
                          /\ ready_sent[p] = None
                       THEN [ready_sent EXCEPT ![p] = root] ELSE ready_sent
  BY DEF RecvEcho
<1> HIDE DEF row
<1>5. SentStays /\ \A x \in Honest : x # p => ready_sent'[x] = ready_sent[x]
  BY <1>4 DEF SentStays, IInv, TypeOK
<1>6. \/ ready_sent'[p] = ready_sent[p]
      \/ /\ ready_sent'[p] = root
         /\ Cardinality(EchoedBy(root)) + Cardinality(Faulty) >= EchoThreshold
  <2>1. /\ Echoers(row, root) \in SUBSET Proc
        /\ EchoedBy(root) \in SUBSET Honest
        /\ \A x \in Echoers(row, root) : x \in Honest => x \in EchoedBy(root)
    BY <1>2, ValueAssumption DEF Echoers, EchoedBy
  <2>2. /\ Cardinality(Echoers(row, root)) \in Nat
        /\ Cardinality(EchoedBy(root)) \in Nat
        /\ Cardinality(Echoers(row, root))
              <= Cardinality(EchoedBy(root)) + Cardinality(Faulty)
    BY <2>1, HonestPart
  <2>3. CASE /\ Cardinality(Echoers(row, root)) >= EchoThreshold
             /\ ready_sent[p] = None
    BY <1>4, <2>2, <2>3, Sizes, ThresholdAssumption DEF IInv, TypeOK
  <2>4. CASE ~(/\ Cardinality(Echoers(row, root)) >= EchoThreshold
               /\ ready_sent[p] = None)
    BY <1>4, <2>4
  <2> QED BY <2>3, <2>4
<1>7. /\ EchoesGenuine' /\ ReadiesGenuine'
      /\ \A x \in Honest : x # p => output'[x] = output[x]
      /\ \/ output'[p] = output[p]
         \/ output'[p] = Failed
         \/ /\ output'[p] = root
            /\ Cardinality(ReadiedBy(root)) + Cardinality(Faulty)
                  >= OutputThreshold
  BY <1>1, <1>2, <1>3, <1>4, <1>5, FinishStep
<1>8. ReadySupported' /\ OutputSupported'
  BY <1>5, <1>6, <1>7, SupportKept
<1> QED BY <1>7, <1>8 DEF IInv

\* A READY: p amplifies F + 1 of them, one of which an honest party sent.
LEMMA RecvReadyKeeps ==
    ASSUME IInv, TypeOK', NEW p \in Honest, NEW q \in Proc,
           NEW root \in Roots, RecvReady(p, q, root)
    PROVE  IInv'
<1> DEFINE row == [ready[p] EXCEPT ![q] = root]
<1>1. /\ row \in [Proc -> Roots \cup {None}]
      /\ stripes[p] \in [Proc -> Echo \cup {NoEcho}]
  BY DEF IInv, TypeOK
<1>2. \A x \in Honest : stripes[p][x].root # None =>
                            stripes[p][x].root = from_leader[x]
  BY DEF IInv, EchoesGenuine
<1>3. \A x \in Honest : row[x] # None => row[x] = ready_sent[x]
  BY DEF IInv, TypeOK, ReadiesGenuine, RecvReady, ReadySent
<1>4. /\ Finish(p, stripes[p], row, root)
      /\ from_leader' = from_leader
      /\ ready_sent' = IF /\ Cardinality(Readiers(row, root)) >= ReadyThreshold
                          /\ ready_sent[p] = None
                       THEN [ready_sent EXCEPT ![p] = root] ELSE ready_sent
  BY DEF RecvReady
<1> HIDE DEF row
<1>5. SentStays /\ \A x \in Honest : x # p => ready_sent'[x] = ready_sent[x]
  BY <1>4 DEF SentStays, IInv, TypeOK
<1>6. \/ ready_sent'[p] = ready_sent[p]
      \/ /\ ready_sent'[p] = root
         /\ Cardinality(EchoedBy(root)) + Cardinality(Faulty) >= EchoThreshold
  <2> SUFFICES ASSUME /\ Cardinality(Readiers(row, root)) >= ReadyThreshold
                      /\ ready_sent[p] = None
               PROVE  /\ ready_sent'[p] = root
                      /\ Cardinality(EchoedBy(root)) + Cardinality(Faulty)
                            >= EchoThreshold
    BY <1>4
  <2>1. PICK x \in Readiers(row, root) : x \in Honest
    BY OneIsHonest DEF Readiers
  <2>2. ready_sent[x] = root
    BY <1>3, <2>1, ValueAssumption DEF Readiers
  <2>3. Cardinality(EchoedBy(root)) + Cardinality(Faulty) >= EchoThreshold
    BY <2>1, <2>2, ValueAssumption DEF IInv, ReadySupported
  <2>4. ready_sent'[p] = root
    BY <1>4 DEF IInv, TypeOK
  <2> QED BY <2>3, <2>4
<1>7. /\ EchoesGenuine' /\ ReadiesGenuine'
      /\ \A x \in Honest : x # p => output'[x] = output[x]
      /\ \/ output'[p] = output[p]
         \/ output'[p] = Failed
         \/ /\ output'[p] = root
            /\ Cardinality(ReadiedBy(root)) + Cardinality(Faulty)
                  >= OutputThreshold
  BY <1>1, <1>2, <1>3, <1>4, <1>5, FinishStep
<1>8. ReadySupported' /\ OutputSupported'
  BY <1>5, <1>6, <1>7, SupportKept
<1> QED BY <1>7, <1>8 DEF IInv

LEMMA IInvStep == IInv /\ [Next]_vars => IInv'
<1> SUFFICES ASSUME IInv, [Next]_vars PROVE IInv'
  OBVIOUS
<1>1. TypeOK'
  BY TypeStep DEF IInv
<1>2. ASSUME UNCHANGED <<from_leader, stripes, ready, ready_sent, output>>
      PROVE  IInv'
  BY <1>1, <1>2 DEF IInv, EchoesGenuine, ReadiesGenuine, ReadySupported,
                    OutputSupported, EchoedBy, ReadiedBy
<1>3. ASSUME NEW m \in Msgs, Disperse(m) PROVE IInv'
  BY <1>2, <1>3 DEF Disperse
<1>4. ASSUME NEW p \in Honest, NEW root \in Roots, RecvVal(p, root)
      PROVE  IInv'
  <2>1. /\ from_leader[p] = None
        /\ from_leader' = [from_leader EXCEPT ![p] = root]
        /\ UNCHANGED <<input, stripes, ready, ready_sent, output>>
    BY <1>4 DEF RecvVal
  <2>2. SentStays
    BY <2>1 DEF SentStays, IInv, TypeOK
  <2>3. EchoesGenuine' /\ ReadiesGenuine'
    BY <2>1, <2>2 DEF IInv, EchoesGenuine, ReadiesGenuine, SentStays
  <2>4. ReadySupported' /\ OutputSupported'
    BY <1>1, <2>1, <2>2, SupportKept
  <2> QED BY <1>1, <2>3, <2>4 DEF IInv
<1>5. ASSUME NEW p \in Honest, NEW q \in Proc, NEW root \in Roots,
             NEW stripe \in Stripes, RecvEcho(p, q, root, stripe)
      PROVE  IInv'
  BY <1>1, <1>5, RecvEchoKeeps
<1>6. ASSUME NEW p \in Honest, NEW q \in Proc, NEW root \in Roots,
             RecvReady(p, q, root)
      PROVE  IInv'
  BY <1>1, <1>6, RecvReadyKeeps
<1>7. CASE UNCHANGED vars
  BY <1>2, <1>7 DEF vars
<1> QED BY <1>3, <1>4, <1>5, <1>6, <1>7 DEF Next

LEMMA IInvInit == Init => IInv
<1> SUFFICES ASSUME Init PROVE IInv
  OBVIOUS
<1>1. TypeOK
  BY ValueAssumption DEF Init, TypeOK, Empty, NoReady, NoEcho, Echo
<1>2. EchoesGenuine /\ ReadiesGenuine
  BY DEF Init, EchoesGenuine, ReadiesGenuine, Empty, NoReady, NoEcho
<1>3. ReadySupported /\ OutputSupported
  BY ValueAssumption DEF Init, ReadySupported, OutputSupported
<1> QED BY <1>1, <1>2, <1>3 DEF IInv

\* What an honest party counts is what was sent, and every READY and every
\* returned value has its quorum behind it.
THEOREM InductiveInvariant == Spec => []IInv
BY IInvInit, IInvStep, PTL DEF Spec

\* No two honest parties return different values (reliablebroadcast, return).
THEOREM AgreementHolds == Spec => []Agreement
BY InductiveInvariant, OutputsAgree, PTL

\* Honest parties send READY for one root only (echo_threshold,
\* ready_threshold).
THEOREM ReadyAgreementHolds == Spec => []ReadyAgreement
BY InductiveInvariant, ReadiesAgree, PTL

\* Whoever returns leaves enough READYs and enough genuine stripes behind for
\* the others (output_threshold, k).
THEOREM RecoverableHolds == Spec => []Recoverable
BY InductiveInvariant, OutputsRecoverable, PTL

-----------------------------------------------------------------------------
(* What becomes of one broadcast.                                          *)

\* A set of parties that makes up for the faulty ones has a member.
LEMMA Inhabited ==
    ASSUME NEW A \in SUBSET Honest,
           \/ Cardinality(A) >= 1
           \/ Cardinality(A) + Cardinality(Faulty) >= EchoThreshold
           \/ Cardinality(A) + Cardinality(Faulty) >= OutputThreshold
    PROVE  \E q \in Honest : q \in A
<1>1. Cardinality(A) \in Nat
  BY Larger
<1>2. Cardinality(A) # 0
  BY <1>1, Sizes, ThresholdAssumption, FaultAssumption
<1>3. A # {}
  BY <1>2, FS_EmptySet
<1> QED BY <1>3

-----------------------------------------------------------------------------
(* An honest leader.                                                       *)

\* A party accepts no VAL but that of an honest leader's input.
LeadersRoot ==
    Leader \in Honest =>
        \A p \in Honest : from_leader[p] # None => from_leader[p] = input

LeaderInv == IInv /\ LeadersRoot

LEMMA LeaderInvStep == LeaderInv /\ [Next]_vars => LeaderInv'
<1> SUFFICES ASSUME LeaderInv, [Next]_vars PROVE LeaderInv'
  OBVIOUS
<1> USE DEF LeaderInv
<1>1. ASSUME UNCHANGED <<input, from_leader>> PROVE LeadersRoot'
  BY <1>1 DEF LeadersRoot
<1>2. ASSUME NEW m \in Msgs, Disperse(m) PROVE LeadersRoot'
  BY <1>2 DEF LeadersRoot, Disperse
<1>3. ASSUME NEW p \in Honest, NEW root \in Roots, RecvVal(p, root)
      PROVE  LeadersRoot'
  <2>1. Leader \in Honest => input = root
    BY <1>3 DEF RecvVal, ValSent
  <2> QED BY <1>3, <2>1 DEF RecvVal, LeadersRoot, IInv, TypeOK
<1>4. ASSUME NEW p \in Honest, NEW q \in Proc, NEW root \in Roots,
             NEW stripe \in Stripes, RecvEcho(p, q, root, stripe)
      PROVE  LeadersRoot'
  BY <1>1, <1>4 DEF RecvEcho
<1>5. ASSUME NEW p \in Honest, NEW q \in Proc, NEW root \in Roots,
             RecvReady(p, q, root)
      PROVE  LeadersRoot'
  BY <1>1, <1>5 DEF RecvReady
<1>6. UNCHANGED vars => LeadersRoot'
  BY <1>1 DEF vars
<1>7. LeadersRoot'
  BY <1>2, <1>3, <1>4, <1>5, <1>6 DEF Next
<1>8. IInv'
  BY IInvStep
<1> QED BY <1>7, <1>8

\* What honest parties accept and echo is what an honest leader has dispersed.
THEOREM LeaderInvariant == Spec => []LeaderInv
<1>1. Init => LeaderInv
  BY IInvInit DEF Init, LeaderInv, LeadersRoot
<1> QED BY <1>1, LeaderInvStep, PTL DEF Spec

\* A root that honest parties have echoed is the honest leader's input.
LEMMA EchoedIsInput ==
    ASSUME LeaderInv, Leader \in Honest, NEW root \in Roots,
           EchoedBy(root) # {}
    PROVE  root = input
BY ValueAssumption DEF LeaderInv, LeadersRoot, EchoedBy

LEMMA OutputIsInput == LeaderInv => Validity
<1> SUFFICES ASSUME LeaderInv, Leader \in Honest,
                    NEW p \in Honest, output[p] \in Msgs
             PROVE  output[p] = input
  BY DEF Validity
<1>1. EchoedBy(output[p]) \in SUBSET Honest
  BY DEF EchoedBy
<1>2. PICK a \in Honest : ready_sent[a] = output[p]
  BY OutputReady DEF LeaderInv
<1>3. Cardinality(EchoedBy(output[p])) + Cardinality(Faulty) >= EchoThreshold
  BY <1>2, ValueAssumption DEF LeaderInv, IInv, ReadySupported
<1>4. EchoedBy(output[p]) # {}
  BY <1>1, <1>3, Inhabited
<1> QED BY <1>4, EchoedIsInput

\* With an honest leader an honest party returns nothing but the leader's
\* input, whatever stripes and READYs faulty parties send.
THEOREM ValidityHolds == Spec => []Validity
BY LeaderInvariant, OutputIsInput, PTL

-----------------------------------------------------------------------------
(* Stripes that are not verified.                                          *)

\* An ECHO of an honest party has the leaf it stands for, and one of a faulty
\* party reaches those only that it may reach.
StripesHeld ==
    /\ \A p, q \in Honest :
          stripes[p][q].root # None => stripes[p][q].stripe = "genuine"
    /\ \A p \in Honest, q \in Faulty :
          stripes[p][q].root # None => p \in Audience

\* A party that raised had 2F + 1 READYs for a root, and that is no codeword's
\* unless the party was exposed.
FailureSupported ==
    \A p \in Honest : output[p] = Failed =>
        \E root \in Roots :
            /\ root \in BadRoots \/ Exposed(p)
            /\ Cardinality(ReadiedBy(root)) + Cardinality(Faulty)
                   >= OutputThreshold

ServiceInv == LeaderInv /\ StripesHeld /\ FailureSupported

\* The READYs behind a failure stay.
LEMMA FailureStays ==
    ASSUME IInv, SentStays, NEW root \in Roots,
           Cardinality(ReadiedBy(root)) + Cardinality(Faulty)
               >= OutputThreshold
    PROVE  Cardinality(ReadiedBy(root)') + Cardinality(Faulty)
               >= OutputThreshold
BY SupportGrows, Sizes, ThresholdAssumption

\* Decoding from genuine stripes, k of them or more, gives the message.
LEMMA DecodesMessage ==
    ASSUME NEW echoes, NEW readies, NEW root \in Msgs,
           CanOutput(echoes, readies, root),
           \A q \in Proc : echoes[q].root # None =>
                               echoes[q].stripe = "genuine"
    PROVE  DecodeOutput(echoes, root) = root
<1>1. Blocks(echoes, root) = Echoers(echoes, root)
  BY ValueAssumption DEF Blocks, Echoers
<1>2. \A q \in FirstK(echoes, root) : echoes[q].stripe = "genuine"
  BY <1>1, ValueAssumption DEF FirstK, Echoers
<1>3. Cardinality(Blocks(echoes, root)) >= K
  BY <1>1 DEF CanOutput
<1> QED BY <1>2, <1>3 DEF DecodeOutput

\* A row of ECHOs with a stripe that is not the leaf.
Spoilt(row) == \E q \in Faulty : row[q].root # None /\ row[q].stripe # "genuine"

\* The three ways in which a handler ends: p goes on, returns or raises.
LEMMA FinishEnds ==
    ASSUME TypeOK, NEW p \in Honest, NEW root \in Roots,
           NEW echoes, NEW readies, Finish(p, echoes, readies, root)
    PROVE  /\ \A x \in Honest : x # p => /\ stripes'[x] = stripes[x]
                                          /\ output'[x] = output[x]
           /\ \/ /\ output' = output
                 /\ stripes'[p] = echoes
              \/ /\ CanOutput(echoes, readies, root)
                 /\ root \in Msgs
                 /\ output' = [output EXCEPT ![p] = root]
                 /\ stripes'[p] = Empty
              \/ /\ CanOutput(echoes, readies, root)
                 /\ DecodeOutput(echoes, root) = Failed
                 /\ output' = [output EXCEPT ![p] = Failed]
                 /\ stripes'[p] = echoes
<1> USE DEF TypeOK
<1>1. CASE ~CanOutput(echoes, readies, root)
  BY <1>1 DEF Finish
<1>2. CASE CanOutput(echoes, readies, root)
  <2>1. CASE DecodeOutput(echoes, root) = Failed
    BY <1>2, <2>1 DEF Finish
  <2>2. CASE DecodeOutput(echoes, root) # Failed
    <3>1. DecodeOutput(echoes, root) = root /\ root \in Msgs
      BY <2>2 DEF DecodeOutput
    <3> QED BY <1>2, <2>2, <3>1 DEF Finish
  <2> QED BY <2>1, <2>2
<1> QED BY <1>1, <1>2

\* What Finish does to the stripes held and to failures.
LEMMA FinishBlames ==
    ASSUME ServiceInv, SentStays, NEW p \in Honest, output[p] = None,
           NEW root \in Roots,
           NEW echoes \in [Proc -> Echo \cup {NoEcho}],
           NEW readies \in [Proc -> Roots \cup {None}],
           \A q \in Honest : readies[q] # None => readies[q] = ready_sent[q],
           \A q \in Honest : echoes[q].root # None =>
                                 echoes[q].stripe = "genuine",
           \A q \in Faulty : echoes[q].root # None => p \in Audience,
           Finish(p, echoes, readies, root)
    PROVE  StripesHeld' /\ FailureSupported'
<1>1. IInv /\ TypeOK
  BY DEF ServiceInv, LeaderInv, IInv
<1>2. StripesHeld'
  <2>1. \A x \in Honest : \/ stripes'[x] = stripes[x]
                          \/ x = p /\ stripes'[x] \in {echoes, Empty}
    BY <1>1, FinishEnds
  <2>2. \A q \in Proc : Empty[q].root = None
    BY DEF Empty, NoEcho
  <2>3. Faulty \subseteq Proc
    BY FaultAssumption
  <2> QED BY <2>1, <2>2, <2>3 DEF ServiceInv, StripesHeld
<1>3. ASSUME NEW x \in Honest, output'[x] = Failed, x # p
      PROVE  \E bad \in Roots :
                /\ bad \in BadRoots \/ Exposed(x)'
                /\ Cardinality(ReadiedBy(bad)') + Cardinality(Faulty)
                       >= OutputThreshold
  <2>1. output[x] = Failed /\ stripes'[x] = stripes[x]
    BY <1>1, <1>3, FinishEnds
  <2>2. PICK bad \in Roots :
            /\ bad \in BadRoots \/ Exposed(x)
            /\ Cardinality(ReadiedBy(bad)) + Cardinality(Faulty)
                   >= OutputThreshold
    BY <2>1 DEF ServiceInv, FailureSupported
  <2>3. Cardinality(ReadiedBy(bad)') + Cardinality(Faulty) >= OutputThreshold
    BY <1>1, <2>2, FailureStays
  <2> QED BY <2>1, <2>2, <2>3 DEF Exposed
<1>4. ASSUME output'[p] = Failed
      PROVE  \E bad \in Roots :
                /\ bad \in BadRoots \/ Exposed(p)'
                /\ Cardinality(ReadiedBy(bad)') + Cardinality(Faulty)
                       >= OutputThreshold
  <2>1. /\ CanOutput(echoes, readies, root)
        /\ DecodeOutput(echoes, root) = Failed
        /\ stripes'[p] = echoes
    <3>1. output # output'
      BY <1>1, <1>4, ValueAssumption DEF TypeOK
    <3>2. Failed \notin Msgs
      BY ValueAssumption
    <3>3. ~(root \in Msgs /\ output' = [output EXCEPT ![p] = root])
      BY <1>1, <1>4, <3>2 DEF TypeOK
    <3> QED BY <1>1, <3>1, <3>3, FinishEnds
  <2>2. root \in BadRoots \/ Exposed(p)'
    <3> SUFFICES ASSUME root \in Msgs, ~Exposed(p)' PROVE FALSE
      OBVIOUS
    <3>1. \A q \in Proc : echoes[q].root # None => echoes[q].stripe = "genuine"
      BY <2>1 DEF Exposed
    <3> QED BY <2>1, <3>1, DecodesMessage, ValueAssumption
  <2>3. Cardinality(ReadiedBy(root)) + Cardinality(Faulty) >= OutputThreshold
    <3>1. /\ Readiers(readies, root) \in SUBSET Proc
          /\ ReadiedBy(root) \in SUBSET Honest
          /\ \A q \in Readiers(readies, root) :
                q \in Honest => q \in ReadiedBy(root)
      BY ValueAssumption DEF Readiers, ReadiedBy
    <3>2. /\ Cardinality(Readiers(readies, root)) \in Nat
          /\ Cardinality(ReadiedBy(root)) \in Nat
          /\ Cardinality(Readiers(readies, root))
                <= Cardinality(ReadiedBy(root)) + Cardinality(Faulty)
      BY <3>1, HonestPart
    <3>3. Cardinality(Readiers(readies, root)) >= OutputThreshold
      BY <2>1 DEF CanOutput
    <3> QED BY <3>2, <3>3, Sizes, ThresholdAssumption
  <2>4. Cardinality(ReadiedBy(root)') + Cardinality(Faulty) >= OutputThreshold
    BY <1>1, <2>3, FailureStays
  <2> QED BY <2>2, <2>4
<1>5. ASSUME NEW x \in Honest, output'[x] = Failed
      PROVE  \E bad \in Roots :
                /\ bad \in BadRoots \/ Exposed(x)'
                /\ Cardinality(ReadiedBy(bad)') + Cardinality(Faulty)
                       >= OutputThreshold
  <2>1. CASE x = p
    BY <1>4, <1>5, <2>1
  <2>2. CASE x # p
    BY <1>3, <1>5, <2>2
  <2> QED BY <2>1, <2>2
<1> QED BY <1>2, <1>5 DEF FailureSupported, ReadiedBy, Exposed

\* The rows that the two handlers pass to Finish.
LEMMA RecvEchoRow ==
    ASSUME ServiceInv, NEW p \in Honest, NEW q \in Proc, NEW root \in Roots,
           NEW stripe \in Stripes, RecvEcho(p, q, root, stripe), NEW row,
           row = [stripes[p] EXCEPT ![q] = [root |-> root, stripe |-> stripe]]
    PROVE  /\ row \in [Proc -> Echo \cup {NoEcho}]
           /\ ready[p] \in [Proc -> Roots \cup {None}]
           /\ \A x \in Honest : row[x].root # None => row[x].stripe = "genuine"
           /\ \A x \in Faulty : row[x].root # None => p \in Audience
           /\ \A x \in Honest : ready[p][x] # None => ready[p][x] = ready_sent[x]
           /\ Spoilt(stripes[p]) => Spoilt(row)
           /\ Finish(p, row, ready[p], root)
           /\ output[p] = None /\ UNCHANGED input /\ SentStays
<1>1. IInv /\ TypeOK
  BY DEF ServiceInv, LeaderInv, IInv
<1>2. /\ row \in [Proc -> Echo \cup {NoEcho}]
      /\ ready[p] \in [Proc -> Roots \cup {None}]
  BY <1>1 DEF TypeOK, Echo
<1>3. \A x \in Proc : row[x] = IF x = q THEN [root |-> root, stripe |-> stripe]
                                        ELSE stripes[p][x]
  BY <1>1 DEF TypeOK
<1>4. /\ q \in Honest => stripe = "genuine"
      /\ q \in Faulty => p \in Audience
      /\ stripes[p][q] = NoEcho
  BY DEF RecvEcho, EchoSent
<1>5. \A x \in Honest : row[x].root # None => row[x].stripe = "genuine"
  BY <1>3, <1>4 DEF ServiceInv, StripesHeld
<1>6. \A x \in Faulty : row[x].root # None => p \in Audience
  BY <1>3, <1>4, FaultAssumption DEF ServiceInv, StripesHeld
<1>7. Spoilt(stripes[p]) => Spoilt(row)
  <2>1. stripes[p][q].root = None
    BY <1>4 DEF NoEcho
  <2> QED BY <1>3, <2>1, FaultAssumption DEF Spoilt
<1>8. /\ Finish(p, row, ready[p], root)
      /\ output[p] = None /\ UNCHANGED input /\ SentStays
  BY <1>1 DEF RecvEcho, Listening, SentStays, TypeOK
<1> QED BY <1>1, <1>2, <1>5, <1>6, <1>7, <1>8 DEF IInv, ReadiesGenuine

LEMMA RecvReadyRow ==
    ASSUME ServiceInv, NEW p \in Honest, NEW q \in Proc, NEW root \in Roots,
           RecvReady(p, q, root), NEW row,
           row = [ready[p] EXCEPT ![q] = root]
    PROVE  /\ stripes[p] \in [Proc -> Echo \cup {NoEcho}]
           /\ row \in [Proc -> Roots \cup {None}]
           /\ \A x \in Honest : stripes[p][x].root # None =>
                                     stripes[p][x].stripe = "genuine"
           /\ \A x \in Faulty : stripes[p][x].root # None => p \in Audience
           /\ \A x \in Honest : row[x] # None => row[x] = ready_sent[x]
           /\ Finish(p, stripes[p], row, root)
           /\ output[p] = None /\ UNCHANGED input /\ SentStays
<1>1. IInv /\ TypeOK
  BY DEF ServiceInv, LeaderInv, IInv
<1>2. /\ stripes[p] \in [Proc -> Echo \cup {NoEcho}]
      /\ row \in [Proc -> Roots \cup {None}]
  BY <1>1 DEF TypeOK
<1>3. \A x \in Honest : row[x] # None => row[x] = ready_sent[x]
  BY <1>1 DEF IInv, TypeOK, ReadiesGenuine, RecvReady, ReadySent
<1>4. /\ Finish(p, stripes[p], row, root)
      /\ output[p] = None /\ UNCHANGED input /\ SentStays
  BY <1>1 DEF RecvReady, Listening, SentStays, TypeOK
<1> QED BY <1>2, <1>3, <1>4 DEF ServiceInv, StripesHeld

LEMMA ServiceInvStep == ServiceInv /\ [Next]_vars => ServiceInv'
<1> SUFFICES ASSUME ServiceInv, [Next]_vars PROVE ServiceInv'
  OBVIOUS
<1>1. LeaderInv'
  BY LeaderInvStep DEF ServiceInv
<1>2. ASSUME UNCHANGED <<stripes, ready_sent, output>>
      PROVE  StripesHeld' /\ FailureSupported'
  BY <1>2 DEF ServiceInv, StripesHeld, FailureSupported, ReadiedBy, Exposed
<1>3. ASSUME NEW p \in Honest, NEW q \in Proc, NEW root \in Roots,
             NEW stripe \in Stripes, RecvEcho(p, q, root, stripe)
      PROVE  StripesHeld' /\ FailureSupported'
  <2>1. PICK row : row = [stripes[p] EXCEPT ![q] = [root |-> root, stripe |-> stripe]]
    OBVIOUS
  <2> QED BY <1>3, <2>1, RecvEchoRow, FinishBlames
<1>4. ASSUME NEW p \in Honest, NEW q \in Proc, NEW root \in Roots,
             RecvReady(p, q, root)
      PROVE  StripesHeld' /\ FailureSupported'
  <2>1. PICK row : row = [ready[p] EXCEPT ![q] = root]
    OBVIOUS
  <2> QED BY <1>4, <2>1, RecvReadyRow, FinishBlames
<1>5. StripesHeld' /\ FailureSupported'
  BY <1>2, <1>3, <1>4 DEF Next, vars, Disperse, RecvVal
<1> QED BY <1>1, <1>5 DEF ServiceInv

LEMMA ServiceInvInit == Init => ServiceInv
<1> SUFFICES ASSUME Init PROVE ServiceInv
  OBVIOUS
<1>1. LeaderInv
  BY IInvInit DEF Init, LeaderInv, LeadersRoot
<1>2. StripesHeld
  BY FaultAssumption DEF Init, StripesHeld, Empty, NoEcho
<1>3. FailureSupported
  BY ValueAssumption DEF Init, FailureSupported
<1> QED BY <1>1, <1>2, <1>3 DEF ServiceInv

\* decode_output raises at a party that has taken a stripe which is not the
\* leaf, or for a root that is no codeword's, and the root has 2F + 1 READYs.
THEOREM ServiceInvariant == Spec => []ServiceInv
BY ServiceInvInit, ServiceInvStep, PTL DEF Spec

\* A party that raised was preceded by an honest READY for a root, which is a
\* bad one if the party was not exposed.
LEMMA FailureReady ==
    ASSUME ServiceInv, NEW p \in Honest, output[p] = Failed
    PROVE  \E root \in Roots, q \in Honest :
              ready_sent[q] = root /\ (root \in BadRoots \/ Exposed(p))
<1>1. PICK root \in Roots :
          /\ root \in BadRoots \/ Exposed(p)
          /\ Cardinality(ReadiedBy(root)) + Cardinality(Faulty) >= OutputThreshold
  BY DEF ServiceInv, FailureSupported
<1>2. ReadiedBy(root) \in SUBSET Honest
  BY DEF ReadiedBy
<1>3. PICK q \in Honest : q \in ReadiedBy(root)
  BY <1>1, <1>2, Inhabited
<1> QED BY <1>1, <1>3 DEF ReadiedBy

\* A root for which an honest party has sent READY is an honest leader's input.
LEMMA ReadyIsInput ==
    ASSUME ServiceInv, Leader \in Honest, NEW root \in Roots,
           NEW q \in Honest, ready_sent[q] = root
    PROVE  root = input
<1>1. Cardinality(EchoedBy(root)) + Cardinality(Faulty) >= EchoThreshold
  BY ValueAssumption DEF ServiceInv, LeaderInv, IInv, ReadySupported
<1>2. EchoedBy(root) \in SUBSET Honest
  BY DEF EchoedBy
<1>3. EchoedBy(root) # {}
  BY <1>1, <1>2, Inhabited
<1> QED BY <1>3, EchoedIsInput DEF ServiceInv

\* Nothing fails before an honest leader has begun.
FailedHasInput ==
    Leader \in Honest => \A p \in Honest : output[p] = Failed => input # None

LEMMA FailureHasInput == ServiceInv => FailedHasInput
BY FailureReady, ReadyIsInput, ValueAssumption DEF FailedHasInput

LEMMA Blamed == ServiceInv => AbortsBlamed
<1> SUFFICES ASSUME ServiceInv, NEW p \in Honest, output[p] = Failed, ~Exposed(p)
             PROVE  /\ Leader \in Faulty
                    /\ \A q \in Honest : output[q] \notin Msgs
  BY DEF AbortsBlamed
<1>1. PICK root \in BadRoots, a \in Honest : ready_sent[a] = root
  BY FailureReady
<1>2. Leader \in Faulty
  <2>1. Leader \in Honest => root = input
    BY <1>1, ReadyIsInput
  <2> QED BY <2>1, LeaderAssumption, ValueAssumption
          DEF ServiceInv, LeaderInv, IInv, TypeOK
<1>3. ASSUME NEW q \in Honest, output[q] \in Msgs PROVE FALSE
  <2>1. PICK b \in Honest : ready_sent[b] = output[q]
    BY <1>3, OutputReady DEF ServiceInv, LeaderInv
  <2>2. ReadyAgreement
    BY ReadiesAgree DEF ServiceInv, LeaderInv
  <2> QED BY <1>1, <1>3, <2>1, <2>2, ValueAssumption DEF ReadyAgreement
<1> QED BY <1>2, <1>3

\* Whatever stripes faulty parties send: an honest party at which decode_output
\* raises has taken one that is not the leaf, or the leader is faulty and no
\* honest party returns a message.
THEOREM AbortsBlamedHolds == Spec => []AbortsBlamed
BY ServiceInvariant, Blamed, PTL

-----------------------------------------------------------------------------
(* Every step is one of the service's or invisible to it.                  *)

\* What the end of a handler is to the service.
LEMMA FinishIsService ==
    ASSUME ServiceInv, ServiceInv', NEW p \in Honest, output[p] = None,
           UNCHANGED input, NEW root \in Roots, NEW echoes, NEW readies,
           Spoilt(stripes[p]) => Spoilt(echoes),
           \A q \in Faulty : echoes[q].root # None => p \in Audience,
           Finish(p, echoes, readies, root)
    PROVE  [Service!Next]_(Service!svars)
<1>1. /\ TypeOK /\ TypeOK' /\ Validity' /\ Agreement' /\ AbortsBlamed'
      /\ FailedHasInput'
  BY OutputIsInput, OutputsAgree, Blamed, FailureHasInput, PTL
     DEF ServiceInv, LeaderInv, IInv
<1>2. \A x \in Honest : x # p => (Exposed(x)' <=> Exposed(x))
  BY <1>1, FinishEnds DEF Exposed
<1>3. Exposed(p) => Spoilt(echoes)
  BY DEF Exposed, Spoilt
<1>4. Spoilt(echoes) => p \in Audience
  BY DEF Spoilt
<1>5. ASSUME stripes'[p] = echoes
      PROVE  ExposedParties' = IF Spoilt(echoes) THEN ExposedParties \cup {p}
                                                 ELSE ExposedParties
  <2>1. Exposed(p)' <=> Spoilt(echoes)
    BY <1>5 DEF Exposed, Spoilt
  <2> QED BY <1>2, <1>3, <2>1 DEF ExposedParties
<1>6. CASE output' = output /\ stripes'[p] = echoes
  <2>1. CASE Spoilt(echoes)
    BY <1>4, <1>5, <1>6, <2>1 DEF Service!Next, Service!Expose
  <2>2. CASE ~Spoilt(echoes)
    BY <1>5, <1>6, <2>2 DEF Service!svars
  <2> QED BY <2>1, <2>2
<1>7. CASE /\ root \in Msgs
           /\ output' = [output EXCEPT ![p] = root]
           /\ stripes'[p] = Empty
  <2>1. /\ output'[p] = root
        /\ \A q \in Honest : q # p => output'[q] = output[q]
    BY <1>1, <1>7 DEF TypeOK
  <2>2. Leader \in Honest => input = root
    BY <1>1, <1>7, <2>1 DEF Validity
  <2>3. \A q \in Honest : \/ output[q] \in {None, root}
                          \/ output[q] = Failed /\ q \in ExposedParties
    <3> SUFFICES ASSUME NEW q \in Honest, output[q] \notin {None, root}
                 PROVE  output[q] = Failed /\ q \in ExposedParties
      OBVIOUS
    <3>1. q # p /\ output'[q] = output[q]
      BY <2>1
    <3>2. output[q] = Failed
      BY <1>1, <1>7, <2>1, <3>1 DEF Agreement, TypeOK
    <3>3. Exposed(q)'
      BY <1>1, <1>7, <2>1, <3>1, <3>2 DEF AbortsBlamed
    <3> QED BY <1>2, <3>1, <3>2, <3>3 DEF ExposedParties
  <2>4. ExposedParties' = ExposedParties \ {p}
    <3>1. ~Exposed(p)'
      BY <1>7, FaultAssumption DEF Exposed, Empty, NoEcho
    <3> QED BY <1>2, <3>1 DEF ExposedParties
  <2>5. Service!Deliver(p, root)
    BY <1>7, <2>2, <2>3, <2>4 DEF Service!Deliver
  <2> QED BY <1>7, <2>5 DEF Service!Next
<1>8. CASE /\ output' = [output EXCEPT ![p] = Failed]
           /\ stripes'[p] = echoes
  <2>1. /\ output'[p] = Failed
        /\ \A q \in Honest : q # p => output'[q] = output[q]
    BY <1>1, <1>8 DEF TypeOK
  <2>2. Leader \in Honest => input # None
    BY <1>1, <2>1 DEF FailedHasInput
  <2>3. CASE Spoilt(echoes)
    <3>1. /\ ExposedParties' = ExposedParties \cup (Audience \cap {p})
          /\ p \in ExposedParties'
      BY <1>4, <1>5, <1>8, <2>3
    <3>2. Service!Fail(p)
      BY <1>8, <2>2, <3>1 DEF Service!Fail
    <3> QED BY <3>2 DEF Service!Next
  <2>4. CASE ~Spoilt(echoes)
    <3>1. ExposedParties' = ExposedParties
      BY <1>5, <1>8, <2>4
    <3>2. ~Exposed(p)'
      BY <1>8, <2>4 DEF Exposed, Spoilt
    <3>3. Leader \in Faulty /\ \A q \in Honest : output'[q] \notin Msgs
      BY <1>1, <2>1, <3>2 DEF AbortsBlamed
    <3>4. Leader \notin Honest /\ \A q \in Honest : output[q] \in {None, Failed}
      BY <1>1, <2>1, <3>3 DEF TypeOK
    <3>5. Service!Fail(p)
      BY <1>8, <3>1, <3>4 DEF Service!Fail
    <3> QED BY <3>5 DEF Service!Next
  <2> QED BY <2>3, <2>4
<1> QED BY <1>1, <1>6, <1>7, <1>8, FinishEnds

\* Reliable broadcast implements the service it stands for, whatever stripes
\* the ECHOs of faulty parties hold: one value or one failure for all but the
\* parties that such a stripe reaches, each of which may raise by itself, and
\* an honest leader's input if the leader is honest.
THEOREM BroadcastImplements == Spec => ImplementsService
<1>1. Init => Service!Init
  BY FaultAssumption
     DEF Init, Service!Init, ExposedParties, Exposed, Empty, NoEcho
<1>2. ServiceInv /\ ServiceInv' /\ [Next]_vars
        => [Service!Next]_(Service!svars)
  <2> SUFFICES ASSUME ServiceInv, ServiceInv', [Next]_vars
               PROVE  [Service!Next]_(Service!svars)
    OBVIOUS
  <2>0. ASSUME UNCHANGED stripes PROVE UNCHANGED ExposedParties
    BY <2>0 DEF ExposedParties, Exposed
  <2>1. ASSUME NEW m \in Msgs, Disperse(m) PROVE Service!Next
    BY <2>0, <2>1 DEF Disperse, Service!Next, Service!Input
  <2>2. ASSUME NEW p \in Honest, NEW root \in Roots, RecvVal(p, root)
        PROVE  [Service!Next]_(Service!svars)
    BY <2>0, <2>2 DEF RecvVal, Service!svars
  <2>3. ASSUME NEW p \in Honest, NEW q \in Proc, NEW root \in Roots,
               NEW stripe \in Stripes, RecvEcho(p, q, root, stripe)
        PROVE  [Service!Next]_(Service!svars)
    <3>1. PICK row : row = [stripes[p] EXCEPT ![q] = [root |-> root, stripe |-> stripe]]
      OBVIOUS
    <3> QED BY <2>3, <3>1, RecvEchoRow, FinishIsService
  <2>4. ASSUME NEW p \in Honest, NEW q \in Proc, NEW root \in Roots,
               RecvReady(p, q, root)
        PROVE  [Service!Next]_(Service!svars)
    <3>1. PICK row : row = [ready[p] EXCEPT ![q] = root]
      OBVIOUS
    <3> QED BY <2>4, <3>1, RecvReadyRow, FinishIsService
  <2>5. CASE UNCHANGED vars
    BY <2>0, <2>5 DEF vars, Service!svars
  <2> QED BY <2>1, <2>2, <2>3, <2>4, <2>5 DEF Next
<1> QED BY <1>1, <1>2, ServiceInvariant, PTL
        DEF Spec, ImplementsService, Service!Spec

-----------------------------------------------------------------------------
(* When every message has been received.                                   *)

RestInv == LeaderInv /\ Tallied

\* The READYs behind an end stay.
LEMMA BackingStays ==
    ASSUME SentStays,
           \E root \in Roots :
               Cardinality(ReadiedBy(root)) + Cardinality(Faulty)
                   >= OutputThreshold
    PROVE  \E root \in Roots :
               Cardinality(ReadiedBy(root)') + Cardinality(Faulty)
                   >= OutputThreshold
<1>1. PICK root \in Roots :
          Cardinality(ReadiedBy(root)) + Cardinality(Faulty) >= OutputThreshold
  OBVIOUS
<1>2. /\ Cardinality(ReadiedBy(root)') >= Cardinality(ReadiedBy(root))
      /\ Cardinality(ReadiedBy(root)) \in Nat
      /\ Cardinality(ReadiedBy(root)') \in Nat
  BY SupportGrows
<1>3. Cardinality(ReadiedBy(root)') + Cardinality(Faulty) >= OutputThreshold
  BY <1>1, <1>2, Sizes, ThresholdAssumption
<1> QED BY <1>3

\* 2F + 1 READYs are F + 1 from honest parties at least.
LEMMA ReadiersBack ==
    ASSUME NEW readies \in [Proc -> Roots \cup {None}], NEW root \in Roots,
           \A q \in Honest : readies[q] # None => readies[q] = ready_sent[q],
           Cardinality(Readiers(readies, root)) >= OutputThreshold
    PROVE  Cardinality(ReadiedBy(root)) + Cardinality(Faulty)
               >= OutputThreshold
<1>1. /\ Readiers(readies, root) \in SUBSET Proc
      /\ ReadiedBy(root) \in SUBSET Honest
      /\ \A q \in Readiers(readies, root) :
            q \in Honest => q \in ReadiedBy(root)
  BY ValueAssumption DEF Readiers, ReadiedBy
<1>2. /\ Cardinality(Readiers(readies, root)) \in Nat
      /\ Cardinality(ReadiedBy(root)) \in Nat
      /\ Cardinality(Readiers(readies, root))
            <= Cardinality(ReadiedBy(root)) + Cardinality(Faulty)
  BY <1>1, HonestPart
<1> QED BY <1>2, Sizes, ThresholdAssumption

\* The end of a handler, which has looked at the thresholds of one root: no
\* other root's counters have changed.
LEMMA FinishTallies ==
    ASSUME IInv, Tallied, TypeOK', SentStays,
           NEW p \in Honest, NEW root \in Roots,
           NEW echoes \in [Proc -> Echo \cup {NoEcho}],
           NEW readies \in [Proc -> Roots \cup {None}],
           \A q \in Honest : readies[q] # None => readies[q] = ready_sent[q],
           \A q \in Honest : q # p => ready_sent'[q] = ready_sent[q],
           \A r \in Roots :
               \/ Cardinality(Echoers(echoes, r)) >= EchoThreshold
               \/ Cardinality(Readiers(readies, r)) >= ReadyThreshold
               => ready_sent'[p] # None,
           \A r \in Roots : r # root => ~CanOutput(echoes, readies, r),
           output[p] = None,
           Finish(p, echoes, readies, root)
    PROVE  Tallied'
<1> USE DEF IInv, TypeOK
<1>1. /\ \A x \in Honest : x # p => /\ stripes'[x] = stripes[x]
                                    /\ ready'[x] = ready[x]
                                    /\ output'[x] = output[x]
      /\ CanOutput(echoes, readies, root) =>
            output'[p] = DecodeOutput(echoes, root)
      /\ ~CanOutput(echoes, readies, root) =>
            /\ stripes'[p] = echoes /\ ready'[p] = readies
            /\ output'[p] = None
  BY DEF Finish
<1>2. ASSUME NEW x \in Honest, output'[x] = None, NEW r \in Roots
      PROVE  /\ ~CanOutput(stripes'[x], ready'[x], r)
             /\ \/ Cardinality(Echoers(stripes'[x], r)) >= EchoThreshold
                \/ Cardinality(Readiers(ready'[x], r)) >= ReadyThreshold
                => ready_sent'[x] # None
  <2>1. CASE x = p
    <3>1. ~CanOutput(echoes, readies, root)
      <4>1. DecodeOutput(echoes, root) # None
        BY ValueAssumption DEF DecodeOutput
      <4> QED BY <1>1, <1>2, <2>1, <4>1
    <3>2. stripes'[x] = echoes /\ ready'[x] = readies
      BY <1>1, <2>1, <3>1
    <3> QED BY <2>1, <3>1, <3>2
  <2>2. CASE x # p
    <3>1. /\ stripes'[x] = stripes[x] /\ ready'[x] = ready[x]
          /\ output[x] = None /\ ready_sent'[x] = ready_sent[x]
      BY <1>1, <1>2, <2>2
    <3> QED BY <3>1 DEF Tallied
  <2> QED BY <2>1, <2>2
<1>3. ASSUME NEW x \in Honest, output'[x] # None
      PROVE  /\ ready_sent'[x] # None
             /\ \E r \in Roots :
                   Cardinality(ReadiedBy(r)') + Cardinality(Faulty)
                       >= OutputThreshold
  <2>1. CASE x = p
    <3>1. CanOutput(echoes, readies, root)
      BY <1>1, <1>3, <2>1
    <3>2. /\ Cardinality(Readiers(readies, root)) >= OutputThreshold
          /\ Cardinality(Readiers(readies, root)) \in Nat
      <4>1. Readiers(readies, root) \in SUBSET Proc
        BY DEF Readiers
      <4>2. Cardinality(Readiers(readies, root)) \in Nat
        BY <4>1, Sizes, FS_Subset, FS_CardinalityType
      <4> QED BY <3>1, <4>2 DEF CanOutput
    <3>3. Cardinality(Readiers(readies, root)) >= ReadyThreshold
      BY <3>2, ThresholdAssumption
    <3>4. Cardinality(ReadiedBy(root)) + Cardinality(Faulty) >= OutputThreshold
      BY <3>2, ReadiersBack
    <3> QED BY <2>1, <3>3, <3>4, BackingStays
  <2>2. CASE x # p
    <3>1. output[x] # None /\ ready_sent'[x] = ready_sent[x]
      BY <1>1, <1>3, <2>2
    <3> QED BY <3>1, BackingStays DEF Tallied
  <2> QED BY <2>1, <2>2
<1> QED BY <1>2, <1>3 DEF Tallied, CanOutput, Readiers, Echoers, ReadiedBy

\* An ECHO for root counts for no other root.
LEMMA RecvEchoTallies ==
    ASSUME IInv, Tallied, TypeOK', NEW p \in Honest, NEW q \in Proc,
           NEW root \in Roots, NEW stripe \in Stripes,
           RecvEcho(p, q, root, stripe)
    PROVE  Tallied'
<1> DEFINE row == [stripes[p] EXCEPT ![q] = [root |-> root, stripe |-> stripe]]
<1>1. /\ row \in [Proc -> Echo \cup {NoEcho}]
      /\ ready[p] \in [Proc -> Roots \cup {None}]
      /\ stripes[p] \in [Proc -> Echo \cup {NoEcho}]
  BY DEF IInv, TypeOK, Echo
<1>2. \A x \in Honest : ready[p][x] # None => ready[p][x] = ready_sent[x]
  BY DEF IInv, ReadiesGenuine
<1>3. \A r \in Roots : r # root => Echoers(row, r) = Echoers(stripes[p], r)
  <2>1. stripes[p][q].root = None
    BY DEF RecvEcho, NoEcho
  <2>2. row[q].root = root /\ \A x \in Proc : x # q => row[x] = stripes[p][x]
    BY <1>1
  <2> HIDE DEF row
  <2> QED BY <2>1, <2>2, ValueAssumption DEF Echoers
<1>4. /\ Finish(p, row, ready[p], root)
      /\ output[p] = None
      /\ from_leader' = from_leader
      /\ ready_sent' = IF /\ Cardinality(Echoers(row, root)) >= EchoThreshold
                          /\ ready_sent[p] = None
                       THEN [ready_sent EXCEPT ![p] = root] ELSE ready_sent
  BY DEF RecvEcho, Listening
<1> HIDE DEF row
<1>5. SentStays /\ \A x \in Honest : x # p => ready_sent'[x] = ready_sent[x]
  BY <1>4 DEF SentStays, IInv, TypeOK
<1>6. ASSUME NEW r \in Roots
      PROVE  /\ \/ Cardinality(Echoers(row, r)) >= EchoThreshold
                \/ Cardinality(Readiers(ready[p], r)) >= ReadyThreshold
                => ready_sent'[p] # None
             /\ r # root => ~CanOutput(row, ready[p], r)
  <2>1. ready_sent[p] # None => ready_sent'[p] # None
    BY <1>5 DEF SentStays
  <2>2. /\ ~CanOutput(stripes[p], ready[p], r)
        /\ \/ Cardinality(Echoers(stripes[p], r)) >= EchoThreshold
           \/ Cardinality(Readiers(ready[p], r)) >= ReadyThreshold
           => ready_sent[p] # None
    BY <1>4 DEF Tallied
  <2>3. Cardinality(Echoers(row, root)) >= EchoThreshold
            => ready_sent'[p] # None
    BY <1>4, <2>1, ValueAssumption DEF IInv, TypeOK
  <2>4. CASE r # root
    BY <1>3, <2>1, <2>2, <2>4 DEF CanOutput
  <2>5. CASE r = root
    BY <2>1, <2>2, <2>3, <2>5
  <2> QED BY <2>4, <2>5
<1> QED BY <1>1, <1>2, <1>4, <1>5, <1>6, FinishTallies

\* A READY for root counts for no other root.
LEMMA RecvReadyTallies ==
    ASSUME IInv, Tallied, TypeOK', NEW p \in Honest, NEW q \in Proc,
           NEW root \in Roots, RecvReady(p, q, root)
    PROVE  Tallied'
<1> DEFINE row == [ready[p] EXCEPT ![q] = root]
<1>1. /\ row \in [Proc -> Roots \cup {None}]
      /\ ready[p] \in [Proc -> Roots \cup {None}]
      /\ stripes[p] \in [Proc -> Echo \cup {NoEcho}]
  BY DEF IInv, TypeOK
<1>2. \A x \in Honest : row[x] # None => row[x] = ready_sent[x]
  BY DEF IInv, TypeOK, ReadiesGenuine, RecvReady, ReadySent
<1>3. \A r \in Roots : r # root => Readiers(row, r) = Readiers(ready[p], r)
  <2>1. ready[p][q] = None
    BY DEF RecvReady
  <2>2. row[q] = root /\ \A x \in Proc : x # q => row[x] = ready[p][x]
    BY <1>1
  <2> HIDE DEF row
  <2> QED BY <2>1, <2>2, ValueAssumption DEF Readiers
<1>4. /\ Finish(p, stripes[p], row, root)
      /\ output[p] = None
      /\ from_leader' = from_leader
      /\ ready_sent' = IF /\ Cardinality(Readiers(row, root)) >= ReadyThreshold
                          /\ ready_sent[p] = None
                       THEN [ready_sent EXCEPT ![p] = root] ELSE ready_sent
  BY DEF RecvReady, Listening
<1> HIDE DEF row
<1>5. SentStays /\ \A x \in Honest : x # p => ready_sent'[x] = ready_sent[x]
  BY <1>4 DEF SentStays, IInv, TypeOK
<1>6. ASSUME NEW r \in Roots
      PROVE  /\ \/ Cardinality(Echoers(stripes[p], r)) >= EchoThreshold
                \/ Cardinality(Readiers(row, r)) >= ReadyThreshold
                => ready_sent'[p] # None
             /\ r # root => ~CanOutput(stripes[p], row, r)
  <2>1. ready_sent[p] # None => ready_sent'[p] # None
    BY <1>5 DEF SentStays
  <2>2. /\ ~CanOutput(stripes[p], ready[p], r)
        /\ \/ Cardinality(Echoers(stripes[p], r)) >= EchoThreshold
           \/ Cardinality(Readiers(ready[p], r)) >= ReadyThreshold
           => ready_sent[p] # None
    BY <1>4 DEF Tallied
  <2>3. Cardinality(Readiers(row, root)) >= ReadyThreshold
            => ready_sent'[p] # None
    BY <1>4, <2>1, ValueAssumption DEF IInv, TypeOK
  <2>4. CASE r # root
    BY <1>3, <2>1, <2>2, <2>4 DEF CanOutput
  <2>5. CASE r = root
    BY <2>1, <2>2, <2>3, <2>5
  <2> QED BY <2>4, <2>5
<1> QED BY <1>1, <1>2, <1>4, <1>5, <1>6, FinishTallies

LEMMA RestInvStep == RestInv /\ [Next]_vars => RestInv'
<1> SUFFICES ASSUME RestInv, [Next]_vars PROVE RestInv'
  OBVIOUS
<1>1. LeaderInv' /\ IInv /\ Tallied /\ TypeOK'
  BY LeaderInvStep DEF RestInv, LeaderInv, IInv
<1>2. ASSUME UNCHANGED <<stripes, ready, ready_sent, output>> PROVE Tallied'
  BY <1>1, <1>2 DEF Tallied, ReadiedBy
<1>3. ASSUME NEW p \in Honest, NEW q \in Proc, NEW root \in Roots,
             NEW stripe \in Stripes, RecvEcho(p, q, root, stripe)
      PROVE  Tallied'
  BY <1>1, <1>3, RecvEchoTallies
<1>4. ASSUME NEW p \in Honest, NEW q \in Proc, NEW root \in Roots,
             RecvReady(p, q, root)
      PROVE  Tallied'
  BY <1>1, <1>4, RecvReadyTallies
<1>5. Tallied'
  BY <1>2, <1>3, <1>4 DEF Next, vars, Disperse, RecvVal
<1> QED BY <1>1, <1>5 DEF RestInv

LEMMA RestInvInit == Init => RestInv
<1> SUFFICES ASSUME Init PROVE RestInv
  OBVIOUS
<1>1. LeaderInv
  BY IInvInit DEF Init, LeaderInv, LeadersRoot
<1>2. ASSUME NEW p \in Honest, NEW root \in Roots
      PROVE  /\ Cardinality(Echoers(stripes[p], root)) = 0
             /\ Cardinality(Readiers(ready[p], root)) = 0
             /\ output[p] = None
  <2>1. Echoers(stripes[p], root) = {} /\ Readiers(ready[p], root) = {}
    BY ValueAssumption
       DEF Init, Echoers, Readiers, Empty, NoEcho, NoReady
  <2> QED BY <2>1, FS_EmptySet DEF Init
<1>3. ~(0 >= EchoThreshold) /\ ~(0 >= ReadyThreshold) /\ ~(0 >= OutputThreshold)
  BY Sizes, ThresholdAssumption
<1>4. \A p \in Honest : output[p] = None
  BY DEF Init
<1>5. Tallied
  BY <1>2, <1>3, <1>4 DEF Tallied, CanOutput
<1> QED BY <1>1, <1>5 DEF RestInv

\* An honest leader's input is all that is echoed, so when the broadcast has
\* ended anywhere the leader has begun it.
LEMMA EndedHasInput ==
    ASSUME RestInv, Leader \in Honest, NEW p \in Honest, output[p] # None
    PROVE  input # None
<1>1. PICK root \in Roots :
          Cardinality(ReadiedBy(root)) + Cardinality(Faulty) >= OutputThreshold
  BY DEF RestInv, Tallied
<1>2. ReadiedBy(root) \in SUBSET Honest /\ EchoedBy(root) \in SUBSET Honest
  BY DEF ReadiedBy, EchoedBy
<1>3. PICK a \in Honest : ready_sent[a] = root
  BY <1>1, <1>2, Inhabited DEF ReadiedBy
<1>4. Cardinality(EchoedBy(root)) + Cardinality(Faulty) >= EchoThreshold
  BY <1>3, ValueAssumption DEF RestInv, LeaderInv, IInv, ReadySupported
<1>5. EchoedBy(root) # {}
  BY <1>2, <1>4, Inhabited
<1> QED BY <1>5, EchoedIsInput, ValueAssumption DEF RestInv

\* A party that has not ended has counted all ECHOs and READYs of honest
\* parties.
LEMMA CountedAll ==
    ASSUME RestInv, AllReceived, NEW p \in Honest, Listening(p),
           NEW root \in Roots
    PROVE  /\ Cardinality(Echoers(stripes[p], root))
                 >= Cardinality(EchoedBy(root))
           /\ Cardinality(Readiers(ready[p], root))
                 >= Cardinality(ReadiedBy(root))
           /\ Cardinality(Echoers(stripes[p], root)) \in Nat
           /\ Cardinality(Readiers(ready[p], root)) \in Nat
           /\ Cardinality(EchoedBy(root)) \in Nat
           /\ Cardinality(ReadiedBy(root)) \in Nat
<1> USE DEF RestInv, LeaderInv, IInv
<1>1. EchoedBy(root) \subseteq Echoers(stripes[p], root)
  <2> SUFFICES ASSUME NEW q \in Honest, from_leader[q] = root
               PROVE  stripes[p][q].root = root
    BY DEF EchoedBy, Echoers
  <2>1. stripes[p][q] # NoEcho /\ stripes[p][q] \in Echo \cup {NoEcho}
    BY ValueAssumption DEF AllReceived, Received, TypeOK
  <2>2. stripes[p][q].root # None
    BY <2>1, ValueAssumption DEF Echo
  <2> QED BY <2>2 DEF EchoesGenuine
<1>2. ReadiedBy(root) \subseteq Readiers(ready[p], root)
  BY ValueAssumption
     DEF AllReceived, Received, ReadiesGenuine, ReadiedBy, Readiers
<1>3. /\ IsFiniteSet(Echoers(stripes[p], root))
      /\ IsFiniteSet(Readiers(ready[p], root))
  <2>1. /\ Echoers(stripes[p], root) \in SUBSET Proc
        /\ Readiers(ready[p], root) \in SUBSET Proc
    BY DEF Echoers, Readiers
  <2> QED BY <2>1, Sizes, FS_Subset
<1> QED BY <1>1, <1>2, <1>3, FS_Subset, FS_CardinalityType

\* Some root has a READY from every honest party.
LEMMA AllReady ==
    ASSUME RestInv, AllReceived, ~ClientMode, NEW late \in Honest,
           output[late] = None,
           \/ Leader \in Honest /\ input # None
           \/ \E p \in Honest : output[p] # None
    PROVE  \E root \in Roots : ReadiedBy(root) = Honest
<1> USE DEF RestInv, LeaderInv, IInv
<1>1. Leader \in Honest => input # None
  BY EndedHasInput
<1>2. \A p \in Honest : output[p] = None => Listening(p)
  BY <1>1 DEF Listening
<1>3. \A p \in Honest : ready_sent[p] # None
  <2>1. CASE \E p \in Honest : output[p] # None
    <3>1. PICK root \in Roots :
              Cardinality(ReadiedBy(root)) + Cardinality(Faulty)
                  >= OutputThreshold
      BY <2>1 DEF Tallied
    <3>2. ASSUME NEW q \in Honest, output[q] = None
          PROVE  ready_sent[q] # None
      <4>1. /\ Cardinality(Readiers(ready[q], root))
                  >= Cardinality(ReadiedBy(root))
            /\ Cardinality(Readiers(ready[q], root)) \in Nat
            /\ Cardinality(ReadiedBy(root)) \in Nat
        BY <1>2, <3>2, CountedAll
      <4>2. Cardinality(Readiers(ready[q], root)) >= ReadyThreshold
        BY <3>1, <4>1, Sizes, FaultAssumption, ThresholdAssumption
      <4> QED BY <3>2, <4>2 DEF Tallied
    <3> QED BY <3>2 DEF Tallied
  <2>2. CASE \A p \in Honest : output[p] = None
    <3>1. Leader \in Honest /\ input # None
      BY <2>2
    <3>2. input \in Roots
      BY <3>1 DEF TypeOK
    <3>3. EchoedBy(input) = Honest
      BY <1>2, <2>2, <3>1 DEF AllReceived, Received, LeadersRoot, EchoedBy
    <3>4. ASSUME NEW q \in Honest PROVE ready_sent[q] # None
      <4>1. /\ Cardinality(Echoers(stripes[q], input))
                  >= Cardinality(EchoedBy(input))
            /\ Cardinality(Echoers(stripes[q], input)) \in Nat
        BY <1>2, <2>2, <3>2, CountedAll
      <4>2. Cardinality(Echoers(stripes[q], input)) >= EchoThreshold
        BY <3>3, <4>1, Sizes, FaultAssumption, ThresholdAssumption
      <4> QED BY <2>2, <3>2, <4>2 DEF Tallied
    <3> QED BY <3>4
  <2> QED BY <2>1, <2>2
<1>4. ready_sent[late] \in Roots
  BY <1>3 DEF TypeOK
<1>5. \A q \in Honest : ready_sent[q] = ready_sent[late]
  BY <1>3, ReadiesAgree DEF ReadyAgreement
<1>6. ReadiedBy(ready_sent[late]) = Honest
  BY <1>5 DEF ReadiedBy
<1> QED BY <1>4, <1>6

LEMMA RestIsComplete == RestInv => NobodyLeftOut
<1> SUFFICES ASSUME RestInv, AllReceived, ~ClientMode,
                    NEW late \in Honest, output[late] = None,
                    \/ Leader \in Honest /\ input # None
                    \/ \E p \in Honest : output[p] # None
             PROVE  FALSE
  BY DEF NobodyLeftOut
<1>1. PICK root \in Roots : ReadiedBy(root) = Honest
  BY AllReady
<1>2. Listening(late)
  BY EndedHasInput DEF Listening
<1>3. /\ Cardinality(Readiers(ready[late], root))
            >= Cardinality(ReadiedBy(root))
      /\ Cardinality(Echoers(stripes[late], root))
            >= Cardinality(EchoedBy(root))
      /\ Cardinality(Readiers(ready[late], root)) \in Nat
      /\ Cardinality(Echoers(stripes[late], root)) \in Nat
      /\ Cardinality(EchoedBy(root)) \in Nat
  BY <1>2, CountedAll
<1>4. Cardinality(Readiers(ready[late], root)) >= OutputThreshold
  BY <1>1, <1>3, Sizes, FaultAssumption, ThresholdAssumption
<1>5. Cardinality(EchoedBy(root)) + Cardinality(Faulty) >= EchoThreshold
  BY <1>1, ValueAssumption
     DEF RestInv, LeaderInv, IInv, ReadySupported, ReadiedBy
<1>6. Cardinality(Echoers(stripes[late], root)) >= K
  BY <1>3, <1>5, Sizes, FaultAssumption, ThresholdAssumption
<1>7. CanOutput(stripes[late], ready[late], root)
  BY <1>4, <1>6 DEF CanOutput
<1> QED BY <1>7 DEF RestInv, Tallied

\* Every threshold that a party's messages meet has been acted on.
THEOREM RestInvariant == Spec => []RestInv
BY RestInvInit, RestInvStep, PTL DEF Spec

\* When all messages of honest parties have been received, an honest leader's
\* broadcast has ended everywhere, and anybody's at all honest parties or at
\* none, whatever the parties that have returned no longer answer.
THEOREM NobodyLeftOutHolds == Spec => []NobodyLeftOut
BY RestInvariant, RestIsComplete, PTL
=============================================================================
