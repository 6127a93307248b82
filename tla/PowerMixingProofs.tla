-------------------------- MODULE PowerMixingProofs --------------------------
(***************************************************************************)
(* Proofs about power mixing and the batch reconstruction that it ends     *)
(* with.                                                                   *)
(*                                                                         *)
(* The first part is about BatchReconstruction, for any number of parties, *)
(* any code of minimum distance N - T, any batch and any lies of up to T   *)
(* parties: the opening implements Reconstruction.                         *)
(*                                                                         *)
(* The second part is about PowerSums and PowerMixing, for any number of   *)
(* nodes, messages and workers, any input and any processes that fail: no  *)
(* update of a file is lost, and what the nodes return are the messages.   *)
(* It begins with arithmetic: the recursive functions of FieldPoly add,    *)
(* multiply and evaluate modulo the prime, what the nodes compute from     *)
(* shares are shares of the same computation on the secrets, and so the    *)
(* sums in their files are shares of the power sums of the messages.  That *)
(* interpolation finds a polynomial and the solver the messages are the    *)
(* assumptions PolynomialAssumption and SolverAssumption of PowerMixing.   *)
(***************************************************************************)
EXTENDS PowerMixing, FiniteSetTheorems, TLAPS

USE DEF Degree

-----------------------------------------------------------------------------
(* The inductive invariant. *)

Decoder == [avail      : SUBSET Proc,
            confirmed  : SUBSET Proc,
            data       : [Proc -> Message \cup {None}],
            optimistic : BOOLEAN,
            guess      : [Chunk -> Code] \cup {None},
            decoded    : Seq(Code),
            updating   : BOOLEAN,
            result     : [Chunk -> Code] \cup {None}]

\* A party that is not in W sends the values of w.
RightData(d, w, W) ==
    \A q \in d.avail : /\ d.data[q] \in Message
                       /\ q \notin W => \A b \in Chunk : d.data[q][b] = w[b][q]

GuessFits(d) == /\ d.guess \in [Chunk -> Code]
                /\ \A q \in d.avail, b \in Chunk : d.guess[b][q] = d.data[q][b]

\* What a decoder holds when the right word is w and the senders in W may be wrong.
DecoderOK(d, w, W) ==
    /\ d \in Decoder
    /\ d.confirmed \subseteq W /\ d.avail \cap d.confirmed = {}
    /\ RightData(d, w, W)
    /\ Len(d.decoded) <= Chunks /\ \A i \in 1 .. Len(d.decoded) : d.decoded[i] = w[i]
    /\ d.optimistic => d.confirmed = {} /\ d.decoded = <<>> /\ ~d.updating
    /\ d.optimistic /\ Cardinality(d.avail) > T => GuessFits(d)
    /\ d.result = None => Len(d.decoded) < Chunks
    /\ d.result # None => d.result = w

\* The senders whose messages of the current round may be wrong.
Wrong(p) == IF stage[p] = "R1" THEN faulty \cup misled ELSE faulty

RightSecond(q) == [b \in Chunk |-> words.r2[b][q]]

OpenTypeOK == /\ stage \in [Proc -> {"idle", "R1", "R2", "end"}]
              /\ first \in [Proc -> [Proc -> Message] \cup {None}]
              /\ second \in [Proc -> Message \cup {None}]
              /\ dec \in [Proc -> Decoder]
              /\ opened \in [Proc -> {None, Raised, words.r2}]
              /\ words \in Words
              /\ faulty \in SUBSET Proc /\ misled \in SUBSET Proc

MessagesOK ==
    /\ \A q \in Proc \ misled : first[q] \in {None, RightFirst(q)}
    /\ \A q \in Proc : second[q] \in {None, RightSecond(q)}

Callers == {p \in Proc : first[p] # None}

StagesOK == \A p \in Proc :
    /\ stage[p] = "idle" <=> first[p] = None
    /\ stage[p] # "end" => opened[p] = None
    /\ stage[p] = "R2" => Cardinality(Callers) > T

DecodersOK == \A p \in Proc :
    /\ stage[p] # "R1" /\ stage[p] # "R2" => dec[p] = Fresh
    /\ DecoderOK(dec[p], Word(p), Wrong(p)) /\ dec[p].result = None
    /\ stage[p] = "R1" => \A q \in dec[p].avail \ faulty : first[q] # None

OpenInv == /\ OpenTypeOK
           /\ Cardinality(faulty \cup misled) <= T
           /\ MessagesOK
           /\ StagesOK
           /\ DecodersOK

-----------------------------------------------------------------------------
(* Sizes of sets of parties. *)

LEMMA Bounds == T \in Nat /\ Chunks \in Nat \ {0}
  BY PartiesAssumption

LEMMA Sizes ==
    ASSUME NEW A \in SUBSET Proc
    PROVE  IsFiniteSet(A) /\ Cardinality(A) \in Nat /\ Cardinality(A) <= N
  BY FS_Subset, FS_CardinalityType, PartiesAssumption DEF N

LEMMA SizeMonotone ==
    ASSUME NEW B \in SUBSET Proc, NEW A \in SUBSET B
    PROVE  Cardinality(A) <= Cardinality(B)
  BY FS_Subset, Sizes

LEMMA SizeOfUnion ==
    ASSUME NEW A \in SUBSET Proc, NEW B \in SUBSET Proc, A \cap B = {}
    PROVE  Cardinality(A \cup B) = Cardinality(A) + Cardinality(B)
<1>1. IsFiniteSet(A) /\ IsFiniteSet(B)
  BY Sizes
<1>2. Cardinality(A \cup B) = Cardinality(A) + Cardinality(B) - Cardinality({})
  BY <1>1, FS_Union
<1> QED BY <1>2, FS_EmptySet, Sizes

LEMMA SizeOfRest ==
    ASSUME NEW A \in SUBSET Proc, NEW B \in SUBSET A
    PROVE  Cardinality(A \ B) = Cardinality(A) - Cardinality(B)
<1>1. (A \ B) \cup B = A /\ (A \ B) \cap B = {}
  OBVIOUS
<1>2. Cardinality(A) = Cardinality(A \ B) + Cardinality(B)
  BY <1>1, SizeOfUnion
<1> QED BY <1>2, Sizes

\* The senders not in W among those of A, if A and the confirmed errors are apart.
LEMMA RightOnes ==
    ASSUME NEW W \in SUBSET Proc, Cardinality(W) <= T,
           NEW conf \in SUBSET W, NEW A \in SUBSET Proc, A \cap conf = {}
    PROVE  /\ Cardinality(A \cap W) <= T - Cardinality(conf)
           /\ Cardinality(A \ W) >= Cardinality(A) + Cardinality(conf) - T
<1>1. Cardinality((A \cap W) \cup conf) = Cardinality(A \cap W) + Cardinality(conf)
  BY SizeOfUnion
<1>2. Cardinality((A \cap W) \cup conf) <= Cardinality(W)
  BY SizeMonotone
<1>3. Cardinality(A \ (A \cap W)) = Cardinality(A) - Cardinality(A \cap W)
  BY SizeOfRest
<1>4. A \ (A \cap W) = A \ W
  OBVIOUS
<1>5. /\ Cardinality(A) \in Nat /\ Cardinality(W) \in Nat
      /\ Cardinality(A \cap W) \in Nat /\ Cardinality(conf) \in Nat
  BY Sizes
<1>6. Cardinality(A \ W) = Cardinality(A) - Cardinality(A \cap W)
  BY <1>3, <1>4
<1>7. Cardinality(A \cap W) + Cardinality(conf) <= Cardinality(W)
  BY <1>1, <1>2
<1> QED BY <1>5, <1>6, <1>7, Bounds

\* Two words that agree at more than T points are equal.
LEMMA Distance ==
    ASSUME NEW c \in Code, NEW w \in Code, NEW A \in SUBSET Proc,
           \A q \in A : c[q] = w[q], Cardinality(A) > T
    PROVE  c = w
<1>1. A \subseteq Same(c, w) /\ Same(c, w) \in SUBSET Proc
  BY DEF Same
<1>2. Cardinality(A) <= Cardinality(Same(c, w))
  BY <1>1, SizeMonotone
<1>3. Cardinality(Same(c, w)) > T
  BY <1>1, <1>2, Sizes, PartiesAssumption
<1> QED BY <1>3, CodeAssumption

-----------------------------------------------------------------------------
(* The decoder. *)

\* A word that enough of the data agree with is the right one.
LEMMA AgreeingWord ==
    ASSUME NEW w \in [Chunk -> Code], NEW W \in SUBSET Proc, Cardinality(W) <= T,
           NEW d, DecoderOK(d, w, W), NEW b \in Chunk, NEW c \in Code,
           Cardinality(d.avail) - Cardinality(Errors(d, b, c)) >= MinPoints(d)
    PROVE  /\ c = w[b]
           /\ Errors(d, b, c) \subseteq W
           /\ Cardinality(d.avail \ W) > T
<1> DEFINE A == d.avail \ Errors(d, b, c)
<1>1. d.avail \in SUBSET Proc /\ d.confirmed \in SUBSET W /\ d.avail \cap d.confirmed = {}
  BY DEF DecoderOK, Decoder
<1>2. Errors(d, b, c) \in SUBSET d.avail
  BY DEF Errors
<1>3. Cardinality(A) >= T + 1 + T - Cardinality(d.confirmed)
  BY <1>1, <1>2, SizeOfRest DEF MinPoints
<1>4. Cardinality(A \ W) > T
  <2>1. A \in SUBSET Proc /\ A \cap d.confirmed = {} /\ A \ W \in SUBSET Proc
    BY <1>1
  <2>2. Cardinality(A \ W) >= Cardinality(A) + Cardinality(d.confirmed) - T
    BY <1>1, <2>1, RightOnes
  <2> QED BY <1>3, <2>1, <2>2, <1>1, Sizes, PartiesAssumption
<1>5. \A q \in A \ W : c[q] = w[b][q]
  BY DEF DecoderOK, RightData, Errors
<1>6. c = w[b]
  BY <1>1, <1>4, <1>5, Distance
<1>7. Errors(d, b, c) \subseteq W
  BY <1>6 DEF DecoderOK, RightData, Errors
<1>8. Cardinality(A \ W) <= Cardinality(d.avail \ W)
  BY <1>1, SizeMonotone
<1> QED BY <1>1, <1>4, <1>6, <1>7, <1>8, Sizes, PartiesAssumption

\* When everyone's message is there, the right word is near, and no other.
LEMMA AllThere ==
    ASSUME NEW w \in [Chunk -> Code], NEW W \in SUBSET Proc, Cardinality(W) <= T,
           NEW d, DecoderOK(d, w, W), Exhausted(d)
    PROVE  /\ Enough(d) /\ Cardinality(d.avail) > T
           /\ \A b \in Chunk : \A c \in RobustDecode(d, b) :
                /\ c = w[b]
                /\ Cardinality(d.avail) - Cardinality(Errors(d, b, c)) >= MinPoints(d)
<1>1. d.avail \in SUBSET Proc /\ d.confirmed \in SUBSET W /\ d.avail \cap d.confirmed = {}
  BY DEF DecoderOK, Decoder
<1>2. Cardinality(d.avail) + Cardinality(d.confirmed) = N
  BY <1>1, SizeOfUnion DEF Exhausted, N
<1>3. /\ Cardinality(d.avail) \in Nat /\ Cardinality(d.confirmed) \in Nat
      /\ Cardinality(d.confirmed) <= T
  BY <1>1, Sizes, SizeMonotone, PartiesAssumption
<1>4. Enough(d) /\ Cardinality(d.avail) > T
  BY <1>2, <1>3, PartiesAssumption DEF Enough, MinPoints
<1>5. ASSUME NEW b \in Chunk, NEW c \in RobustDecode(d, b)
      PROVE  /\ c = w[b]
             /\ Cardinality(d.avail) - Cardinality(Errors(d, b, c)) >= MinPoints(d)
  <2>1. w[b] \in Code
    OBVIOUS
  <2>2. Errors(d, b, w[b]) \subseteq d.avail \cap W
    BY DEF DecoderOK, RightData, Errors
  <2>3. Cardinality(Errors(d, b, w[b])) <= T - Cardinality(d.confirmed)
    <3>1. Cardinality(Errors(d, b, w[b])) <= Cardinality(d.avail \cap W)
      BY <1>1, <2>2, SizeMonotone
    <3>2. Cardinality(d.avail \cap W) <= T - Cardinality(d.confirmed)
      BY <1>1, RightOnes
    <3> QED BY <1>1, <1>3, <2>2, <3>1, <3>2, Sizes, PartiesAssumption
  <2>4. \A e : Cardinality(Errors(d, b, e)) \in Nat
    BY <1>1, Sizes DEF Errors
  <2>5. Near(d, b, w[b])
    BY <1>2, <1>3, <2>3, <2>4, PartiesAssumption DEF Near
  <2>6. c \in Code /\ Near(d, b, c)
    BY <2>1, <2>5 DEF RobustDecode
  <2>7. c = w[b]
    <3> DEFINE E == Errors(d, b, c) \cup Errors(d, b, w[b])
               A == d.avail \ E
    <3>1. Errors(d, b, c) \in SUBSET Proc /\ Errors(d, b, w[b]) \in SUBSET Proc /\ E \in SUBSET d.avail
      BY <1>1 DEF Errors
    <3>2. Cardinality(E) <= Cardinality(Errors(d, b, c)) + Cardinality(Errors(d, b, w[b]))
      <4>1. E = (Errors(d, b, c) \ Errors(d, b, w[b])) \cup Errors(d, b, w[b])
        OBVIOUS
      <4>2. Cardinality(E) = Cardinality(Errors(d, b, c) \ Errors(d, b, w[b]))
                             + Cardinality(Errors(d, b, w[b]))
        BY <3>1, <4>1, SizeOfUnion
      <4>3. Cardinality(Errors(d, b, c) \ Errors(d, b, w[b])) <= Cardinality(Errors(d, b, c))
        BY <3>1, SizeMonotone
      <4>4. Cardinality(Errors(d, b, c) \ Errors(d, b, w[b])) \in Nat
        BY <3>1, Sizes
      <4> QED BY <2>4, <4>2, <4>3, <4>4
    <3>3. Cardinality(A) = Cardinality(d.avail) - Cardinality(E)
      BY <1>1, <3>1, SizeOfRest
    <3>4. Cardinality(E) \in Nat
      BY <1>1, <3>1, Sizes
    <3>5. Cardinality(A) > T
      BY <1>3, <2>4, <2>5, <2>6, <3>2, <3>3, <3>4, PartiesAssumption DEF Near
    <3>6. \A q \in A : c[q] = w[b][q]
      BY DEF Errors
    <3>7. A \in SUBSET Proc
      BY <1>1
    <3> HIDE DEF A
    <3> QED BY <2>1, <2>6, <3>5, <3>6, <3>7, Distance
  <2>8. Cardinality(d.avail) - Cardinality(Errors(d, b, w[b])) >= MinPoints(d)
    BY <1>2, <1>3, <2>3, <2>4, PartiesAssumption DEF MinPoints
  <2> QED BY <2>7, <2>8
<1> QED BY <1>4, <1>5

\* The word through the first T + 1 data.
LEMMA InterpolantFits ==
    ASSUME NEW d, d.avail \in SUBSET Proc, \A q \in d.avail : d.data[q] \in Message,
           Cardinality(d.avail) = T + 1, NEW b \in Chunk
    PROVE  /\ Interpolant(d, b) \in Code
           /\ \A q \in d.avail : Interpolant(d, b)[q] = d.data[q][b]
<1> DEFINE v == [q \in d.avail |-> d.data[q][b]]
<1>1. v \in [d.avail -> Value]
  BY DEF Message
<1>2. \E c \in Code : \A q \in d.avail : c[q] = v[q]
  BY <1>1, InterpolationAssumption
<1>3. \E c \in Code : \A q \in d.avail : c[q] = d.data[q][b]
  BY <1>2
<1> QED BY <1>3 DEF Interpolant

\* A guess that T + 1 + T data agree with is right.
LEMMA ConfirmedGuess ==
    ASSUME NEW w \in [Chunk -> Code], NEW W \in SUBSET Proc, Cardinality(W) <= T,
           NEW d, DecoderOK(d, w, W), d.optimistic, GuessFits(d), Enough(d)
    PROVE  d.guess = w /\ Cardinality(d.avail \ W) > T
<1>1. /\ d.avail \in SUBSET Proc /\ d.confirmed \in SUBSET Proc
      /\ Cardinality(d.avail) \in Nat /\ Cardinality(d.confirmed) \in Nat
  BY Sizes DEF DecoderOK, Decoder
<1>2. ASSUME NEW b \in Chunk
      PROVE  d.guess[b] = w[b] /\ Cardinality(d.avail \ W) > T
  <2>1. Errors(d, b, d.guess[b]) = {}
    BY DEF Errors, GuessFits
  <2>2. Cardinality(Errors(d, b, d.guess[b])) = 0
    BY <2>1, FS_EmptySet
  <2>3. MinPoints(d) \in Int
    BY <1>1, PartiesAssumption DEF MinPoints
  <2>4. Cardinality(d.avail) - Cardinality(Errors(d, b, d.guess[b])) >= MinPoints(d)
    BY <1>1, <2>2, <2>3 DEF Enough
  <2>5. d.guess[b] \in Code
    BY DEF GuessFits
  <2> QED BY <2>4, <2>5, AgreeingWord
<1>3. 1 \in Chunk
  BY PartiesAssumption DEF Chunk
<1>4. w = [b \in Chunk |-> w[b]] /\ d.guess = [b \in Chunk |-> d.guess[b]]
  BY DEF GuessFits
<1> QED BY <1>2, <1>3, <1>4

-----------------------------------------------------------------------------
(* What the steps of a decoder keep. *)

LEMMA SeqIsFunction ==
    ASSUME NEW S, NEW s \in Seq(S) PROVE s \in [1 .. Len(s) -> S]
  OBVIOUS

\* A decoder as the parties store it.
Waiting(d, w, W) == DecoderOK(d, w, W) /\ d.result = None

\* What holds of a decoder a that a step has led to from d, with the senders "from".
Outcome(a, w, W, from) ==
    /\ DecoderOK(a, w, W)
    /\ a.avail \subseteq from
    /\ a.result # None => \E S \in SUBSET (from \ W) : Cardinality(S) > T
    /\ a.result = None /\ Exhausted(a) => a.updating

LEMMA AddedKeeps ==
    ASSUME NEW w \in [Chunk -> Code], NEW W \in SUBSET Proc, Cardinality(W) <= T,
           NEW d, Waiting(d, w, W), ~d.updating,
           NEW q \in Proc, q \notin d.avail \cup d.confirmed,
           NEW m \in Message, q \notin W => \A b \in Chunk : m[b] = w[b][q]
    PROVE  Outcome(Added(d, q, m), w, W, d.avail \cup {q})
<1> DEFINE a == [d EXCEPT !.avail = @ \cup {q}, !.data[q] = m]
           n == Cardinality(a.avail)
<1>1. /\ a.avail = d.avail \cup {q} /\ a.avail \in SUBSET Proc
      /\ a \in Decoder
      /\ a.confirmed = d.confirmed /\ a.optimistic = d.optimistic /\ a.guess = d.guess
      /\ a.decoded = d.decoded /\ a.updating = FALSE /\ a.result = None
      /\ a.data[q] = m /\ \A r \in Proc : r # q => a.data[r] = d.data[r]
  BY DEF Waiting, DecoderOK, Decoder
<1>2. /\ a.confirmed \subseteq W /\ a.avail \cap a.confirmed = {}
      /\ Len(a.decoded) < Chunks /\ Len(a.decoded) <= Chunks
      /\ \A i \in 1 .. Len(a.decoded) : a.decoded[i] = w[i]
      /\ a.optimistic => a.confirmed = {} /\ a.decoded = <<>>
  BY <1>1 DEF Waiting, DecoderOK
<1>3. RightData(a, w, W)
  BY <1>1 DEF Waiting, DecoderOK, Decoder, RightData
<1>4. /\ n = Cardinality(d.avail) + 1
      /\ n \in Nat /\ Cardinality(d.avail) \in Nat
  <2>1. d.avail \in SUBSET Proc
    BY DEF Waiting, DecoderOK, Decoder
  <2>2. IsFiniteSet(d.avail) /\ Cardinality(d.avail) \in Nat
    BY <2>1, Sizes
  <2>3. Cardinality(d.avail \cup {q}) = Cardinality(d.avail) + 1
    BY <2>2, FS_AddElement
  <2>4. a.avail = d.avail \cup {q}
    BY <1>1
  <2> HIDE DEF a
  <2> QED BY <2>2, <2>3, <2>4
<1> HIDE DEF a
<1>5. DecoderOK(a, w, W) <=> (a.optimistic /\ n > T => GuessFits(a))
  BY <1>1, <1>2, <1>3 DEF DecoderOK
<1>6. CASE n <= T
  <2>1. Added(d, q, m) = a
    BY <1>4, <1>6, Bounds DEF Added, a
  <2>2. DecoderOK(a, w, W)
    BY <1>4, <1>5, <1>6, PartiesAssumption
  <2>3. ~Exhausted(a)
    BY <1>4, <1>6, <2>2, AllThere, PartiesAssumption
  <2> QED BY <1>1, <2>1, <2>2, <2>3 DEF Outcome
<1>7. ASSUME NEW g \in Decoder, GuessFits(g), g.avail = a.avail, g.confirmed = a.confirmed,
             g.data = a.data, g.decoded = a.decoded, g.optimistic = a.optimistic,
             g.updating = FALSE, g.result = None, a.optimistic
      PROVE  Outcome(Confirmed(g), w, W, d.avail \cup {q})
  <2>1. DecoderOK(g, w, W)
    BY <1>1, <1>2, <1>3, <1>7 DEF DecoderOK, RightData
  <2>2. g.avail = a.avail /\ g.optimistic /\ g.result = None /\ g.guess # None
    BY <1>7, OutcomeAssumption DEF GuessFits
  <2>3. CASE Enough(g)
    <3>1. g.guess = w /\ Cardinality(g.avail \ W) > T
      BY <1>7, <2>1, <2>2, <2>3, ConfirmedGuess
    <3>2. Confirmed(g) = [g EXCEPT !.result = w]
      BY <2>3, <3>1 DEF Confirmed
    <3>3. DecoderOK(Confirmed(g), w, W)
      BY <2>1, <2>2, <3>1, <3>2 DEF DecoderOK, Decoder, RightData, GuessFits
    <3>4. Confirmed(g).avail = g.avail /\ Confirmed(g).result # None
      BY <2>1, <2>2, <3>1, <3>2 DEF DecoderOK, Decoder
    <3> QED BY <1>1, <2>2, <3>1, <3>3, <3>4 DEF Outcome
  <2>4. CASE ~Enough(g)
    <3>1. Confirmed(g) = g
      BY <2>1, <2>2, <2>4 DEF Confirmed, DecoderOK, Decoder
    <3>2. ~Exhausted(g)
      BY <2>1, <2>4, AllThere
    <3> QED BY <1>1, <2>1, <2>2, <3>1, <3>2 DEF Outcome
  <2> QED BY <2>3, <2>4
<1>8. CASE a.optimistic /\ n = T + 1
  <2> DEFINE g == [a EXCEPT !.guess = [b \in Chunk |-> Interpolant(a, b)]]
  <2>1. Added(d, q, m) = Confirmed(g)
    BY <1>4, <1>8, PartiesAssumption DEF Added, a
  <2>2. \A b \in Chunk : /\ Interpolant(a, b) \in Code
                         /\ \A r \in a.avail : Interpolant(a, b)[r] = a.data[r][b]
    <3>1. a.avail \in SUBSET Proc /\ Cardinality(a.avail) = T + 1
      BY <1>1, <1>8
    <3>2. \A r \in a.avail : a.data[r] \in Message
      BY <1>3 DEF RightData
    <3> QED BY <3>1, <3>2, InterpolantFits
  <2>3. /\ g.guess = [b \in Chunk |-> Interpolant(a, b)]
        /\ g \in Decoder /\ g.avail = a.avail /\ g.data = a.data /\ g.confirmed = a.confirmed
        /\ g.decoded = a.decoded /\ g.optimistic = a.optimistic /\ g.updating = FALSE
        /\ g.result = None
    BY <1>1, <2>2 DEF Decoder
  <2> HIDE DEF g
  <2>4. GuessFits(g)
    BY <2>2, <2>3 DEF GuessFits
  <2> QED BY <1>7, <1>8, <2>1, <2>3, <2>4
<1>9. CASE a.optimistic /\ n > T + 1 /\ \A b \in Chunk : m[b] = a.guess[b][q]
  <2>1. Added(d, q, m) = Confirmed(a)
    BY <1>4, <1>9, PartiesAssumption DEF Added, a
  <2>2. GuessFits(d)
    BY <1>1, <1>4, <1>9, PartiesAssumption DEF Waiting, DecoderOK
  <2>3. GuessFits(a)
    BY <1>1, <1>9, <2>2 DEF GuessFits
  <2> QED BY <1>1, <1>7, <1>9, <2>1, <2>3
<1>10. CASE n > T /\ ~(a.optimistic /\ n = T + 1)
            /\ ~(a.optimistic /\ n > T + 1 /\ \A b \in Chunk : m[b] = a.guess[b][q])
  <2> DEFINE e == [a EXCEPT !.optimistic = FALSE, !.guess = None, !.updating = Enough(a)]
  <2>1. Added(d, q, m) = e
    BY <1>4, <1>10, PartiesAssumption DEF Added, a
  <2>2. Enough(a) \in BOOLEAN
    BY DEF Enough
  <2>3. /\ e \in Decoder /\ e.avail = a.avail /\ e.confirmed = a.confirmed
        /\ e.data = a.data /\ e.decoded = a.decoded /\ e.updating = Enough(a)
        /\ e.result = None /\ e.optimistic = FALSE
    BY <1>1, <2>2 DEF Decoder
  <2>4. DecoderOK(e, w, W)
    BY <1>2, <1>3, <2>3 DEF DecoderOK, RightData
  <2>5. Exhausted(e) => Enough(e)
    BY <2>4, AllThere
  <2>6. Enough(e) = Enough(a)
    BY <2>3 DEF Enough, MinPoints
  <2> HIDE DEF e
  <2> QED BY <1>1, <2>1, <2>3, <2>4, <2>5, <2>6 DEF Outcome
<1> QED BY <1>4, <1>6, <1>8, <1>9, <1>10, PartiesAssumption

LEMMA UpdatedKeeps ==
    ASSUME NEW w \in [Chunk -> Code], NEW W \in SUBSET Proc, Cardinality(W) <= T,
           NEW d, Waiting(d, w, W), d.updating,
           NEW c \in RobustDecode(d, Len(d.decoded) + 1)
    PROVE  Outcome(Updated(d, c), w, W, d.avail)
<1> DEFINE b      == Len(d.decoded) + 1
           errors == Errors(d, b, c)
           e      == [d EXCEPT !.decoded   = Append(@, c),
                               !.confirmed = @ \cup errors,
                               !.avail     = @ \ errors]
           agreed == c # None /\ Cardinality(d.avail) - Cardinality(errors) >= MinPoints(d)
<1>1. d \in Decoder /\ d.result = None /\ DecoderOK(d, w, W) /\ ~d.optimistic
  BY DEF Waiting, DecoderOK
<1>2. b \in Chunk /\ Len(d.decoded) \in Nat
  BY <1>1, PartiesAssumption DEF DecoderOK, Decoder, Chunk
<1>3. c \in Code \cup {None}
  BY DEF RobustDecode
<1>4. /\ Cardinality(d.avail) \in Int /\ Cardinality(errors) \in Int /\ MinPoints(d) \in Int
  BY <1>1, Sizes, PartiesAssumption DEF Decoder, Errors, MinPoints
<1>5. CASE ~agreed
  <2> DEFINE u == [d EXCEPT !.updating = FALSE]
  <2>1. Updated(d, c) = u
    BY <1>4, <1>5 DEF Updated
  <2>2. /\ u \in Decoder /\ u.avail = d.avail /\ u.confirmed = d.confirmed
        /\ u.data = d.data /\ u.decoded = d.decoded /\ u.updating = FALSE
        /\ u.result = None /\ u.optimistic = FALSE
    BY <1>1 DEF Decoder
  <2>3. DecoderOK(u, w, W)
    BY <1>1, <2>2 DEF DecoderOK, RightData
  <2>4. ~Exhausted(d)
    <3> SUFFICES ASSUME Exhausted(d) PROVE FALSE
      OBVIOUS
    <3>1. c = w[b] /\ Cardinality(d.avail) - Cardinality(errors) >= MinPoints(d)
      BY <1>1, <1>2, AllThere
    <3> QED BY <1>2, <1>5, <3>1, OutcomeAssumption
  <2>5. ~Exhausted(u)
    BY <2>2, <2>4 DEF Exhausted
  <2> HIDE DEF u
  <2> QED BY <2>1, <2>2, <2>3, <2>5 DEF Outcome
<1>6. CASE agreed
  <2>1. c \in Code /\ Cardinality(d.avail) - Cardinality(Errors(d, b, c)) >= MinPoints(d)
    BY <1>3, <1>6
  <2>2. c = w[b] /\ errors \subseteq W /\ Cardinality(d.avail \ W) > T
    <3>1. DecoderOK(d, w, W) /\ b \in Chunk
      BY <1>1, <1>2
    <3> HIDE DEF b
    <3>2. c = w[b] /\ Errors(d, b, c) \subseteq W /\ Cardinality(d.avail \ W) > T
      BY <2>1, <3>1, AgreeingWord
    <3> QED BY <3>2
  <2>3. /\ e.avail = d.avail \ errors /\ e.confirmed = d.confirmed \cup errors
        /\ e.data = d.data /\ e.decoded = Append(d.decoded, c)
        /\ e.updating = TRUE /\ e.result = None /\ e.optimistic = FALSE /\ e.guess = d.guess
    BY <1>1 DEF Decoder
  <2>4. /\ e \in Decoder
        /\ Len(e.decoded) = b
        /\ \A i \in 1 .. b : e.decoded[i] = w[i]
    <3>1. Append(d.decoded, c) \in Seq(Code) /\ Len(Append(d.decoded, c)) = b
      BY <1>1, <2>1 DEF Decoder
    <3>2. \A i \in 1 .. b : Append(d.decoded, c)[i] = w[i]
      BY <1>1, <1>2, <2>2 DEF DecoderOK, Decoder
    <3>3. errors \subseteq Proc
      BY <1>1 DEF Decoder, Errors
    <3>4. e \in Decoder
      BY <1>1, <3>1, <3>3 DEF Decoder
    <3> QED BY <2>3, <3>1, <3>2, <3>4
  <2>5. /\ e.confirmed \subseteq W /\ e.avail \cap e.confirmed = {} /\ RightData(e, w, W)
        /\ e.avail \subseteq d.avail
    BY <1>1, <2>2, <2>3 DEF DecoderOK, RightData
  <2>6. \E S \in SUBSET (d.avail \ W) : Cardinality(S) > T
    BY <2>2
  <2>7. CASE b < Chunks
    <3>1. Updated(d, c) = e
      BY <1>4, <1>6, <2>7 DEF Updated
    <3> HIDE DEF e
    <3>2. DecoderOK(e, w, W)
      BY <1>2, <2>3, <2>4, <2>5, <2>7, Bounds DEF DecoderOK
    <3> QED BY <2>3, <2>5, <2>6, <3>1, <3>2 DEF Outcome
  <2>8. CASE ~(b < Chunks)
    <3> DEFINE u == [e EXCEPT !.updating = FALSE, !.result = e.decoded]
    <3>1. Updated(d, c) = u
      BY <1>4, <1>6, <2>8 DEF Updated
    <3> HIDE DEF e
    <3>2. e.decoded = w
      <4>1. b = Chunks
        BY <1>2, <2>8, PartiesAssumption DEF Chunk
      <4>2. e.decoded \in [Chunk -> Code]
        <5>1. e.decoded \in Seq(Code) /\ Len(e.decoded) = Chunks
          BY <2>4, <4>1 DEF Decoder
        <5> QED BY <5>1, SeqIsFunction DEF Chunk
      <4> QED BY <2>4, <4>1, <4>2 DEF Chunk
    <3>3. /\ u \in Decoder /\ u.avail = e.avail /\ u.confirmed = e.confirmed
          /\ u.data = e.data /\ u.decoded = e.decoded /\ u.updating = FALSE
          /\ u.result = w /\ u.optimistic = FALSE
      BY <2>3, <2>4, <3>2 DEF Decoder
    <3>4. w # None
      BY OutcomeAssumption
    <3>5. DecoderOK(u, w, W)
      BY <1>2, <2>4, <2>5, <3>3, <3>4, PartiesAssumption DEF DecoderOK, RightData, Chunk
    <3> HIDE DEF u
    <3> QED BY <2>5, <2>6, <3>1, <3>3, <3>4, <3>5 DEF Outcome
  <2> QED BY <2>7, <2>8
<1> QED BY <1>5, <1>6
-----------------------------------------------------------------------------
(* The opening. *)

LEMMA FreshTyped == Fresh \in Decoder /\ Fresh.avail = {} /\ Fresh.result = None
  BY DEF Fresh, Decoder

LEMMA FreshWaits == ASSUME NEW w, NEW W PROVE Waiting(Fresh, w, W)
  BY FreshTyped, FS_EmptySet, Bounds DEF Waiting, DecoderOK, Fresh, RightData

LEMMA OpenInvInit == OpenInit => OpenInv
<1> SUFFICES ASSUME OpenInit PROVE OpenInv
  OBVIOUS
<1> USE DEF OpenInit, OpenStart
<1>1. OpenTypeOK
  BY FreshTyped DEF OpenTypeOK
<1>2. MessagesOK
  BY DEF MessagesOK
<1>3. StagesOK
  BY OutcomeAssumption DEF StagesOK
<1>4. DecodersOK
  BY FreshWaits, FreshTyped DEF DecodersOK, Waiting
<1> QED BY <1>1, <1>2, <1>3, <1>4 DEF OpenInv

\* What is right for a party, and who may be wrong, in a round.
LEMMA RoundTyped ==
    ASSUME OpenInv, NEW p \in Proc
    PROVE  /\ Word(p) \in [Chunk -> Code]
           /\ Wrong(p) \in SUBSET Proc /\ Cardinality(Wrong(p)) <= T
<1>1. Word(p) \in [Chunk -> Code] /\ Wrong(p) \in SUBSET Proc
  BY DEF OpenInv, OpenTypeOK, Word, Words, Wrong
<1>2. Wrong(p) \in SUBSET (faulty \cup misled) /\ faulty \cup misled \in SUBSET Proc
  BY DEF OpenInv, OpenTypeOK, Wrong
<1>3. Cardinality(Wrong(p)) <= Cardinality(faulty \cup misled)
  BY <1>2, SizeMonotone
<1> QED BY <1>1, <1>2, <1>3, Sizes, Bounds DEF OpenInv

LEMMA CallKeeps == ASSUME OpenInv, NEW p \in Honest, Call(p) PROVE OpenInv'
<1> PICK enc \in [Proc -> Message] : (p \notin misled => enc = RightFirst(p)) /\ Begin(p, enc)
  BY DEF Call
<1> USE DEF Begin
<1>1. p \in Proc /\ enc # None
  BY OutcomeAssumption DEF Honest
<1>2. OpenTypeOK'
  BY <1>1 DEF OpenInv, OpenTypeOK
<1>3. MessagesOK'
  BY DEF OpenInv, OpenTypeOK, MessagesOK, RightFirst, RightSecond
<1>4. Callers' = Callers \cup {p} /\ Callers \in SUBSET Proc
  BY <1>1 DEF OpenInv, OpenTypeOK, Callers
<1>5. Cardinality(Callers) > T => Cardinality(Callers') > T
  <2>1. Callers \cup {p} \in SUBSET Proc
    BY <1>1, <1>4
  <2>2. Cardinality(Callers) <= Cardinality(Callers')
    BY <1>4, <2>1, SizeMonotone
  <2> QED BY <1>4, <2>1, <2>2, Sizes, Bounds
<1>6. StagesOK'
  BY <1>1, <1>5 DEF OpenInv, OpenTypeOK, StagesOK
<1>7. DecodersOK'
  <2>1. ASSUME NEW r \in Proc, r # p
        PROVE  stage'[r] = stage[r] /\ dec'[r] = dec[r] /\ Word(r)' = Word(r) /\ Wrong(r)' = Wrong(r)
    BY <2>1 DEF OpenInv, OpenTypeOK, Word, Wrong
  <2>2. \A q \in Proc : first[q] # None => first'[q] # None
    BY <1>1 DEF OpenInv, OpenTypeOK
  <2>3. stage[p] = "idle" /\ dec[p] = Fresh /\ dec'[p] = Fresh /\ stage'[p] = "R1"
    BY <1>1 DEF OpenInv, OpenTypeOK, DecodersOK
  <2>4. DecoderOK(dec'[p], Word(p)', Wrong(p)') /\ dec'[p].result = None /\ dec'[p].avail = {}
    BY <2>3, FreshWaits, FreshTyped DEF Waiting
  <2> QED BY <2>1, <2>2, <2>3, <2>4 DEF OpenInv, DecodersOK, OpenTypeOK
<1>8. Cardinality(faulty' \cup misled') <= T
  BY DEF OpenInv
<1> QED BY <1>2, <1>3, <1>6, <1>7, <1>8 DEF OpenInv

\* The end of a call with a result that the abstract opening allows.
EndOK(p) == /\ \/ opened'[p] = Raised /\ faulty # {}
               \/ opened'[p] = words.r2 /\ Cardinality(Callers) > T
            /\ opened' = [opened EXCEPT ![p] = opened'[p]]

LEMMA EndKeeps ==
    ASSUME OpenInv, NEW p \in Proc, stage[p] \in {"R1", "R2"},
           NEW outcome, End(p, outcome), UNCHANGED <<first, faulty, misled, words>>,
           \/ outcome = Raised /\ faulty # {}
           \/ outcome = words.r2 /\ Cardinality(Callers) > T
    PROVE  OpenInv' /\ EndOK(p)
<1> USE DEF End
<1>1. OpenTypeOK'
  BY FreshTyped DEF OpenInv, OpenTypeOK
<1>2. MessagesOK'
  BY DEF OpenInv, MessagesOK, RightFirst, RightSecond
<1>3. StagesOK'
  BY OutcomeAssumption DEF OpenInv, OpenTypeOK, StagesOK, Callers
<1>4. DecodersOK'
  <2>1. ASSUME NEW r \in Proc, r # p
        PROVE  stage'[r] = stage[r] /\ dec'[r] = dec[r] /\ Word(r)' = Word(r) /\ Wrong(r)' = Wrong(r)
    BY <2>1 DEF OpenInv, OpenTypeOK, Word, Wrong
  <2>2. stage'[p] = "end" /\ dec'[p] = Fresh
    BY DEF OpenInv, OpenTypeOK
  <2>3. DecoderOK(dec'[p], Word(p)', Wrong(p)') /\ dec'[p].result = None
    BY <2>2, FreshWaits DEF Waiting
  <2> QED BY <2>1, <2>2, <2>3 DEF OpenInv, DecodersOK
<1>5. Cardinality(faulty' \cup misled') <= T
  BY DEF OpenInv
<1>6. EndOK(p)
  BY DEF OpenInv, OpenTypeOK, EndOK
<1> QED BY <1>1, <1>2, <1>3, <1>4, <1>5, <1>6 DEF OpenInv

\* The step from round R1 to R2.
LEMMA NextRoundKeeps ==
    ASSUME OpenInv, NEW p \in Proc, stage[p] = "R1", Cardinality(Callers) > T,
           second' = [second EXCEPT ![p] = [b \in Chunk |-> AtZero[words.r1[p][b]]]],
           stage' = [stage EXCEPT ![p] = "R2"], dec' = [dec EXCEPT ![p] = Fresh],
           UNCHANGED <<first, opened, faulty, misled, words>>
    PROVE  OpenInv'
<1>1. words.r1[p] \in [Chunk -> Code] /\ words.r2 \in [Chunk -> Code]
  BY DEF OpenInv, OpenTypeOK, Words
<1>2. [b \in Chunk |-> AtZero[words.r1[p][b]]] = RightSecond(p)
  BY DEF OpenInv, OpenTypeOK, Words, RightSecond
<1>3. RightSecond(p) \in Message
  BY <1>1, <1>2, CodeAssumption DEF Message
<1>4. OpenTypeOK'
  BY <1>2, <1>3, FreshTyped DEF OpenInv, OpenTypeOK
<1>5. MessagesOK'
  BY <1>2 DEF OpenInv, OpenTypeOK, MessagesOK, RightFirst, RightSecond
<1>6. StagesOK'
  BY DEF OpenInv, OpenTypeOK, StagesOK, Callers
<1>7. DecodersOK'
  <2>1. ASSUME NEW r \in Proc, r # p
        PROVE  stage'[r] = stage[r] /\ dec'[r] = dec[r] /\ Word(r)' = Word(r) /\ Wrong(r)' = Wrong(r)
    BY <2>1 DEF OpenInv, OpenTypeOK, Word, Wrong
  <2>2. stage'[p] = "R2" /\ dec'[p] = Fresh
    BY DEF OpenInv, OpenTypeOK
  <2>3. DecoderOK(dec'[p], Word(p)', Wrong(p)') /\ dec'[p].result = None
    BY <2>2, FreshWaits DEF Waiting
  <2> QED BY <2>1, <2>2, <2>3 DEF OpenInv, DecodersOK
<1>8. Cardinality(faulty' \cup misled') <= T
  BY DEF OpenInv
<1> QED BY <1>4, <1>5, <1>6, <1>7, <1>8 DEF OpenInv

\* A waiting decoder that is stored.
LEMMA StoreKeeps ==
    ASSUME OpenInv, NEW p \in Proc, stage[p] \in {"R1", "R2"},
           NEW d, Waiting(d, Word(p), Wrong(p)),
           stage[p] = "R1" => \A q \in d.avail \ faulty : first[q] # None,
           dec' = [dec EXCEPT ![p] = d],
           UNCHANGED <<stage, first, second, opened, faulty, misled, words>>
    PROVE  OpenInv'
<1>1. d \in Decoder
  BY DEF Waiting, DecoderOK
<1>2. OpenTypeOK'
  BY <1>1 DEF OpenInv, OpenTypeOK
<1>3. MessagesOK' /\ StagesOK'
  <2>1. MessagesOK'
    BY DEF OpenInv, MessagesOK, RightFirst, RightSecond
  <2>2. Callers' = Callers
    BY DEF Callers
  <2> QED BY <2>1, <2>2 DEF OpenInv, StagesOK
<1>4. \A r \in Proc : /\ Word(r)' = Word(r) /\ Wrong(r)' = Wrong(r)
                      /\ dec'[r] = IF r = p THEN d ELSE dec[r]
  BY DEF OpenInv, OpenTypeOK, Word, Wrong
<1>5. DecodersOK'
  BY <1>4 DEF OpenInv, DecodersOK, Waiting
<1>6. Cardinality(faulty' \cup misled') <= T
  BY DEF OpenInv
<1> QED BY <1>2, <1>3, <1>5, <1>6 DEF OpenInv

LEMMA GoOnKeeps ==
    ASSUME OpenInv, NEW p \in Proc, stage[p] \in {"R1", "R2"},
           NEW a, NEW from \in SUBSET Proc, Outcome(a, Word(p), Wrong(p), from),
           stage[p] = "R1" => \A q \in from \ faulty : first[q] # None,
           GoOn(p, a), UNCHANGED <<first, faulty, misled, words>>
    PROVE  OpenInv' /\ (UNCHANGED opened \/ EndOK(p))
<1>1. CASE a.result = None
  <2>1. /\ dec' = [dec EXCEPT ![p] = a] /\ UNCHANGED <<stage, second, opened>>
    BY <1>1 DEF Outcome, GoOn
  <2>2. Waiting(a, Word(p), Wrong(p))
    BY <1>1 DEF Outcome, Waiting
  <2>3. stage[p] = "R1" => \A q \in a.avail \ faulty : first[q] # None
    BY DEF Outcome
  <2> QED BY <2>1, <2>2, <2>3, StoreKeeps
<1>2. CASE a.result # None
  <2>1. a.result = Word(p)
    BY <1>2 DEF Outcome, DecoderOK
  <2>2. Cardinality(Callers) > T
    <3>1. CASE stage[p] = "R1"
      <4>1. PICK S \in SUBSET (from \ Wrong(p)) : Cardinality(S) > T
        BY <1>2 DEF Outcome
      <4>2. S \in SUBSET Callers /\ Callers \in SUBSET Proc
        BY <3>1 DEF Wrong, Callers
      <4>3. Cardinality(S) <= Cardinality(Callers)
        BY <4>2, SizeMonotone
      <4> QED BY <4>1, <4>2, <4>3, Sizes, Bounds
    <3>2. CASE stage[p] = "R2"
      BY <3>2 DEF OpenInv, StagesOK
    <3> QED BY <3>1, <3>2
  <2>3. CASE stage[p] = "R2"
    <3>1. End(p, words.r2)
      BY <1>2, <2>1, <2>3 DEF GoOn, Word
    <3> QED BY <2>2, <3>1, EndKeeps
  <2>4. CASE stage[p] = "R1"
    <3>1. /\ second' = [second EXCEPT ![p] = [b \in Chunk |-> AtZero[words.r1[p][b]]]]
          /\ stage' = [stage EXCEPT ![p] = "R2"]
          /\ dec' = [dec EXCEPT ![p] = Fresh]
          /\ UNCHANGED opened
      BY <1>2, <2>1, <2>4 DEF GoOn, Word
    <3> QED BY <2>2, <2>4, <3>1, NextRoundKeeps
  <2> QED BY <2>3, <2>4
<1> QED BY <1>1, <1>2

\* A message of the round: right, or of a sender that may be wrong.
LEMMA MessageTyped ==
    ASSUME OpenInv, NEW p \in Proc, stage[p] \in {"R1", "R2"}, NEW q \in Proc,
           NEW m \in Incoming(p, q)
    PROVE  /\ m = Short => q \in faulty
           /\ m # Short => m \in Message
           /\ q \notin Wrong(p) => \A b \in Chunk : m[b] = Word(p)[b][q]
           /\ stage[p] = "R1" /\ q \notin faulty => first[q] # None
<1>1. Word(p) \in [Chunk -> Code]
  BY RoundTyped
<1>2. CASE q \in faulty
  <2>1. [b \in Chunk |-> Word(p)[b][q]] \in Message
    BY <1>1, CodeAssumption DEF Message
  <2>2. m \in Message \cup {Short}
    BY <1>2, <2>1, PartiesAssumption DEF Incoming
  <2> QED BY <1>2, <2>2 DEF Wrong
<1>3. CASE q \notin faulty /\ stage[p] = "R1"
  <2>1. first[q] # None /\ m = first[q][p]
    BY <1>3 DEF Incoming
  <2>2. m \in Message
    BY <2>1 DEF OpenInv, OpenTypeOK
  <2>3. q \notin misled => \A b \in Chunk : m[b] = Word(p)[b][q]
    BY <1>3, <2>1 DEF OpenInv, MessagesOK, RightFirst, Word
  <2> QED BY <1>3, <2>1, <2>2, <2>3, OutcomeAssumption DEF Wrong
<1>4. CASE q \notin faulty /\ stage[p] # "R1"
  <2>1. m = second[q] /\ m # None
    BY <1>4 DEF Incoming
  <2>2. m = RightSecond(q) /\ m \in Message
    BY <2>1 DEF OpenInv, OpenTypeOK, MessagesOK
  <2> QED BY <1>4, <2>2, OutcomeAssumption DEF RightSecond, Word
<1> QED BY <1>2, <1>3, <1>4

LEMMA RecvKeeps ==
    ASSUME OpenInv, NEW p \in Honest, NEW q \in Proc, Recv(p, q)
    PROVE  OpenInv' /\ stage[p] # "idle" /\ stage[p] # "end" /\ UNCHANGED <<first, faulty, words>>
                    /\ (UNCHANGED opened \/ EndOK(p))
<1>1. /\ p \in Proc /\ stage[p] \in {"R1", "R2"} /\ ~dec[p].updating
      /\ q \notin dec[p].avail \cup dec[p].confirmed
      /\ UNCHANGED <<first, faulty, misled, words>>
  BY DEF Honest, Recv
<1>2. PICK m \in Incoming(p, q) : IF m = Short THEN End(p, Raised) ELSE GoOn(p, Added(dec[p], q, m))
  BY DEF Recv
<1>3. Waiting(dec[p], Word(p), Wrong(p))
  BY <1>1 DEF OpenInv, DecodersOK, Waiting
<1>4. CASE m = Short
  <2>1. End(p, Raised) /\ faulty # {}
    BY <1>1, <1>2, <1>4, MessageTyped
  <2> QED BY <1>1, <2>1, EndKeeps
<1>5. CASE m # Short
  <2>1. /\ m \in Message
        /\ q \notin Wrong(p) => \A b \in Chunk : m[b] = Word(p)[b][q]
        /\ stage[p] = "R1" /\ q \notin faulty => first[q] # None
    BY <1>1, <1>5, MessageTyped
  <2>2. Outcome(Added(dec[p], q, m), Word(p), Wrong(p), dec[p].avail \cup {q})
    BY <1>1, <1>3, <2>1, RoundTyped, AddedKeeps
  <2>3. dec[p].avail \cup {q} \in SUBSET Proc
    BY <1>3 DEF Waiting, DecoderOK, Decoder
  <2>4. stage[p] = "R1" => \A r \in (dec[p].avail \cup {q}) \ faulty : first[r] # None
    BY <1>1, <2>1 DEF OpenInv, DecodersOK
  <2> QED BY <1>1, <1>2, <1>5, <2>2, <2>3, <2>4, GoOnKeeps
<1> QED BY <1>4, <1>5

LEMMA RobustUpdateKeeps ==
    ASSUME OpenInv, NEW p \in Honest, RobustUpdate(p)
    PROVE  OpenInv' /\ stage[p] # "idle" /\ stage[p] # "end" /\ UNCHANGED <<first, faulty, words>>
                    /\ (UNCHANGED opened \/ EndOK(p))
<1>1. /\ p \in Proc /\ stage[p] \in {"R1", "R2"} /\ dec[p].updating
      /\ UNCHANGED <<first, faulty, misled, words>>
  BY DEF Honest, RobustUpdate
<1>2. PICK c \in RobustDecode(dec[p], Len(dec[p].decoded) + 1) : GoOn(p, Updated(dec[p], c))
  BY DEF RobustUpdate
<1>3. Waiting(dec[p], Word(p), Wrong(p))
  BY <1>1 DEF OpenInv, DecodersOK, Waiting
<1>4. Outcome(Updated(dec[p], c), Word(p), Wrong(p), dec[p].avail)
  BY <1>1, <1>3, RoundTyped, UpdatedKeeps
<1>5. dec[p].avail \in SUBSET Proc
  BY <1>3 DEF Waiting, DecoderOK, Decoder
<1>6. stage[p] = "R1" => \A r \in dec[p].avail \ faulty : first[r] # None
  BY <1>1 DEF OpenInv, DecodersOK
<1> QED BY <1>1, <1>2, <1>4, <1>5, <1>6, GoOnKeeps

LEMMA StepKeeps == OpenInv /\ [OpenNext]_openVars => OpenInv'
<1> SUFFICES ASSUME OpenInv, [OpenNext]_openVars PROVE OpenInv'
  OBVIOUS
<1>1. ASSUME NEW p \in Honest, Call(p) PROVE OpenInv'
  BY <1>1, CallKeeps
<1>2. ASSUME NEW p \in Honest, RobustUpdate(p) PROVE OpenInv'
  BY <1>2, RobustUpdateKeeps
<1>3. ASSUME NEW p \in Honest, NEW q \in Proc, Recv(p, q) PROVE OpenInv'
  BY <1>3, RecvKeeps
<1>4. CASE UNCHANGED openVars
  <2> USE <1>4 DEF openVars
  <2>1. OpenTypeOK' /\ Cardinality(faulty' \cup misled') <= T
    BY DEF OpenInv, OpenTypeOK
  <2>2. MessagesOK'
    BY DEF OpenInv, MessagesOK, RightFirst, RightSecond
  <2>3. Callers' = Callers
    BY DEF Callers
  <2>4. StagesOK'
    BY <2>3 DEF OpenInv, StagesOK
  <2>5. DecodersOK'
    BY DEF OpenInv, DecodersOK, Word, Wrong
  <2> QED BY <2>1, <2>2, <2>4, <2>5 DEF OpenInv
<1> QED BY <1>1, <1>2, <1>3, <1>4 DEF OpenNext

\* The decoders of all parties hold right values only, but for the errors of the T that
\* may be wrong: what batch_reconstruct relies on from one message to the next.
THEOREM OpeningInvariant == OpenSpec => []OpenInv
<1>1. OpenInit => OpenInv
  BY OpenInvInit
<1>2. OpenInv /\ [OpenNext]_openVars => OpenInv'
  BY StepKeeps
<1> QED BY <1>1, <1>2, PTL DEF OpenSpec

-----------------------------------------------------------------------------
(* The refinement. *)

\* The instance brings in its own FiniteSets.
LEMMA SameCardinality == ASSUME NEW S PROVE Rec!Cardinality(S) = Cardinality(S)
  BY DEF Rec!Cardinality, Cardinality

\* The step of a call that goes on or ends is a stutter, a return or an exception.
LEMMA EndingStep ==
    ASSUME OpenInv, NEW p \in Honest, stage[p] # "idle", stage[p] # "end",
           UNCHANGED <<first, faulty, words>>, UNCHANGED opened \/ EndOK(p)
    PROVE  [Rec!Next]_(Rec!rvars)
<1>1. Callers' = Callers /\ (words.r2)' = words.r2
  BY DEF Callers
<1>2. CASE UNCHANGED opened
  BY <1>1, <1>2 DEF Rec!rvars, Callers
<1>3. CASE EndOK(p)
  <2>1. p \in Callers /\ opened[p] = None /\ p \in Proc
    BY DEF Honest, OpenInv, StagesOK, Callers
  <2>2. CASE opened'[p] = Raised /\ faulty # {}
    <3>1. Rec!Raise(p)
      BY <1>1, <1>3, <2>1, <2>2 DEF EndOK, Rec!Raise, Callers
    <3> QED BY <2>1, <3>1 DEF Rec!Next
  <2>3. CASE opened'[p] = words.r2 /\ Cardinality(Callers) > T
    <3>1. opened' = [opened EXCEPT ![p] = words.r2]
      BY <1>3, <2>3 DEF EndOK
    <3>2. Cardinality({r \in Proc : first[r] # None}) > T
      BY <2>3 DEF Callers
    <3>3. /\ p \in {r \in Proc : first[r] # None}
          /\ {r \in Proc : first'[r] # None} = {r \in Proc : first[r] # None}
      BY <2>1 DEF Callers
    <3>4. Rec!Return(p)
      BY <1>1, <2>1, <3>1, <3>2, <3>3, SameCardinality DEF Rec!Return
    <3> QED BY <2>1, <3>4 DEF Rec!Next
  <2> QED BY <1>3, <2>2, <2>3 DEF EndOK
<1> QED BY <1>2, <1>3

LEMMA CallingStep == ASSUME OpenInv, NEW p \in Honest, Call(p) PROVE Rec!Next
<1> PICK enc \in [Proc -> Message] : Begin(p, enc)
  BY DEF Call
<1>1. p \in Proc /\ p \notin faulty /\ enc # None
  BY OutcomeAssumption DEF Honest
<1>2. first[p] = None
  BY <1>1 DEF Begin, OpenInv, StagesOK
<1>3. Callers' = Callers \cup {p} /\ p \notin Callers
  BY <1>1, <1>2 DEF Begin, OpenInv, OpenTypeOK, Callers
<1>4. Rec!Call(p)
  BY <1>1, <1>3 DEF Begin, Rec!Call, Callers
<1> QED BY <1>1, <1>4 DEF Rec!Next

\* Every party that gets a result gets the secrets, after more than T parties have
\* called; no call returns None; and only faulty parties make calls raise.  For any
\* number of parties, and any lies in the two rounds of batch_reconstruct.
THEOREM OpeningImplements == OpenSpec => ImplementsReconstruction
<1>1. OpenInit => Rec!Init
  BY DEF OpenInit, OpenStart, Rec!Init
<1>2. OpenInv /\ [OpenNext]_openVars => [Rec!Next]_(Rec!rvars)
  <2> SUFFICES ASSUME OpenInv, [OpenNext]_openVars PROVE [Rec!Next]_(Rec!rvars)
    OBVIOUS
  <2>1. ASSUME NEW p \in Honest, Call(p) PROVE Rec!Next
    BY <2>1, CallingStep
  <2>2. ASSUME NEW p \in Honest, RobustUpdate(p) PROVE [Rec!Next]_(Rec!rvars)
    BY <2>2, RobustUpdateKeeps, EndingStep
  <2>3. ASSUME NEW p \in Honest, NEW q \in Proc, Recv(p, q) PROVE [Rec!Next]_(Rec!rvars)
    BY <2>3, RecvKeeps, EndingStep
  <2>4. CASE UNCHANGED openVars
    BY <2>4 DEF openVars, Rec!rvars
  <2> QED BY <2>1, <2>2, <2>3, <2>4 DEF OpenNext
<1> QED BY <1>1, <1>2, OpeningInvariant, PTL DEF OpenSpec, ImplementsReconstruction, Rec!Spec


-----------------------------------------------------------------------------
(* Numbers modulo the prime. *)

LEMMA ModulusSize == Modulus \in Nat /\ Modulus > 1 /\ Value = 0 .. Modulus - 1
  BY InputAssumption

\* The remainder is the one number below the modulus that differs by a multiple.
LEMMA ModType == ASSUME NEW x \in Int PROVE x % Modulus \in Value
  BY ModulusSize

LEMMA ModSmall == ASSUME NEW x \in Value PROVE x % Modulus = x /\ x \in Int
  BY ModulusSize

LEMMA ModUnique ==
    ASSUME NEW x \in Int, NEW k \in Int, NEW r \in Value, x = Modulus * k + r
    PROVE  x % Modulus = r
  BY ModulusSize

\* Remainders are equal just if the numbers differ by a multiple.
LEMMA ModEqual ==
    ASSUME NEW x \in Int, NEW y \in Int
    PROVE  x % Modulus = y % Modulus <=> \E k \in Int : x = y + Modulus * k
<1> DEFINE a == x \div Modulus
           b == y \div Modulus
           r == y % Modulus
<1>1. /\ a \in Int /\ x = Modulus * a + (x % Modulus)
      /\ b \in Int /\ r \in Value /\ y = Modulus * b + r
  BY ModulusSize
<1> HIDE DEF a, b
<1>2. ASSUME NEW k \in Int, x = y + Modulus * k PROVE x % Modulus = r
  <2>1. x = Modulus * (b + k) + r /\ b + k \in Int
    BY <1>1, <1>2, ModulusSize
  <2> HIDE DEF r
  <2> QED BY <1>1, <2>1, ModUnique
<1>3. ASSUME x % Modulus = r PROVE \E k \in Int : x = y + Modulus * k
  <2>1. x = y + Modulus * (a - b) /\ a - b \in Int
    BY <1>1, <1>3, ModulusSize
  <2> QED BY <2>1
<1> QED BY <1>2, <1>3

\* Equal remainders have equal sums and products.
LEMMA ModPlus ==
    ASSUME NEW x \in Int, NEW y \in Int, NEW u \in Int, NEW v \in Int,
           x % Modulus = u % Modulus, y % Modulus = v % Modulus
    PROVE  (x + y) % Modulus = (u + v) % Modulus
<1>1. PICK k \in Int : x = u + Modulus * k
  BY ModEqual
<1>2. PICK l \in Int : y = v + Modulus * l
  BY ModEqual
<1>3. x + y = (u + v) + Modulus * (k + l)
  BY <1>1, <1>2, ModulusSize
<1> QED BY <1>3, ModEqual

LEMMA ModTimes ==
    ASSUME NEW x \in Int, NEW y \in Int, NEW u \in Int, NEW v \in Int,
           x % Modulus = u % Modulus, y % Modulus = v % Modulus
    PROVE  (x * y) % Modulus = (u * v) % Modulus
<1>1. PICK k \in Int : x = u + Modulus * k
  BY ModEqual
<1>2. PICK l \in Int : y = v + Modulus * l
  BY ModEqual
<1>3. /\ x * y = (u * v) + Modulus * (k * v + l * u + Modulus * k * l)
      /\ k * v + l * u + Modulus * k * l \in Int
  BY <1>1, <1>2, ModulusSize
<1> QED BY <1>3, ModEqual

LEMMA ModAdd ==
    ASSUME NEW x \in Int, NEW y \in Int, NEW v \in Int, y % Modulus = v % Modulus
    PROVE  (x + y) % Modulus = (x + v) % Modulus
<1>1. PICK k \in Int : y = v + Modulus * k
  BY ModEqual
<1>2. /\ x + y = (x + v) + Modulus * k
      /\ x + y \in Int /\ x + v \in Int
  BY <1>1, ModulusSize
<1> QED BY <1>2, ModEqual

LEMMA ModMod == ASSUME NEW x \in Int PROVE (x % Modulus) % Modulus = x % Modulus /\ x % Modulus \in Int
  BY ModType, ModSmall

-----------------------------------------------------------------------------
(* Functions by recursion over numbers. *)

\* The order of the natural numbers is well-founded.
LEMMA NatLessWF == IsWellFoundedOn({ss \in Nat \X Nat : ss[1] < ss[2]}, Nat)
  BY NatLessThanWellFounded DEF OpToRel

\* Induction, for the set of the numbers that have a property.
LEMMA Induction ==
    ASSUME NEW S, 0 \in S, \A n \in Nat : n \in S => n + 1 \in S
    PROVE  Nat \subseteq S
<1> DEFINE Less == {ss \in Nat \X Nat : ss[1] < ss[2]}
           Rest == Nat \ S
<1> SUFFICES ASSUME Rest # {} PROVE FALSE
  OBVIOUS
<1>1. PICK m \in Rest : \A x \in Rest : ~(<<x, m>> \in Less)
  <2>1. IsWellFoundedOn(Less, Nat) /\ Rest \subseteq Nat
    BY NatLessWF
  <2> HIDE DEF Less, Rest
  <2> QED BY <2>1, WFMin
<1>2. m \in Nat /\ m # 0 /\ m - 1 \in Nat /\ (m - 1) + 1 = m
  OBVIOUS
<1>3. <<m - 1, m>> \in Less
  BY <1>2
<1>4. m - 1 \in S
  BY <1>1, <1>2, <1>3
<1> QED BY <1>2, <1>4

\* A first value and a step from each value to the next one define a function.
Runs(f, n, a, step) == f[0] = a /\ \A k \in 0 .. n - 1 : f[k + 1] = step[<<k, f[k]>>]

LEMMA Recursion ==
    ASSUME NEW V, NEW a \in V, NEW step \in [Nat \X V -> V], NEW n \in Nat
    PROVE  \E f \in [0 .. n -> V] : Runs(f, n, a, step)
<1> DEFINE S == {m \in Nat : \E f \in [0 .. m -> V] : Runs(f, m, a, step)}
<1>1. 0 \in S
  <2>1. [k \in 0 .. 0 |-> a] \in [0 .. 0 -> V] /\ Runs([k \in 0 .. 0 |-> a], 0, a, step)
    BY DEF Runs
  <2> QED BY <2>1
<1>2. ASSUME NEW m \in Nat, m \in S PROVE m + 1 \in S
  <2>1. PICK f \in [0 .. m -> V] : Runs(f, m, a, step)
    BY <1>2
  <2> DEFINE g == [k \in 0 .. m + 1 |-> IF k <= m THEN f[k] ELSE step[<<m, f[m]>>]]
  <2>2. m \in 0 .. m /\ f[m] \in V /\ step[<<m, f[m]>>] \in V
    OBVIOUS
  <2>3. g \in [0 .. m + 1 -> V]
    BY <2>2
  <2>4. g[0] = a
    BY <2>1 DEF Runs
  <2>5. ASSUME NEW k \in 0 .. (m + 1) - 1 PROVE g[k + 1] = step[<<k, g[k]>>]
    <3>1. CASE k = m
      BY <3>1, SMTT(30)
    <3>2. CASE k # m
      <4>1. k \in 0 .. m - 1 /\ k + 1 \in 0 .. m /\ k \in 0 .. m
        BY <3>2
      <4>2. f[k + 1] = step[<<k, f[k]>>]
        BY <4>1, <2>1 DEF Runs
      <4>3. g[k + 1] = f[k + 1] /\ g[k] = f[k]
        BY <4>1
      <4> QED BY <4>2, <4>3
    <3> QED BY <3>1, <3>2
  <2>6. Runs(g, m + 1, a, step)
    BY <2>4, <2>5 DEF Runs
  <2> HIDE DEF g
  <2> QED BY <2>3, <2>6
<1> HIDE DEF S
<1>3. n \in S
  BY <1>1, <1>2, Induction
<1> QED BY <1>3 DEF S

-----------------------------------------------------------------------------
(* The recursive functions of FieldPoly. *)

LEMMA Vectors ==
    ASSUME NEW X, NEW n \in Nat, NEW s \in [1 .. n -> X]
    PROVE  s \in Seq(X) /\ Len(s) = n /\ DOMAIN s = 1 .. n
  OBVIOUS

\* Vec leaves the elements of a vector as they are.
LEMMA VecIs == ASSUME NEW X, NEW n \in Nat, NEW s \in [1 .. n -> X] PROVE Vec(s) = s
  BY Vectors DEF Vec

\* The first j elements.
LEMMA PrefixIs ==
    ASSUME NEW X, NEW n \in Nat, NEW s \in [1 .. n -> X], NEW j \in 0 .. n
    PROVE  SubSeq(s, 1, j) \in [1 .. j -> X] /\ \A k \in 1 .. j : SubSeq(s, 1, j)[k] = s[k]
<1>1. s \in Seq(X) /\ Len(s) = n
  BY Vectors
<1>2. SubSeq(s, 1, j) = [k \in 1 .. j |-> s[k]]
  BY <1>1
<1>3. \A k \in 1 .. j : s[k] \in X
  OBVIOUS
<1> QED BY <1>2, <1>3

\* The partial sums of s.
IsSum(S, s, n) == S[0] = 0 /\ \A k \in 1 .. n : S[k] = (S[k - 1] + s[k]) % Modulus

LEMMA SumExists ==
    ASSUME NEW n \in Nat, NEW s \in [1 .. n -> Int]
    PROVE  \E S \in [0 .. n -> Value] : IsSum(S, s, n)
<1> DEFINE step == [x \in Nat \X Value |->
                       IF x[1] + 1 \in 1 .. n THEN (x[2] + s[x[1] + 1]) % Modulus ELSE 0]
<1>1. 0 \in Value
  BY ModulusSize
<1>2. step \in [Nat \X Value -> Value]
  <2>1. ASSUME NEW x \in Nat \X Value, x[1] + 1 \in 1 .. n PROVE (x[2] + s[x[1] + 1]) % Modulus \in Value
    <3>1. s[x[1] + 1] \in Int /\ x[2] \in Int
      BY <2>1, ModulusSize
    <3> QED BY <3>1, ModType
  <2> QED BY <2>1, <1>1
<1>3. \A k \in 0 .. n - 1, v \in Value : step[<<k, v>>] = (v + s[k + 1]) % Modulus
  OBVIOUS
<1> HIDE DEF step
<1>4. PICK S \in [0 .. n -> Value] : Runs(S, n, 0, step)
  BY <1>1, <1>2, Recursion
<1>5. ASSUME NEW k \in 1 .. n PROVE S[k] = (S[k - 1] + s[k]) % Modulus
  <2>1. k - 1 \in 0 .. n - 1 /\ (k - 1) + 1 = k /\ k - 1 \in 0 .. n
    OBVIOUS
  <2>2. S[(k - 1) + 1] = step[<<k - 1, S[k - 1]>>] /\ S[k - 1] \in Value
    BY <1>4, <2>1 DEF Runs
  <2> QED BY <2>1, <2>2, <1>3
<1> QED BY <1>4, <1>5 DEF Runs, IsSum

\* SumUp adds up modulo the prime.
LEMMA SumUpIs ==
    ASSUME NEW n \in Nat, NEW s \in [1 .. n -> Int],
           NEW S \in [0 .. n -> Value], IsSum(S, s, n)
    PROVE  SumUp(s, Modulus) = S[n] /\ SumUp(s, Modulus) \in Value
<1> DEFINE Eq(f) == f = [k \in 0 .. Len(s) |-> IF k = 0 THEN 0 ELSE (f[k - 1] + s[k]) % Modulus]
           F == CHOOSE f : Eq(f)
<1>1. Len(s) = n
  BY Vectors
<1>2. SumUp(s, Modulus) = F[n]
  BY <1>1 DEF SumUp
<1>3. Eq(S)
  BY <1>1 DEF IsSum
<1>4. Eq(F)
  <2> HIDE DEF Eq
  <2> QED BY <1>3
<1>5. F[0] = 0 /\ \A k \in 1 .. n : F[k] = (F[k - 1] + s[k]) % Modulus
  <2> HIDE DEF F
  <2> QED BY <1>1, <1>4
<1> HIDE DEF F
<1> DEFINE Agree == {k \in Nat : k <= n => F[k] = S[k]}
<1>6. 0 \in Agree
  BY <1>5 DEF IsSum
<1>7. ASSUME NEW k \in Nat, k \in Agree PROVE k + 1 \in Agree
  <2> SUFFICES ASSUME k + 1 <= n PROVE F[k + 1] = S[k + 1]
    OBVIOUS
  <2>1. k + 1 \in 1 .. n /\ (k + 1) - 1 = k /\ F[k] = S[k]
    BY <1>7
  <2> QED BY <2>1, <1>5 DEF IsSum
<1> HIDE DEF Agree
<1>8. n \in Agree
  BY <1>6, <1>7, Induction
<1>9. F[n] = S[n]
  BY <1>8 DEF Agree
<1> QED BY <1>2, <1>9

LEMMA SumUpType == ASSUME NEW n \in Nat, NEW s \in [1 .. n -> Int] PROVE SumUp(s, Modulus) \in Value
  BY SumExists, SumUpIs

\* SumUp of the first j elements is the j-th partial sum.
LEMMA SumUpPrefix ==
    ASSUME NEW n \in Nat, NEW s \in [1 .. n -> Int],
           NEW S \in [0 .. n -> Value], IsSum(S, s, n), NEW j \in 0 .. n
    PROVE  SumUp(SubSeq(s, 1, j), Modulus) = S[j]
<1> DEFINE u == SubSeq(s, 1, j)
           U == [k \in 0 .. j |-> S[k]]
<1>1. u \in [1 .. j -> Int] /\ \A k \in 1 .. j : u[k] = s[k]
  BY Vectors, SMTT(60)
<1>2. U \in [0 .. j -> Value] /\ j \in Nat
  OBVIOUS
<1>3. IsSum(U, u, j)
  <2>1. U[0] = 0
    BY DEF IsSum
  <2>2. ASSUME NEW k \in 1 .. j PROVE U[k] = (U[k - 1] + u[k]) % Modulus
    <3>1. k \in 1 .. n /\ k \in 0 .. j /\ k - 1 \in 0 .. j
      OBVIOUS
    <3>2. S[k] = (S[k - 1] + s[k]) % Modulus
      BY <3>1 DEF IsSum
    <3>3. U[k] = S[k] /\ U[k - 1] = S[k - 1] /\ u[k] = s[k]
      BY <3>1, <1>1
    <3> QED BY <3>2, <3>3
  <2> QED BY <2>1, <2>2 DEF IsSum
<1>4. U[j] = S[j]
  OBVIOUS
<1> HIDE DEF u, U
<1>5. SumUp(u, Modulus) = U[j]
  BY <1>1, <1>2, <1>3, SumUpIs
<1> QED BY <1>4, <1>5 DEF u

\* The values of Horner's rule, from the highest coefficient down.
IsHorner(E, f, n, x) == E[0] = 0 /\ \A k \in 1 .. n : E[k] = (f[n + 1 - k] + x * E[k - 1]) % Modulus

LEMMA HornerExists ==
    ASSUME NEW n \in Nat, NEW f \in [1 .. n -> Int], NEW x \in Int
    PROVE  \E E \in [0 .. n -> Value] : IsHorner(E, f, n, x)
<1> DEFINE step == [y \in Nat \X Value |->
                       IF y[1] + 1 \in 1 .. n THEN (f[n + 1 - (y[1] + 1)] + x * y[2]) % Modulus ELSE 0]
<1>1. 0 \in Value
  BY ModulusSize
<1>2. step \in [Nat \X Value -> Value]
  <2>1. ASSUME NEW y \in Nat \X Value, y[1] + 1 \in 1 .. n
        PROVE  (f[n + 1 - (y[1] + 1)] + x * y[2]) % Modulus \in Value
    <3>1. f[n + 1 - (y[1] + 1)] \in Int /\ x * y[2] \in Int
      BY <2>1, ModulusSize, SMTT(60)
    <3> QED BY <3>1, ModType
  <2> QED BY <2>1, <1>1
<1>3. \A k \in 0 .. n - 1, v \in Value : step[<<k, v>>] = (f[n + 1 - (k + 1)] + x * v) % Modulus
  BY SMTT(60)
<1> HIDE DEF step
<1>4. PICK E \in [0 .. n -> Value] : Runs(E, n, 0, step)
  BY <1>1, <1>2, Recursion
<1>5. ASSUME NEW k \in 1 .. n PROVE E[k] = (f[n + 1 - k] + x * E[k - 1]) % Modulus
  <2>1. k - 1 \in 0 .. n - 1 /\ (k - 1) + 1 = k /\ k - 1 \in 0 .. n
    OBVIOUS
  <2>2. E[(k - 1) + 1] = step[<<k - 1, E[k - 1]>>] /\ E[k - 1] \in Value
    BY <1>4, <2>1 DEF Runs
  <2>3. step[<<k - 1, E[k - 1]>>] = (f[n + 1 - ((k - 1) + 1)] + x * E[k - 1]) % Modulus
    BY <2>1, <2>2, <1>3
  <2> QED BY <2>1, <2>2, <2>3
<1> QED BY <1>4, <1>5 DEF Runs, IsHorner

\* PolyEval computes by Horner's rule.
LEMMA PolyEvalIs ==
    ASSUME NEW n \in Nat, NEW f \in [1 .. n -> Int], NEW x \in Int,
           NEW E \in [0 .. n -> Value], IsHorner(E, f, n, x)
    PROVE  PolyEval(f, x, Modulus) = E[n] /\ PolyEval(f, x, Modulus) \in Value
<1> DEFINE Eq(g) == g = [k \in 0 .. Len(f) |->
                           IF k = 0 THEN 0 ELSE (f[Len(f) + 1 - k] + x * g[k - 1]) % Modulus]
           G == CHOOSE g : Eq(g)
<1>1. Len(f) = n
  BY Vectors
<1>2. PolyEval(f, x, Modulus) = G[n]
  BY <1>1 DEF PolyEval
<1>3. Eq(E)
  BY <1>1 DEF IsHorner
<1>4. Eq(G)
  <2> HIDE DEF Eq
  <2> QED BY <1>3
<1>5. G[0] = 0 /\ \A k \in 1 .. n : G[k] = (f[n + 1 - k] + x * G[k - 1]) % Modulus
  <2> HIDE DEF G
  <2> QED BY <1>1, <1>4
<1> HIDE DEF G
<1> DEFINE Agree == {k \in Nat : k <= n => G[k] = E[k]}
<1>6. 0 \in Agree
  BY <1>5 DEF IsHorner
<1>7. ASSUME NEW k \in Nat, k \in Agree PROVE k + 1 \in Agree
  <2> SUFFICES ASSUME k + 1 <= n PROVE G[k + 1] = E[k + 1]
    OBVIOUS
  <2>1. k + 1 \in 1 .. n /\ (k + 1) - 1 = k /\ G[k] = E[k]
    BY <1>7
  <2> QED BY <2>1, <1>5 DEF IsHorner
<1> HIDE DEF Agree
<1>8. n \in Agree
  BY <1>6, <1>7, Induction
<1>9. G[n] = E[n]
  BY <1>8 DEF Agree
<1> QED BY <1>2, <1>9

LEMMA PolyEvalType ==
    ASSUME NEW n \in Nat, NEW f \in [1 .. n -> Int], NEW x \in Int
    PROVE  PolyEval(f, x, Modulus) \in Value
  BY HornerExists, PolyEvalIs

-----------------------------------------------------------------------------
\* The powers of a.
IsPowers(L, a, n) == L[0] = 1 /\ \A k \in 1 .. n : L[k] = (L[k - 1] * a) % Modulus

LEMMA PowersExist ==
    ASSUME NEW n \in Nat, NEW a \in Int
    PROVE  \E L \in [0 .. n -> Value] : IsPowers(L, a, n)
<1> DEFINE step == [y \in Nat \X Value |-> (y[2] * a) % Modulus]
<1>1. 1 \in Value
  BY ModulusSize
<1>2. step \in [Nat \X Value -> Value]
  <2>1. ASSUME NEW y \in Nat \X Value PROVE (y[2] * a) % Modulus \in Value
    <3>1. y[2] * a \in Int
      BY ModulusSize
    <3> QED BY <3>1, ModType
  <2> QED BY <2>1
<1>3. \A k \in Nat, v \in Value : step[<<k, v>>] = (v * a) % Modulus
  OBVIOUS
<1> HIDE DEF step
<1>4. PICK L \in [0 .. n -> Value] : Runs(L, n, 1, step)
  BY <1>1, <1>2, Recursion
<1>5. ASSUME NEW k \in 1 .. n PROVE L[k] = (L[k - 1] * a) % Modulus
  <2>1. k - 1 \in 0 .. n - 1 /\ (k - 1) + 1 = k /\ k - 1 \in 0 .. n /\ k - 1 \in Nat
    OBVIOUS
  <2>2. L[(k - 1) + 1] = step[<<k - 1, L[k - 1]>>] /\ L[k - 1] \in Value
    BY <1>4, <2>1 DEF Runs
  <2> QED BY <2>1, <2>2, <1>3
<1> QED BY <1>4, <1>5 DEF Runs, IsPowers

\* The exponents add up.
LEMMA PowersAdd ==
    ASSUME NEW n \in Nat, NEW a \in Int, NEW L \in [0 .. n -> Value], IsPowers(L, a, n),
           NEW i \in Nat, NEW j \in Nat, i + j <= n
    PROVE  L[i + j] = (L[i] * L[j]) % Modulus
<1> DEFINE S == {k \in Nat : i + k <= n => L[i + k] = (L[i] * L[k]) % Modulus}
<1>1. 0 \in S
  <2>1. i \in 0 .. n /\ i + 0 = i /\ L[i] \in Value /\ L[0] = 1
    BY DEF IsPowers
  <2>2. L[i] * L[0] = L[i]
    BY <2>1, ModulusSize
  <2> QED BY <2>1, <2>2, ModSmall
<1>2. ASSUME NEW k \in Nat, k \in S PROVE k + 1 \in S
  <2> SUFFICES ASSUME i + (k + 1) <= n PROVE L[i + (k + 1)] = (L[i] * L[k + 1]) % Modulus
    OBVIOUS
  <2>1. /\ i + k + 1 \in 1 .. n /\ k + 1 \in 1 .. n /\ (i + k + 1) - 1 = i + k /\ (k + 1) - 1 = k
        /\ i + (k + 1) = i + k + 1
    OBVIOUS
  <2>2. L[i] \in Int /\ L[k] \in Int /\ L[i + k] \in Int /\ L[k + 1] \in Int
    <3>1. i \in 0 .. n /\ k \in 0 .. n /\ k + 1 \in 0 .. n /\ i + k \in 0 .. n
      BY <2>1
    <3>2. \A v \in Value : v \in Int
      BY ModulusSize
    <3> QED BY <3>1, <3>2
  <2>3. L[i + k + 1] = (L[i + k] * a) % Modulus /\ L[k + 1] = (L[k] * a) % Modulus
    BY <2>1 DEF IsPowers
  <2>4. L[i + k] = (L[i] * L[k]) % Modulus
    BY <1>2
  <2>5. L[i + k] % Modulus = (L[i] * L[k]) % Modulus
    BY <2>2, <2>4, ModMod
  <2>6. (L[i + k] * a) % Modulus = ((L[i] * L[k]) * a) % Modulus
    BY <2>2, <2>5, ModTimes
  <2>7. L[k + 1] % Modulus = (L[k] * a) % Modulus
    BY <2>2, <2>3, ModMod
  <2>8. (L[i] * L[k + 1]) % Modulus = (L[i] * (L[k] * a)) % Modulus
    BY <2>2, <2>7, ModTimes
  <2>9. (L[i] * L[k]) * a = L[i] * (L[k] * a)
    BY <2>2
  <2> QED BY <2>1, <2>3, <2>6, <2>8, <2>9
<1> HIDE DEF S
<1>3. j \in S
  BY <1>1, <1>2, Induction
<1> QED BY <1>3 DEF S

\* Repeated squaring computes the powers.
LEMMA PowIs ==
    ASSUME NEW n \in Nat, NEW a \in Int, NEW L \in [0 .. n -> Value], IsPowers(L, a, n),
           NEW e \in 0 .. n
    PROVE  Pow(a, e, Modulus) = L[e]
<1> DEFINE Eq(g) == g = [k \in 0 .. e |->
                           IF k = 0 THEN 1 % Modulus
                           ELSE LET h == g[k \div 2]
                                IN  (IF k % 2 = 0 THEN h * h ELSE (h * h % Modulus) * a) % Modulus]
           G == CHOOSE g : Eq(g)
           J == [k \in 0 .. e |-> L[k]]
<1>1. Pow(a, e, Modulus) = G[e]
  BY DEF Pow
<1>2. 1 % Modulus = 1
  BY ModulusSize
<1>3. ASSUME NEW k \in 1 .. e
      PROVE  L[k] = LET h == L[k \div 2]
                    IN  (IF k % 2 = 0 THEN h * h ELSE (h * h % Modulus) * a) % Modulus
  <2> DEFINE d == k \div 2
  <2>1. d \in Nat /\ (k % 2 = 0 => k = d + d) /\ (k % 2 # 0 => k = (d + d) + 1) /\ d + d <= n
    OBVIOUS
  <2> HIDE DEF d
  <2>2. L[d + d] = (L[d] * L[d]) % Modulus
    BY <2>1, PowersAdd
  <2>3. k % 2 # 0 => L[k] = (L[d + d] * a) % Modulus
    <3> SUFFICES ASSUME k % 2 # 0 PROVE L[k] = (L[d + d] * a) % Modulus
      OBVIOUS
    <3>1. k \in 1 .. n /\ k - 1 = d + d
      BY <2>1
    <3> QED BY <3>1 DEF IsPowers
  <2>4. L[k] = (IF k % 2 = 0 THEN L[d] * L[d] ELSE (L[d] * L[d] % Modulus) * a) % Modulus
    BY <2>1, <2>2, <2>3
  <2> QED BY <2>4 DEF d
<1>4. Eq(J)
  <2>1. \A k \in 0 .. e : k # 0 => k \in 1 .. e /\ k \div 2 \in 0 .. e
    OBVIOUS
  <2>2. \A k \in 0 .. e : J[k] = IF k = 0 THEN 1 % Modulus
                                 ELSE LET h == J[k \div 2]
                                      IN  (IF k % 2 = 0 THEN h * h ELSE (h * h % Modulus) * a) % Modulus
    BY <2>1, <1>2, <1>3 DEF IsPowers
  <2> QED BY <2>2
<1>5. Eq(G)
  <2> HIDE DEF Eq, J
  <2> QED BY <1>4
<1>6. \A k \in 0 .. e : G[k] = IF k = 0 THEN 1 % Modulus
                               ELSE LET h == G[k \div 2]
                                    IN  (IF k % 2 = 0 THEN h * h ELSE (h * h % Modulus) * a) % Modulus
  <2> HIDE DEF G
  <2> QED BY <1>5, Zenon
<1> HIDE DEF G, J, Eq
<1> DEFINE S == {k \in Nat : \A i \in 0 .. k : i <= e => G[i] = L[i]}
<1>7. 0 \in S
  BY <1>2, <1>6 DEF IsPowers
<1>8. ASSUME NEW k \in Nat, k \in S PROVE k + 1 \in S
  <2> SUFFICES ASSUME k + 1 <= e PROVE G[k + 1] = L[k + 1]
    BY <1>8
  <2>1. k + 1 \in 1 .. e /\ k + 1 \in 0 .. e /\ (k + 1) \div 2 \in 0 .. k /\ k + 1 # 0 /\ (k + 1) \div 2 <= e
    OBVIOUS
  <2>2. G[(k + 1) \div 2] = L[(k + 1) \div 2]
    BY <1>8, <2>1
  <2> QED BY <2>1, <2>2, <1>3, <1>6
<1> HIDE DEF S
<1>9. e \in S
  BY <1>7, <1>8, Induction
<1> QED BY <1>1, <1>9 DEF S

LEMMA PowType == ASSUME NEW e \in Nat, NEW a \in Int PROVE Pow(a, e, Modulus) \in Value
<1>1. PICK L \in [0 .. e -> Value] : IsPowers(L, a, e)
  BY PowersExist
<1>2. e \in 0 .. e /\ L[e] \in Value
  OBVIOUS
<1>3. Pow(a, e, Modulus) = L[e]
  BY <1>1, <1>2, PowIs
<1> QED BY <1>2, <1>3

-----------------------------------------------------------------------------
(* The word w consists of shares of the secret s. *)

SharedAs(w, s) == w \in Code /\ AtZero[w] = s

LEMMA SharedType ==
    ASSUME NEW w, NEW s, SharedAs(w, s)
    PROVE  w \in [Proc -> Value] /\ s \in Value /\ s \in Int /\ \A q \in Proc : w[q] \in Value /\ w[q] \in Int
<1>1. w \in [Proc -> Value] /\ s \in Value
  BY CodeAssumption DEF SharedAs
<1>2. \A v \in Value : v \in Int
  BY ModulusSize
<1> QED BY <1>1, <1>2

LEMMA PointType == ASSUME NEW q \in Proc PROVE Point(q) \in Int /\ q \in Int
<1>1. N \in Nat
  BY FS_CardinalityType, PartiesAssumption DEF N
<1> QED BY <1>1, NodesAssumption DEF Point

\* The values of a polynomial share its lowest coefficient.
LEMMA PolynomialShared ==
    ASSUME NEW f \in Polynomials PROVE SharedAs(WordOf(f), f[1])
  BY PolynomialAssumption DEF SharedAs

\* Evaluation is linear.
LEMMA PolyLinear ==
    ASSUME NEW n \in Nat, NEW f \in [1 .. n -> Int], NEW g \in [1 .. n -> Int], NEW u \in Int, NEW x \in Int,
           NEW h \in [1 .. n -> Int], \A i \in 1 .. n : h[i] = (f[i] + u * g[i]) % Modulus
    PROVE  PolyEval(h, x, Modulus) = (PolyEval(f, x, Modulus) + u * PolyEval(g, x, Modulus)) % Modulus
<1>1. PICK F \in [0 .. n -> Value] : IsHorner(F, f, n, x)
  BY HornerExists
<1>2. PICK G \in [0 .. n -> Value] : IsHorner(G, g, n, x)
  BY HornerExists
<1>3. PICK H \in [0 .. n -> Value] : IsHorner(H, h, n, x)
  BY HornerExists
<1>4. \A k \in 0 .. n : F[k] \in Int /\ G[k] \in Int /\ H[k] \in Int
  BY ModulusSize
<1> DEFINE S == {k \in Nat : k <= n => H[k] = (F[k] + u * G[k]) % Modulus}
<1>5. 0 \in S
  <2>1. F[0] = 0 /\ G[0] = 0 /\ H[0] = 0
    BY <1>1, <1>2, <1>3 DEF IsHorner
  <2>2. 0 % Modulus = 0 /\ 0 + u * 0 = 0
    BY ModulusSize
  <2> QED BY <2>1, <2>2
<1>6. ASSUME NEW k \in Nat, k \in S PROVE k + 1 \in S
  <2> SUFFICES ASSUME k + 1 <= n PROVE H[k + 1] = (F[k + 1] + u * G[k + 1]) % Modulus
    OBVIOUS
  <2> DEFINE i == n + 1 - (k + 1)
  <2>1. k + 1 \in 1 .. n /\ (k + 1) - 1 = k /\ k \in 0 .. n /\ k + 1 \in 0 .. n /\ i \in 1 .. n
    OBVIOUS
  <2>2. /\ F[k + 1] = (f[i] + x * F[k]) % Modulus
        /\ G[k + 1] = (g[i] + x * G[k]) % Modulus
        /\ H[k + 1] = (h[i] + x * H[k]) % Modulus
    BY <1>1, <1>2, <1>3, <2>1 DEF IsHorner
  <2>3. h[i] = (f[i] + u * g[i]) % Modulus /\ H[k] = (F[k] + u * G[k]) % Modulus
    BY <1>6, <2>1
  <2> DEFINE fi == f[i]  gi == g[i]  hi == h[i]  Fk == F[k]  Gk == G[k]  Hk == H[k]
  <2>4. fi \in Int /\ gi \in Int /\ hi \in Int /\ Fk \in Int /\ Gk \in Int /\ Hk \in Int
    BY <1>4, <2>1
  <2>5. F[k + 1] \in Int /\ G[k + 1] \in Int
    BY <1>4, <2>1
  <2>6. F[k + 1] = (fi + x * Fk) % Modulus /\ G[k + 1] = (gi + x * Gk) % Modulus
    BY <2>2
  <2> HIDE DEF i, fi, gi, hi, Fk, Gk, Hk
  <2>7. /\ fi + u * gi \in Int /\ Fk + u * Gk \in Int
        /\ fi + x * Fk \in Int /\ gi + x * Gk \in Int
        /\ x * Hk \in Int /\ x * (Fk + u * Gk) \in Int
    BY <2>4
  <2>8. (hi + x * Hk) % Modulus = ((fi + u * gi) + x * (Fk + u * Gk)) % Modulus
    <3>1. hi % Modulus = (fi + u * gi) % Modulus
      BY <2>3, <2>4, ModMod, SMTT(60) DEF fi, gi, hi
    <3>2. Hk % Modulus = (Fk + u * Gk) % Modulus
      BY <2>3, <2>4, ModMod DEF Fk, Gk, Hk
    <3>3. (x * Hk) % Modulus = (x * (Fk + u * Gk)) % Modulus
      <4> DEFINE v == Fk + u * Gk
      <4>1. v \in Int /\ Hk % Modulus = v % Modulus
        BY <2>7, <3>2
      <4> HIDE DEF v
      <4>2. PICK j \in Int : Hk = v + Modulus * j
        BY <2>4, <4>1, ModEqual
      <4> DEFINE y == x * Hk  z == x * v  e == x * j
      <4>3. y \in Int /\ z \in Int /\ e \in Int /\ y = z + Modulus * e
        BY <2>4, <4>1, <4>2, ModulusSize
      <4> HIDE DEF y, z, e
      <4>4. y % Modulus = z % Modulus
        BY <4>3, ModEqual
      <4> QED BY <4>4 DEF v, y, z
    <3> QED BY <2>4, <2>7, <3>1, <3>3, ModPlus
  <2>9. (F[k + 1] + u * G[k + 1]) % Modulus = ((fi + x * Fk) + u * (gi + x * Gk)) % Modulus
    <3>1. F[k + 1] % Modulus = (fi + x * Fk) % Modulus
      BY <2>6, <2>7, ModMod
    <3>2. G[k + 1] % Modulus = (gi + x * Gk) % Modulus
      BY <2>6, <2>7, ModMod
    <3>3. (u * G[k + 1]) % Modulus = (u * (gi + x * Gk)) % Modulus
      BY <2>4, <2>5, <3>2, ModTimes
    <3> QED BY <2>4, <2>5, <3>1, <3>3, ModPlus
  <2>10. (fi + u * gi) + x * (Fk + u * Gk) = (fi + x * Fk) + u * (gi + x * Gk)
    BY <2>4
  <2> QED BY <2>2, <2>8, <2>9, <2>10 DEF hi, Hk
<1> HIDE DEF S
<1>7. n \in S
  BY <1>5, <1>6, Induction
<1>8. H[n] = (F[n] + u * G[n]) % Modulus
  BY <1>7 DEF S
<1> QED BY <1>1, <1>2, <1>3, <1>8, PolyEvalIs

\* A combination of shares shares the combination of the secrets.
LEMMA Combine ==
    ASSUME NEW c, NEW s, SharedAs(c, s), NEW d, NEW t, SharedAs(d, t), NEW u \in Int,
           NEW w \in [Proc -> Value], \A q \in Proc : w[q] = (c[q] + u * d[q]) % Modulus
    PROVE  SharedAs(w, (s + u * t) % Modulus)
<1>1. PICK f \in Polynomials : c = WordOf(f)
  BY PolynomialAssumption DEF SharedAs
<1>2. PICK g \in Polynomials : d = WordOf(g)
  BY PolynomialAssumption DEF SharedAs
<1> DEFINE h == [i \in 1 .. T + 1 |-> (f[i] + u * g[i]) % Modulus]
<1>3. f \in [1 .. T + 1 -> Int] /\ g \in [1 .. T + 1 -> Int] /\ T + 1 \in Nat
  BY ModulusSize, PartiesAssumption DEF Polynomials, Degree
<1>4. h \in Polynomials /\ h \in [1 .. T + 1 -> Int]
  <2>1. ASSUME NEW i \in 1 .. T + 1 PROVE (f[i] + u * g[i]) % Modulus \in Value
    BY <1>3, ModType
  <2>2. \A v \in Value : v \in Int
    BY ModulusSize
  <2> QED BY <2>1, <2>2 DEF Polynomials, Degree
<1>5. \A i \in 1 .. T + 1 : h[i] = (f[i] + u * g[i]) % Modulus
  OBVIOUS
<1> HIDE DEF h
<1>6. ASSUME NEW q \in Proc PROVE w[q] = WordOf(h)[q]
  <2> DEFINE x == Point(q)
             n == T + 1
  <2>1. x \in Int
    BY PointType
  <2> HIDE DEF x
  <2>2. /\ n \in Nat /\ f \in [1 .. n -> Int] /\ g \in [1 .. n -> Int] /\ h \in [1 .. n -> Int]
        /\ \A i \in 1 .. n : h[i] = (f[i] + u * g[i]) % Modulus
    BY <1>3, <1>4, <1>5
  <2> HIDE DEF n
  <2>3. PolyEval(h, x, Modulus) = (PolyEval(f, x, Modulus) + u * PolyEval(g, x, Modulus)) % Modulus
    BY <2>1, <2>2, PolyLinear, ZenonT(60)
  <2> QED BY <1>1, <1>2, <2>3 DEF WordOf, x
<1>7. w = WordOf(h)
  BY <1>6 DEF WordOf
<1>8. SharedAs(WordOf(h), h[1])
  BY <1>4, PolynomialShared
<1>9. s = f[1] /\ t = g[1] /\ 1 \in 1 .. T + 1
  BY <1>1, <1>2, PolynomialAssumption, PartiesAssumption DEF SharedAs
<1> QED BY <1>5, <1>7, <1>8, <1>9

\* Every party has v itself as its share.
Constantly(v) == [q \in Proc |-> v]

LEMMA ConstantShared == ASSUME NEW v \in Value PROVE SharedAs(Constantly(v), v)
<1> DEFINE n == T + 1
           f == [i \in 1 .. n |-> IF i = 1 THEN v ELSE 0]
<1>1. n \in Nat /\ 1 \in 1 .. n /\ n # 0 /\ v \in Int
  BY ModulusSize, PartiesAssumption
<1>2. f \in Polynomials /\ f \in [1 .. n -> Int] /\ f[1] = v /\ \A i \in 2 .. n : f[i] = 0
  BY <1>1, ModulusSize DEF Polynomials, Degree
<1> HIDE DEF f, n
<1>3. ASSUME NEW q \in Proc PROVE PolyEval(f, Point(q), Modulus) = v
  <2> DEFINE x == Point(q)
  <2>1. x \in Int
    BY PointType
  <2> HIDE DEF x
  <2>2. PICK E \in [0 .. n -> Value] : IsHorner(E, f, n, x)
    BY <1>1, <1>2, <2>1, HornerExists
  <2> DEFINE S == {k \in Nat : k <= n - 1 => E[k] = 0}
  <2>3. 0 \in S
    BY <2>2 DEF IsHorner
  <2>4. ASSUME NEW k \in Nat, k \in S PROVE k + 1 \in S
    <3> SUFFICES ASSUME k + 1 <= n - 1 PROVE E[k + 1] = 0
      OBVIOUS
    <3>1. k + 1 \in 1 .. n /\ (k + 1) - 1 = k /\ E[k] = 0 /\ n + 1 - (k + 1) \in 2 .. n
      BY <1>1, <2>4
    <3>2. E[k + 1] = (0 + x * 0) % Modulus
      BY <1>2, <2>2, <3>1 DEF IsHorner
    <3> QED BY <2>1, <3>2, ModulusSize
  <2> HIDE DEF S
  <2>5. n - 1 \in S
    <3>1. n - 1 \in Nat
      BY <1>1
    <3> QED BY <2>3, <2>4, <3>1, Induction
  <2>6. E[n - 1] = 0 /\ n \in 1 .. n /\ n + 1 - n = 1
    BY <1>1, <2>5 DEF S
  <2>7. E[n] = (v + x * 0) % Modulus
    BY <1>2, <2>2, <2>6 DEF IsHorner
  <2>8. E[n] = v
    BY <1>1, <2>1, <2>7, ModSmall
  <2> QED BY <1>1, <1>2, <2>1, <2>2, <2>8, PolyEvalIs DEF x
<1>4. WordOf(f) = Constantly(v)
  BY <1>3 DEF WordOf, Constantly
<1> QED BY <1>2, <1>4, PolynomialShared

-----------------------------------------------------------------------------
(* Rows of n shares at each party, and what the parties compute from them. *)

ColumnOf(v, i)   == [q \in Proc |-> v[q][i]]
SumsOf(v)        == [q \in Proc |-> SumUp(v[q], Modulus)]
ValuesOf(v, x)   == [q \in Proc |-> PolyEval(v[q], x, Modulus)]
RowsShared(v, t, n) == /\ v \in [Proc -> [1 .. n -> Value]] /\ t \in [1 .. n -> Value]
                       /\ \A i \in 1 .. n : SharedAs(ColumnOf(v, i), t[i])

\* The sums of the rows are shares of the sum of the secrets.
LEMMA SumsShared ==
    ASSUME NEW n \in Nat, NEW v, NEW t, RowsShared(v, t, n)
    PROVE  SharedAs(SumsOf(v), SumUp(t, Modulus))
<1>1. /\ \A q \in Proc : v[q] \in [1 .. n -> Int]
      /\ t \in [1 .. n -> Int]
  BY ModulusSize DEF RowsShared
<1> DEFINE SS == [q \in Proc |-> CHOOSE S \in [0 .. n -> Value] : IsSum(S, v[q], n)]
<1>2. \A q \in Proc : SS[q] \in [0 .. n -> Value] /\ IsSum(SS[q], v[q], n)
  BY <1>1, SumExists
<1>3. PICK U \in [0 .. n -> Value] : IsSum(U, t, n)
  BY <1>1, SumExists
<1> HIDE DEF SS
<1> DEFINE At(k) == [q \in Proc |-> SS[q][k]]
           S == {k \in Nat : k <= n => SharedAs(At(k), U[k])}
<1>4. 0 \in S
  <2>1. At(0) = Constantly(0) /\ U[0] = 0 /\ 0 \in Value
    BY <1>2, <1>3, ModulusSize DEF Constantly, IsSum
  <2> QED BY <2>1, ConstantShared
<1>5. ASSUME NEW k \in Nat, k \in S PROVE k + 1 \in S
  <2> SUFFICES ASSUME k + 1 <= n PROVE SharedAs(At(k + 1), U[k + 1])
    OBVIOUS
  <2>1. k + 1 \in 1 .. n /\ (k + 1) - 1 = k /\ k \in 0 .. n /\ k + 1 \in 0 .. n
    OBVIOUS
  <2>2. SharedAs(At(k), U[k])
    BY <1>5
  <2>3. SharedAs(ColumnOf(v, k + 1), t[k + 1])
    BY <2>1 DEF RowsShared
  <2>4. At(k + 1) \in [Proc -> Value]
    BY <1>2, <2>1
  <2>5. ASSUME NEW q \in Proc PROVE At(k + 1)[q] = (At(k)[q] + 1 * ColumnOf(v, k + 1)[q]) % Modulus
    <3>1. SS[q][k + 1] = (SS[q][k] + v[q][k + 1]) % Modulus
      BY <1>2, <2>1 DEF IsSum
    <3>2. v[q][k + 1] \in Int
      BY <1>1, <2>1
    <3> QED BY <3>1, <3>2 DEF ColumnOf
  <2>6. U[k + 1] = (U[k] + 1 * t[k + 1]) % Modulus
    <3>1. t[k + 1] \in Int /\ U[k + 1] = (U[k] + t[k + 1]) % Modulus
      BY <1>1, <1>3, <2>1 DEF IsSum
    <3> QED BY <3>1
  <2> HIDE DEF At
  <2> QED BY <2>2, <2>3, <2>4, <2>5, <2>6, Combine
<1> HIDE DEF S
<1>6. n \in S
  BY <1>4, <1>5, Induction
<1>7. At(n) = SumsOf(v)
  BY <1>1, <1>2, SumUpIs DEF SumsOf
<1>8. U[n] = SumUp(t, Modulus)
  BY <1>1, <1>3, SumUpIs
<1> QED BY <1>6, <1>7, <1>8 DEF S

\* The values of the rows, taken as polynomials, at one point are shares of the value of
\* the secrets, taken as a polynomial.
LEMMA ValuesShared ==
    ASSUME NEW n \in Nat, NEW v, NEW t, RowsShared(v, t, n), NEW x \in Int
    PROVE  SharedAs(ValuesOf(v, x), PolyEval(t, x, Modulus))
<1>1. /\ \A q \in Proc : v[q] \in [1 .. n -> Int]
      /\ t \in [1 .. n -> Int]
  BY ModulusSize DEF RowsShared
<1> DEFINE EE == [q \in Proc |-> CHOOSE E \in [0 .. n -> Value] : IsHorner(E, v[q], n, x)]
<1>2. \A q \in Proc : EE[q] \in [0 .. n -> Value] /\ IsHorner(EE[q], v[q], n, x)
  BY <1>1, HornerExists
<1>3. PICK U \in [0 .. n -> Value] : IsHorner(U, t, n, x)
  BY <1>1, HornerExists
<1> HIDE DEF EE
<1> DEFINE At(k) == [q \in Proc |-> EE[q][k]]
           S == {k \in Nat : k <= n => SharedAs(At(k), U[k])}
<1>4. 0 \in S
  <2>1. At(0) = Constantly(0) /\ U[0] = 0 /\ 0 \in Value
    BY <1>2, <1>3, ModulusSize DEF Constantly, IsHorner
  <2> QED BY <2>1, ConstantShared
<1>5. ASSUME NEW k \in Nat, k \in S PROVE k + 1 \in S
  <2> SUFFICES ASSUME k + 1 <= n PROVE SharedAs(At(k + 1), U[k + 1])
    OBVIOUS
  <2> DEFINE i == n + 1 - (k + 1)
  <2>1. k + 1 \in 1 .. n /\ (k + 1) - 1 = k /\ k \in 0 .. n /\ k + 1 \in 0 .. n /\ i \in 1 .. n
    OBVIOUS
  <2>2. SharedAs(At(k), U[k])
    BY <1>5
  <2>3. SharedAs(ColumnOf(v, i), t[i])
    BY <2>1 DEF RowsShared
  <2>4. At(k + 1) \in [Proc -> Value]
    BY <1>2, <2>1
  <2>5. ASSUME NEW q \in Proc PROVE At(k + 1)[q] = (ColumnOf(v, i)[q] + x * At(k)[q]) % Modulus
    BY <1>2, <2>1 DEF IsHorner, ColumnOf
  <2>6. U[k + 1] = (t[i] + x * U[k]) % Modulus
    BY <1>3, <2>1 DEF IsHorner
  <2> HIDE DEF At, i
  <2> QED BY <2>2, <2>3, <2>4, <2>5, <2>6, Combine
<1> HIDE DEF S
<1>6. n \in S
  BY <1>4, <1>5, Induction
<1>7. At(n) = ValuesOf(v, x)
  BY <1>1, <1>2, PolyEvalIs DEF ValuesOf
<1>8. U[n] = PolyEval(t, x, Modulus)
  BY <1>1, <1>3, PolyEvalIs
<1> QED BY <1>6, <1>7, <1>8 DEF S

-----------------------------------------------------------------------------
(* computePowers. *)

\* The next diagonal, made from the one before it.
Row(prev, m, bs, d) ==
    [i \in 1 .. m + 1 |-> (d * SumUp(SubSeq(prev, 1, i - 1), Modulus) + bs[m]) % Modulus]

\* A diagonal has one element more than the one before it.
LEMMA RowType ==
    ASSUME NEW n \in Nat, NEW m \in 1 .. n, NEW bs \in [1 .. n -> Value], NEW d \in Int,
           NEW prev \in [1 .. m -> Value]
    PROVE  /\ Row(prev, m, bs, d) \in [1 .. m + 1 -> Value]
           /\ Vec(Row(prev, m, bs, d)) = Row(prev, m, bs, d)
<1>1. ASSUME NEW i \in 1 .. m + 1
      PROVE  (d * SumUp(SubSeq(prev, 1, i - 1), Modulus) + bs[m]) % Modulus \in Value
  <2>1. prev \in [1 .. m -> Int] /\ i - 1 \in 0 .. m /\ i - 1 \in Nat
    BY ModulusSize
  <2> DEFINE j == i - 1
  <2>2. SubSeq(prev, 1, j) \in [1 .. j -> Int]
    BY <2>1, PrefixIs
  <2>3. SumUp(SubSeq(prev, 1, j), Modulus) \in Value
    BY <2>1, <2>2, SumUpType
  <2>4. SumUp(SubSeq(prev, 1, i - 1), Modulus) \in Int /\ bs[m] \in Int
    BY <2>3, ModulusSize
  <2> QED BY <2>4, ModType
<1>2. Row(prev, m, bs, d) \in [1 .. m + 1 -> Value]
  BY <1>1 DEF Row
<1> HIDE DEF Row
<1>3. m + 1 \in Nat
  OBVIOUS
<1> QED BY <1>2, <1>3, VecIs

LEMMA FirstRow == <<1>> \in [1 .. 0 + 1 -> Value] /\ 0 + 1 = 1
<1>1. 1 \in Value
  BY ModulusSize
<1> QED BY <1>1

IsDiagonals(D, bs, d, n) ==
    /\ D[0] = <<1>>
    /\ \A m \in 0 .. n : D[m] \in [1 .. m + 1 -> Value]
    /\ \A m \in 1 .. n : D[m] = Row(D[m - 1], m, bs, d)

\* There are such diagonals.
LEMMA DiagonalsExist ==
    ASSUME NEW n \in Nat, NEW bs \in [1 .. n -> Value], NEW d \in Int
    PROVE  \E D : IsDiagonals(D, bs, d, n) /\ DOMAIN D = 0 .. n /\ D = [m \in 0 .. n |-> D[m]]
<1> DEFINE step == [y \in Nat \X Seq(Value) |->
                       IF y[1] + 1 \in 1 .. n /\ y[2] \in [1 .. y[1] + 1 -> Value]
                       THEN Row(y[2], y[1] + 1, bs, d) ELSE <<>>]
<1>1. <<1>> \in Seq(Value) /\ <<1>> \in [1 .. 1 -> Value] /\ <<>> \in Seq(Value)
  BY ModulusSize
<1>2. step \in [Nat \X Seq(Value) -> Seq(Value)]
  <2>1. ASSUME NEW y \in Nat \X Seq(Value), y[1] + 1 \in 1 .. n, y[2] \in [1 .. y[1] + 1 -> Value]
        PROVE  Row(y[2], y[1] + 1, bs, d) \in Seq(Value)
    <3> DEFINE m == y[1] + 1
    <3>1. m \in 1 .. n /\ y[2] \in [1 .. m -> Value] /\ m + 1 \in Nat
      BY <2>1
    <3> HIDE DEF m
    <3>2. Row(y[2], m, bs, d) \in [1 .. m + 1 -> Value]
      BY <3>1, RowType
    <3>3. Row(y[2], m, bs, d) \in Seq(Value)
      BY <3>1, <3>2, Vectors
    <3> QED BY <3>3 DEF m
  <2> QED BY <2>1, <1>1
<1>3. ASSUME NEW k \in 0 .. n - 1, NEW v \in Seq(Value), v \in [1 .. k + 1 -> Value]
      PROVE  step[<<k, v>>] = Row(v, k + 1, bs, d)
  BY <1>3
<1> HIDE DEF step
<1>4. PICK D \in [0 .. n -> Seq(Value)] : Runs(D, n, <<1>>, step)
  BY <1>1, <1>2, Recursion
<1> DEFINE S == {m \in Nat : m <= n => D[m] \in [1 .. m + 1 -> Value]}
<1>5. ASSUME NEW m \in Nat, m \in S, m + 1 <= n
      PROVE  D[m + 1] = Row(D[m], m + 1, bs, d) /\ D[m + 1] \in [1 .. m + 2 -> Value]
  <2>1. m \in 0 .. n - 1 /\ D[m] \in [1 .. m + 1 -> Value] /\ m + 1 \in 1 .. n /\ m \in 0 .. n
    BY <1>5
  <2>2. D[m] \in Seq(Value)
    BY <2>1
  <2>3. D[m + 1] = step[<<m, D[m]>>]
    BY <1>4, <2>1 DEF Runs
  <2>4. D[m + 1] = Row(D[m], m + 1, bs, d)
    BY <2>1, <2>2, <2>3, <1>3
  <2>5. Row(D[m], m + 1, bs, d) \in [1 .. (m + 1) + 1 -> Value]
    BY <2>1, RowType
  <2>6. (m + 1) + 1 = m + 2
    OBVIOUS
  <2> QED BY <2>4, <2>5, <2>6
<1>6. 0 \in S
  BY <1>4, FirstRow DEF Runs
<1>7. ASSUME NEW m \in Nat, m \in S PROVE m + 1 \in S
  <2>1. (m + 1) + 1 = m + 2 /\ m + 1 \in Nat
    OBVIOUS
  <2> QED BY <1>5, <1>7, <2>1
<1>8. Nat \subseteq S
  <2> HIDE DEF S
  <2> QED BY <1>6, <1>7, Induction
<1>9. \A m \in 0 .. n : D[m] \in [1 .. m + 1 -> Value]
  BY <1>8
<1>10. ASSUME NEW m \in 1 .. n PROVE D[m] = Row(D[m - 1], m, bs, d)
  <2> DEFINE k == m - 1
  <2>1. k \in Nat /\ k \in S /\ k + 1 = m /\ k + 1 <= n
    BY <1>8
  <2> HIDE DEF k, S
  <2>2. D[k + 1] = Row(D[k], k + 1, bs, d)
    BY <1>5, <2>1
  <2> QED BY <2>1, <2>2 DEF k
<1>11. IsDiagonals(D, bs, d, n)
  BY <1>4, <1>9, <1>10 DEF IsDiagonals, Runs
<1> QED BY <1>11

\* ComputePowers returns the last elements of the diagonals.
LEMMA ComputePowersIs ==
    ASSUME NEW n \in Nat, NEW bs \in [1 .. n -> Value], NEW d \in Int, NEW a
    PROVE  \E D : /\ IsDiagonals(D, bs, d, n)
                  /\ ComputePowers(a, bs, d) = [m \in 1 .. n |-> D[m][m + 1]]
<1> DEFINE Eq(g) == g = [m \in 0 .. Len(bs) |->
                           IF m = 0 THEN <<1>> ELSE Vec(Row(g[m - 1], m, bs, d))]
           G == CHOOSE g : Eq(g)
<1>1. Len(bs) = n /\ DOMAIN bs = 1 .. n
  BY Vectors
<1>2. ComputePowers(a, bs, d) = [m \in DOMAIN bs |-> G[m][m + 1]]
  BY DEF ComputePowers, Row
<1>3. PICK D : IsDiagonals(D, bs, d, n) /\ D = [m \in 0 .. n |-> D[m]]
  BY DiagonalsExist
<1>4. ASSUME NEW m \in 1 .. n PROVE D[m] = Vec(Row(D[m - 1], m, bs, d))
  <2>1. m - 1 \in 0 .. n /\ (m - 1) + 1 = m
    OBVIOUS
  <2>2. D[m - 1] \in [1 .. m -> Value]
    BY <1>3, <2>1 DEF IsDiagonals
  <2>3. Vec(Row(D[m - 1], m, bs, d)) = Row(D[m - 1], m, bs, d)
    BY <2>2, RowType
  <2> QED BY <1>3, <2>3 DEF IsDiagonals
<1>5. Eq(D)
  <2>1. \A m \in 0 .. n : D[m] = IF m = 0 THEN <<1>> ELSE Vec(Row(D[m - 1], m, bs, d))
    <3>1. \A m \in 0 .. n : m # 0 => m \in 1 .. n
      OBVIOUS
    <3> QED BY <1>3, <1>4, <3>1 DEF IsDiagonals
  <2>2. D = [m \in 0 .. n |-> IF m = 0 THEN <<1>> ELSE Vec(Row(D[m - 1], m, bs, d))]
    BY <1>3, <2>1
  <2> QED BY <1>1, <2>2
<1>6. Eq(G)
  <2> HIDE DEF Eq
  <2> QED BY <1>5
<1>7. \A m \in 0 .. n : G[m] = IF m = 0 THEN <<1>> ELSE Vec(Row(G[m - 1], m, bs, d))
  <2> HIDE DEF G
  <2> QED BY <1>1, <1>6
<1> HIDE DEF G, Eq
<1> DEFINE S == {m \in Nat : m <= n => G[m] \in [1 .. m + 1 -> Value]}
<1>8. 0 \in S
  <2>1. G[0] = <<1>>
    BY <1>7
  <2> QED BY <2>1, FirstRow
<1>9. ASSUME NEW m \in Nat, m \in S, m + 1 <= n
      PROVE  G[m + 1] = Row(G[m], m + 1, bs, d) /\ G[m + 1] \in [1 .. m + 2 -> Value]
  <2>1. /\ m + 1 \in 0 .. n /\ m + 1 \in 1 .. n /\ m + 1 # 0 /\ (m + 1) - 1 = m /\ (m + 1) + 1 = m + 2
        /\ G[m] \in [1 .. m + 1 -> Value]
    BY <1>9
  <2>2. G[m + 1] = Vec(Row(G[m], m + 1, bs, d))
    BY <1>7, <2>1
  <2>3. /\ Vec(Row(G[m], m + 1, bs, d)) = Row(G[m], m + 1, bs, d)
        /\ Row(G[m], m + 1, bs, d) \in [1 .. (m + 1) + 1 -> Value]
    BY <2>1, RowType
  <2> QED BY <2>1, <2>2, <2>3
<1>10. ASSUME NEW m \in Nat, m \in S PROVE m + 1 \in S
  <2>1. (m + 1) + 1 = m + 2 /\ m + 1 \in Nat
    OBVIOUS
  <2> QED BY <1>9, <1>10, <2>1
<1>11. Nat \subseteq S
  <2> HIDE DEF S
  <2> QED BY <1>8, <1>10, Induction
<1>12. \A m \in 0 .. n : G[m] \in [1 .. m + 1 -> Value]
  BY <1>11
<1>13. ASSUME NEW m \in 1 .. n PROVE G[m] = Row(G[m - 1], m, bs, d)
  <2> DEFINE k == m - 1
  <2>1. k \in Nat /\ k \in S /\ k + 1 = m /\ k + 1 <= n
    BY <1>11
  <2> HIDE DEF k, S
  <2>2. G[k + 1] = Row(G[k], k + 1, bs, d)
    BY <1>9, <2>1
  <2> QED BY <2>1, <2>2 DEF k
<1>14. IsDiagonals(G, bs, d, n)
  BY <1>7, <1>12, <1>13 DEF IsDiagonals
<1>15. ComputePowers(a, bs, d) = [m \in 1 .. n |-> G[m][m + 1]]
  BY <1>1, <1>2
<1> QED BY <1>14, <1>15

-----------------------------------------------------------------------------
\* What a step along a diagonal needs: d is a - b; the sum u of the elements up to
\* ak * be goes on to u1; and b[m] plus d times a sum is the element after it.
IsDifference(d, a, b) == d % Modulus = (a - b) % Modulus
OneFurther(a, b, u, u1, ak, ak1, be, be1) ==
    /\ u1 % Modulus = (u + ak * be) % Modulus
    /\ be1 % Modulus = (be * b) % Modulus
    /\ ak1 % Modulus = (ak * a) % Modulus
Balanced(bm, d, u, ak, be) == (bm + d * u) % Modulus = (ak * be) % Modulus

\* One element further both sides change alike: d times a product of powers turns one b
\* of it into an a.
LEMMA DiagonalStep ==
    ASSUME NEW a \in Int, NEW b \in Int, NEW d \in Int, NEW t \in Int, NEW t1 \in Int, NEW bm \in Int,
           NEW aj \in Int, NEW aj1 \in Int, NEW bk \in Int, NEW bk1 \in Int,
           IsDifference(d, a, b), OneFurther(a, b, t, t1, aj, aj1, bk, bk1),
           Balanced(bm, d, t, aj, bk1)
    PROVE  Balanced(bm, d, t1, aj1, bk)
<1> DEFINE P == Modulus
<1>1. P \in Int
  BY ModulusSize
<1>2. PICK k2 \in Int : d = (a - b) + P * k2
  BY ModEqual DEF IsDifference, OneFurther
<1>3. PICK k1 \in Int : t1 = (t + aj * bk) + P * k1
  BY ModEqual DEF IsDifference, OneFurther
<1>4. PICK k3 \in Int : bm + d * t = aj * bk1 + P * k3
  BY ModEqual DEF Balanced
<1>5. PICK k4 \in Int : bk1 = bk * b + P * k4
  BY ModEqual DEF IsDifference, OneFurther
<1>6. PICK k5 \in Int : aj1 = aj * a + P * k5
  BY ModEqual DEF IsDifference, OneFurther
<1> HIDE DEF P
<1> DEFINE z == aj * k4 + k3 + k2 * (aj * bk) + d * k1 - k5 * bk
<1>7. bm + d * t1 = (bm + d * t) + d * (aj * bk) + P * (d * k1)
  BY <1>1, <1>3
<1>8. d * (aj * bk) = (aj * a) * bk - aj * (bk * b) + P * (k2 * (aj * bk))
  BY <1>1, <1>2
<1>9. aj * bk1 = aj * (bk * b) + P * (aj * k4)
  BY <1>1, <1>5
<1>10. (aj * a) * bk = aj1 * bk - P * (k5 * bk)
  BY <1>1, <1>6
<1>11. bm + d * t1 = aj1 * bk + P * z
  <2>1. bm + d * t1 = aj1 * bk + P * (aj * k4) + P * k3 + P * (k2 * (aj * bk)) + P * (d * k1) - P * (k5 * bk)
    BY <1>1, <1>4, <1>7, <1>8, <1>9, <1>10
  <2>2. P * z = P * (aj * k4) + P * k3 + P * (k2 * (aj * bk)) + P * (d * k1) - P * (k5 * bk)
    BY <1>1
  <2> DEFINE w == P * (aj * k4) + P * k3 + P * (k2 * (aj * bk)) + P * (d * k1) - P * (k5 * bk)
  <2>3. bm + d * t1 = aj1 * bk + w /\ P * z = w
    BY <2>1, <2>2, <1>1
  <2> HIDE DEF w, z
  <2> QED BY <2>3
<1>12. z \in Int
  OBVIOUS
<1> HIDE DEF z
<1> QED BY <1>11, <1>12, ModEqual DEF P, Balanced

\* The element i of the m-th diagonal: a^(i - 1) * b^(m + 1 - i).
Element(A, B, m, i) == (A[i - 1] * B[m + 1 - i]) % Modulus
ElementsBefore(t, A, B, m) ==
    t \in [1 .. m -> Value] /\ \A i \in 1 .. m : t[i] = Element(A, B, m - 1, i)
Following(B, d, t, m, i) == (B[m] + d * SumUp(SubSeq(t, 1, i - 1), Modulus)) % Modulus

\* A sum over the first elements t of a diagonal gives the element after them of the
\* next one.
LEMMA DiagonalSecret ==
    ASSUME NEW n \in Nat, NEW a \in Int, NEW b \in Int, NEW d \in Int, IsDifference(d, a, b),
           NEW A \in [0 .. n -> Value], IsPowers(A, a, n),
           NEW B \in [0 .. n -> Value], IsPowers(B, b, n),
           NEW mm \in 1 .. n, NEW t, ElementsBefore(t, A, B, mm),
           NEW ii \in 1 .. mm + 1
    PROVE  Following(B, d, t, mm, ii) = Element(A, B, mm, ii)
<1> DEFINE m == mm - 1
           j == ii - 1
<1>1. m \in Nat /\ m + 1 <= n /\ j \in 0 .. m + 1 /\ mm = m + 1 /\ j = ii - 1 /\ ii = j + 1
  OBVIOUS
<1> HIDE DEF m, j
<1>2. t \in [1 .. m + 1 -> Value] /\ \A i \in 1 .. m + 1 : t[i] = (A[i - 1] * B[m + 1 - i]) % Modulus
  BY <1>1 DEF Element, ElementsBefore, m
<1>3. m + 1 \in Nat /\ t \in [1 .. m + 1 -> Int] /\ \A v \in Value : v \in Int
  BY ModulusSize, <1>1, <1>2
<1>4. PICK U \in [0 .. m + 1 -> Value] : IsSum(U, t, m + 1)
  BY <1>3, SumExists
<1>5. SumUp(SubSeq(t, 1, j), Modulus) = U[j]
  BY <1>3, <1>4, <1>1, SumUpPrefix
<1> DEFINE S == {k \in Nat : k <= m + 1 =>
                    (B[m + 1] + d * U[k]) % Modulus = (A[k] * B[m + 1 - k]) % Modulus}
<1>6. 0 \in S
  <2>1. m + 1 \in 0 .. n /\ m + 1 - 0 = m + 1
    BY <1>1
  <2>2. U[0] = 0
    BY <1>4 DEF IsSum
  <2>3. A[0] = 1
    BY DEF IsPowers
  <2>4. B[m + 1] \in Int
    BY <1>3, <2>1
  <2>5. B[m + 1] + d * U[0] = A[0] * B[m + 1 - 0]
    BY <2>1, <2>2, <2>3, <2>4
  <2> QED BY <2>5
<1>7. ASSUME NEW k \in Nat, k \in S PROVE k + 1 \in S
  <2> SUFFICES ASSUME k + 1 <= m + 1
               PROVE  (B[m + 1] + d * U[k + 1]) % Modulus = (A[k + 1] * B[m + 1 - (k + 1)]) % Modulus
    OBVIOUS
  <2> DEFINE e == m - k
  <2>1. /\ k + 1 \in 1 .. m + 1 /\ k + 1 \in 1 .. n /\ (k + 1) - 1 = k
        /\ e \in 0 .. n /\ e + 1 \in 1 .. n /\ (e + 1) - 1 = e
        /\ m + 1 - k = e + 1 /\ m + 1 - (k + 1) = e
        /\ k \in 0 .. n /\ k + 1 \in 0 .. n /\ e + 1 \in 0 .. n /\ m + 1 \in 0 .. n
        /\ k \in 0 .. m + 1 /\ k + 1 \in 0 .. m + 1
    BY <1>1
  <2> HIDE DEF e
  <2>2. /\ B[m + 1] \in Int /\ U[k] \in Int /\ U[k + 1] \in Int /\ A[k] \in Int /\ A[k + 1] \in Int
        /\ B[e] \in Int /\ B[e + 1] \in Int
    BY <1>3, <2>1
  <2>3. (B[m + 1] + d * U[k]) % Modulus = (A[k] * B[e + 1]) % Modulus
    BY <1>7, <2>1
  <2>4. U[k + 1] % Modulus = (U[k] + A[k] * B[e]) % Modulus
    <3>1. U[k + 1] = (U[k] + t[k + 1]) % Modulus
      BY <1>4, <2>1 DEF IsSum
    <3>2. t[k + 1] = (A[k] * B[e]) % Modulus /\ t[k + 1] \in Int
      BY <1>3, <1>2, <2>1
    <3> DEFINE x == A[k] * B[e]  y == t[k + 1]  u == U[k]  z == U[k + 1]
    <3>3. x \in Int /\ y \in Int /\ u \in Int
      <4>1. x \in Int
        BY <2>2
      <4>2. y \in Int /\ u \in Int
        BY <2>2, <3>2
      <4> QED BY <4>1, <4>2
    <3>4. y = x % Modulus /\ z = (u + y) % Modulus
      BY <3>1, <3>2
    <3> HIDE DEF x, y, u, z
    <3>5. y % Modulus = x % Modulus
      BY <3>3, <3>4, ModMod
    <3>6. (u + y) % Modulus = (u + x) % Modulus
      BY <3>3, <3>5, ModAdd
    <3>7. u + y \in Int
      BY <3>3
    <3>8. z % Modulus = z
      BY <3>7, <3>4, ModMod
    <3>9. z % Modulus = (u + x) % Modulus
      BY <3>6, <3>8, <3>4
    <3> QED BY <3>9 DEF x, u, z
  <2>5. B[e + 1] % Modulus = (B[e] * b) % Modulus
    <3>1. B[e + 1] = (B[e] * b) % Modulus
      BY <2>1 DEF IsPowers
    <3>2. B[e] * b \in Int
      BY <2>2
    <3> QED BY <3>1, <3>2, ModMod
  <2>6. A[k + 1] % Modulus = (A[k] * a) % Modulus
    <3>1. A[k + 1] = (A[k] * a) % Modulus
      BY <2>1 DEF IsPowers
    <3>2. A[k] * a \in Int
      BY <2>2
    <3> QED BY <3>1, <3>2, ModMod
  <2>7. (B[m + 1] + d * U[k + 1]) % Modulus = (A[k + 1] * B[e]) % Modulus
    <3> DEFINE bm == B[m + 1]  u == U[k]  u1 == U[k + 1]  ak == A[k]  ak1 == A[k + 1]
               be == B[e]  be1 == B[e + 1]
    <3>1. /\ bm \in Int /\ u \in Int /\ u1 \in Int /\ ak \in Int /\ ak1 \in Int
          /\ be \in Int /\ be1 \in Int
      BY <2>2
    <3>2. /\ (bm + d * u) % Modulus = (ak * be1) % Modulus
          /\ u1 % Modulus = (u + ak * be) % Modulus
          /\ be1 % Modulus = (be * b) % Modulus
          /\ ak1 % Modulus = (ak * a) % Modulus
      BY <2>3, <2>4, <2>5, <2>6
    <3> HIDE DEF bm, u, u1, ak, ak1, be, be1
    <3>3. Balanced(bm, d, u, ak, be1)
      BY <3>2 DEF Balanced
    <3>4. OneFurther(a, b, u, u1, ak, ak1, be, be1)
      BY <3>2 DEF OneFurther
    <3>5. Balanced(bm, d, u1, ak1, be)
      BY <3>1, <3>3, <3>4, DiagonalStep
    <3> QED BY <3>5 DEF bm, u1, ak1, be, Balanced
  <2> QED BY <2>1, <2>7
<1> HIDE DEF S
<1>8. j \in S
  <2>1. Nat \subseteq S
    BY <1>6, <1>7, Induction
  <2> QED BY <2>1, <1>1
<1>9. (B[m + 1] + d * U[j]) % Modulus = (A[j] * B[m + 1 - j]) % Modulus
  BY <1>8, <1>1 DEF S
<1>10. m + 1 - j = mm + 1 - ii
  BY <1>1
<1> QED BY <1>5, <1>9, <1>1, <1>10 DEF Element, Following

PowersAt(as, bs, d) == [q \in Proc |-> ComputePowers(as[q], bs[q], d)]

\* From shares of the powers of b and from a - b the parties compute shares of the
\* powers of a.
LEMMA PowersShared ==
    ASSUME NEW n \in Nat, NEW a \in Int, NEW b \in Int, NEW d \in Int, IsDifference(d, a, b),
           NEW A \in [0 .. n -> Value], IsPowers(A, a, n),
           NEW B \in [0 .. n -> Value], IsPowers(B, b, n),
           NEW bs \in [Proc -> [1 .. n -> Value]],
           \A m \in 1 .. n : SharedAs(ColumnOf(bs, m), B[m]),
           NEW as, NEW t \in [1 .. n -> Value], \A m \in 1 .. n : t[m] = A[m]
    PROVE  RowsShared(PowersAt(as, bs, d), t, n)
<1> DEFINE w == [q \in Proc |-> ComputePowers(as[q], bs[q], d)]
           Good(q, D) == /\ IsDiagonals(D, bs[q], d, n)
                         /\ ComputePowers(as[q], bs[q], d) = [m \in 1 .. n |-> D[m][m + 1]]
           DD == [q \in Proc |-> CHOOSE D : Good(q, D)]
           At(m, i) == [q \in Proc |-> DD[q][m][i]]
           S == {m \in Nat : m <= n => \A i \in 1 .. m + 1 : SharedAs(At(m, i), Element(A, B, m, i))}
<1>1. \A q \in Proc : Good(q, DD[q])
  <2>1. ASSUME NEW q \in Proc PROVE \E D : Good(q, D)
    <3> DEFINE bq == bs[q]  aq == as[q]
    <3>1. bq \in [1 .. n -> Value]
      OBVIOUS
    <3> HIDE DEF bq, aq
    <3>2. \E D : IsDiagonals(D, bq, d, n) /\ ComputePowers(aq, bq, d) = [m \in 1 .. n |-> D[m][m + 1]]
      BY <3>1, ComputePowersIs
    <3> QED BY <3>2 DEF bq, aq
  <2> HIDE DEF Good
  <2> QED BY <2>1
<1>2. /\ \A q \in Proc : IsDiagonals(DD[q], bs[q], d, n)
      /\ \A q \in Proc : w[q] = [m \in 1 .. n |-> DD[q][m][m + 1]]
  <2> HIDE DEF DD
  <2> QED BY <1>1
<1> HIDE DEF DD, w, Good
<1>3. \A v \in Value : v \in Int
  BY ModulusSize
<1>4. ASSUME NEW m \in 0 .. n, NEW i \in 1 .. m + 1 PROVE Element(A, B, m, i) \in Value
  <2>1. A[i - 1] \in Int /\ B[m + 1 - i] \in Int
    BY <1>3
  <2>2. A[i - 1] * B[m + 1 - i] \in Int
    BY <2>1
  <2> QED BY <2>2, ModType DEF Element
<1>5. 0 \in S
  <2>1. At(0, 1) = Constantly(1)
    <3>1. \A q \in Proc : DD[q][0][1] = 1
      BY <1>2 DEF IsDiagonals
    <3> QED BY <3>1 DEF Constantly
  <2>2. Element(A, B, 0, 1) = 1 /\ 1 \in Value
    <3>1. A[0] = 1 /\ B[0] = 1
      BY DEF IsPowers
    <3>2. 1 - 1 = 0 /\ 0 + 1 - 1 = 0 /\ 1 * 1 = 1 /\ 1 \in Value
      BY ModulusSize
    <3>3. 1 % Modulus = 1
      BY <3>2, ModSmall
    <3> QED BY <3>1, <3>2, <3>3 DEF Element
  <2>3. SharedAs(At(0, 1), Element(A, B, 0, 1))
    BY <2>1, <2>2, ConstantShared
  <2> HIDE DEF At
  <2>4. \A i \in 1 .. 0 + 1 : i = 1
    OBVIOUS
  <2> QED BY <2>3, <2>4
<1>6. ASSUME NEW m \in Nat, m \in S PROVE m + 1 \in S
  <2> SUFFICES ASSUME m + 1 <= n, NEW i \in 1 .. (m + 1) + 1
               PROVE  SharedAs(At(m + 1, i), Element(A, B, m + 1, i))
    <3> HIDE DEF At
    <3> QED OBVIOUS
  <2> DEFINE j == i - 1
             v == [q \in Proc |-> SubSeq(DD[q][m], 1, j)]
             row == [k \in 1 .. m + 1 |-> Element(A, B, m, k)]
             r == SubSeq(row, 1, j)
  <2>1. /\ m \in 0 .. n /\ m + 1 \in 1 .. n /\ m + 1 \in 0 .. n /\ m + 1 \in Nat
        /\ j \in 0 .. m + 1 /\ j \in Nat /\ (m + 1) - 1 = m /\ (m + 1) + 1 - i = m + 1 - j
    OBVIOUS
  <2>2. \A q \in Proc : DD[q][m] \in [1 .. m + 1 -> Value]
    BY <1>2, <2>1 DEF IsDiagonals
  <2>3. row \in [1 .. m + 1 -> Value]
    BY <1>4, <2>1
  <2>4. \A k \in 1 .. m + 1 : row[k] = Element(A, B, m, k)
    OBVIOUS
  <2>5. \A k \in 1 .. m + 1 : SharedAs(At(m, k), row[k])
    BY <1>6
  <2> HIDE DEF row, j
  <2>6. r \in [1 .. j -> Value] /\ \A k \in 1 .. j : r[k] = row[k]
    BY <2>1, <2>3, PrefixIs
  <2>7. ASSUME NEW q \in Proc
        PROVE  v[q] \in [1 .. j -> Value] /\ \A k \in 1 .. j : v[q][k] = DD[q][m][k]
    BY <2>1, <2>2, PrefixIs
  <2>8. RowsShared(v, r, j)
    <3>1. v \in [Proc -> [1 .. j -> Value]]
      BY <2>7
    <3>2. ASSUME NEW k \in 1 .. j PROVE SharedAs(ColumnOf(v, k), r[k])
      <4>1. ColumnOf(v, k) = At(m, k)
        BY <2>7 DEF ColumnOf
      <4>2. k \in 1 .. m + 1
        BY <2>1
      <4> HIDE DEF At, v, r
      <4> QED BY <2>5, <2>6, <4>1, <4>2
    <3> QED BY <2>6, <3>1, <3>2 DEF RowsShared
  <2>9. SharedAs(SumsOf(v), SumUp(r, Modulus))
    BY <2>1, <2>8, SumsShared
  <2>10. SharedAs(ColumnOf(bs, m + 1), B[m + 1])
    BY <2>1
  <2>11. ASSUME NEW q \in Proc
         PROVE  At(m + 1, i)[q] = (ColumnOf(bs, m + 1)[q] + d * SumsOf(v)[q]) % Modulus
    <3>1. DD[q][m + 1] = Row(DD[q][m], m + 1, bs[q], d)
      BY <1>2, <2>1 DEF IsDiagonals
    <3>2. DD[q][m + 1][i] = (d * SumUp(SubSeq(DD[q][m], 1, i - 1), Modulus) + bs[q][m + 1]) % Modulus
      BY <3>1 DEF Row
    <3>3. SumUp(v[q], Modulus) \in Value /\ bs[q][m + 1] \in Value
      <4>1. v[q] \in [1 .. j -> Int]
        BY <1>3, <2>7
      <4> QED BY <2>1, <4>1, SumUpType
    <3>4. SumsOf(v)[q] = SumUp(SubSeq(DD[q][m], 1, i - 1), Modulus) /\ SumsOf(v)[q] \in Int
          /\ ColumnOf(bs, m + 1)[q] = bs[q][m + 1] /\ bs[q][m + 1] \in Int
      BY <1>3, <3>3 DEF SumsOf, ColumnOf, j
    <3>5. DD[q][m + 1][i] = (bs[q][m + 1] + d * SumsOf(v)[q]) % Modulus
      <4> DEFINE x == SumsOf(v)[q]  y == bs[q][m + 1]
      <4>1. x \in Int /\ y \in Int /\ DD[q][m + 1][i] = (d * x + y) % Modulus
        BY <3>2, <3>4
      <4> HIDE DEF x, y
      <4>2. d * x + y = y + d * x
        BY <4>1
      <4> QED BY <4>1, <4>2 DEF x, y
    <3> QED BY <3>4, <3>5
  <2>12. At(m + 1, i) \in [Proc -> Value]
    <3>1. \A q \in Proc : DD[q][m + 1] \in [1 .. (m + 1) + 1 -> Value]
      BY <1>2, <2>1 DEF IsDiagonals
    <3> QED BY <3>1
  <2>13. SharedAs(At(m + 1, i), (B[m + 1] + d * SumUp(r, Modulus)) % Modulus)
    <3> HIDE DEF At, v, r
    <3> QED BY <2>9, <2>10, <2>11, <2>12, Combine
  <2>14. (B[m + 1] + d * SumUp(r, Modulus)) % Modulus = Element(A, B, m + 1, i)
    <3> DEFINE mm == m + 1
    <3>1. mm \in 1 .. n /\ mm - 1 = m /\ i \in 1 .. mm + 1 /\ m + 1 = mm
      BY <2>1
    <3> HIDE DEF mm
    <3>2. ElementsBefore(row, A, B, mm)
      BY <2>3, <2>4, <3>1 DEF ElementsBefore
    <3>3. Following(B, d, row, mm, i) = Element(A, B, mm, i)
      <4>1. mm \in 1 .. n /\ i \in 1 .. mm + 1
        BY <3>1
      <4> HIDE DEF row
      <4> QED BY <4>1, <3>2, DiagonalSecret, SMTT(120)
    <3> QED BY <3>1, <3>3 DEF j, Following
  <2> HIDE DEF At, r
  <2> QED BY <2>13, <2>14
<1>7. Nat \subseteq S
  <2> HIDE DEF S
  <2> QED BY <1>5, <1>6, Induction
<1>8. ASSUME NEW m \in 1 .. n PROVE SharedAs(ColumnOf(w, m), t[m])
  <2>1. m + 1 \in 1 .. m + 1 /\ m <= n /\ m \in Nat
    OBVIOUS
  <2>2. m \in S
    BY <1>7, <2>1
  <2>3. SharedAs(At(m, m + 1), Element(A, B, m, m + 1))
    <3> HIDE DEF At
    <3> QED BY <2>1, <2>2
  <2>4. ColumnOf(w, m) = At(m, m + 1)
    <3>1. ASSUME NEW q \in Proc PROVE w[q][m] = DD[q][m][m + 1]
      <4>1. w[q] = [k \in 1 .. n |-> DD[q][k][k + 1]]
        BY <1>2
      <4> QED BY <4>1
    <3> QED BY <3>1 DEF ColumnOf
  <2>5. Element(A, B, m, m + 1) = A[m]
    <3>1. B[0] = 1 /\ A[m] \in Value /\ A[m] \in Int /\ (m + 1) - 1 = m /\ m + 1 - (m + 1) = 0
      BY <1>3 DEF IsPowers
    <3>2. A[m] * B[0] = A[m]
      BY <3>1
    <3>3. A[m] % Modulus = A[m]
      BY <3>1, ModSmall
    <3> QED BY <3>1, <3>2, <3>3 DEF Element
  <2> HIDE DEF At
  <2> QED BY <2>3, <2>4, <2>5
<1>9. w \in [Proc -> [1 .. n -> Value]]
  <2>1. ASSUME NEW q \in Proc PROVE w[q] \in [1 .. n -> Value]
    <3>1. ASSUME NEW m \in 1 .. n PROVE DD[q][m][m + 1] \in Value
      <4>1. DD[q][m] \in [1 .. m + 1 -> Value]
        BY <1>2 DEF IsDiagonals
      <4>2. m + 1 \in 1 .. m + 1
        OBVIOUS
      <4> QED BY <4>1, <4>2
    <3>2. w[q] = [m \in 1 .. n |-> DD[q][m][m + 1]]
      BY <1>2
    <3> QED BY <3>1, <3>2
  <2> QED BY <2>1 DEF w
<1>10. RowsShared(w, t, n)
  BY <1>8, <1>9 DEF RowsShared
<1> QED BY <1>10 DEF w, PowersAt

-----------------------------------------------------------------------------
(* The right words. *)

LEMMA BatchType ==
    ASSUME NEW x \in Batches
    PROVE  /\ x.a \in [Lines -> Value] /\ x.b \in [Lines -> Value] /\ DOMAIN x.a = Lines
           /\ \A i \in Lines : x.a[i] \in Value /\ x.a[i] \in Int /\ x.b[i] \in Value /\ x.b[i] \in Int
<1>1. x \in [a : [Lines -> Value], b : [Lines -> Value]]
  BY InputAssumption
<1>2. \A v \in Value : v \in Int
  BY ModulusSize
<1> QED BY <1>1, <1>2

LEMMA LinesType == K \in Nat /\ Lines = 1 .. K /\ \A m \in Lines : m \in Nat /\ m \in 1 .. K /\ m \in 0 .. K
  BY LineAssumption DEF Lines

\* ShareOf makes shares of its secret.
LEMMA ShareOfShared ==
    ASSUME NEW v \in Value, NEW r \in Int
    PROVE  SharedAs([p \in Proc |-> ShareOf(v, r, p)], v)
<1> DEFINE f == [j \in 1 .. T + 1 |-> IF j = 1 THEN v ELSE r % Modulus]
<1>1. f \in Polynomials
  BY ModType DEF Polynomials, Degree
<1>2. f[1] = v
  BY PartiesAssumption
<1>3. WordOf(f) = [p \in Proc |-> ShareOf(v, r, p)]
  BY DEF WordOf, ShareOf
<1> HIDE DEF f
<1> QED BY <1>1, <1>2, <1>3, PolynomialShared

\* The parties compute shares of the powers of each message.
PowersOf(x, i) == [m \in Lines |-> Pow(x.a[i], m, Modulus)]

LEMMA PowersOfMessage ==
    ASSUME NEW x \in Batches, NEW i \in Lines
    PROVE  RowsShared([q \in Proc |-> Powers(x, q, i)], PowersOf(x, i), K)
<1> DEFINE a == x.a[i]
           b == x.b[i]
           d == OpenedAMinusB(x, i)
           as == [q \in Proc |-> ShareOfA(x, q, i)]
           bs == [q \in Proc |-> Vec([m \in Lines |-> ShareOfB(x, q, i, m)])]
           t == PowersOf(x, i)
<1>1. a \in Int /\ b \in Int
  BY BatchType
<1>2. d \in Int /\ IsDifference(d, a, b)
  <2>1. a - b \in Int
    BY <1>1
  <2>2. (a - b) % Modulus \in Int /\ ((a - b) % Modulus) % Modulus = (a - b) % Modulus
    BY <2>1, ModMod
  <2> QED BY <2>2 DEF IsDifference, OpenedAMinusB
<1>3. i \in Int /\ \A m \in Lines : m \in Nat /\ i + m \in Int
  BY LinesType
<1>4. \A m \in Lines : Pow(a, m, Modulus) \in Value /\ Pow(b, m, Modulus) \in Value
  <2> HIDE DEF a, b
  <2> QED BY <1>1, <1>3, PowType
<1>5. \A m \in Lines : SharedAs([q \in Proc |-> ShareOfB(x, q, i, m)], Pow(b, m, Modulus))
  <2>1. ASSUME NEW m \in Lines PROVE SharedAs([q \in Proc |-> ShareOfB(x, q, i, m)], Pow(b, m, Modulus))
    <3> DEFINE v == Pow(b, m, Modulus)
    <3>1. v \in Value /\ i + m \in Int
      BY <1>3, <1>4
    <3>2. [q \in Proc |-> ShareOfB(x, q, i, m)] = [q \in Proc |-> ShareOf(v, i + m, q)]
      BY DEF ShareOfB
    <3> HIDE DEF v
    <3>3. SharedAs([q \in Proc |-> ShareOf(v, i + m, q)], v)
      BY <3>1, ShareOfShared
    <3> QED BY <3>2, <3>3 DEF v
  <2> QED BY <2>1
<1>6. ASSUME NEW q \in Proc
      PROVE  bs[q] = [m \in Lines |-> ShareOfB(x, q, i, m)] /\ bs[q] \in [1 .. K -> Value]
  <2> DEFINE row == [m \in Lines |-> ShareOfB(x, q, i, m)]
  <2>1. \A m \in Lines : ShareOfB(x, q, i, m) \in Value
    <3>1. ASSUME NEW m \in Lines PROVE ShareOfB(x, q, i, m) \in Value
      <4> DEFINE w == [r \in Proc |-> ShareOfB(x, r, i, m)]
      <4>1. SharedAs(w, Pow(b, m, Modulus))
        BY <1>5
      <4>2. w[q] = ShareOfB(x, q, i, m)
        OBVIOUS
      <4> HIDE DEF w, b
      <4>3. w[q] \in Value
        BY <4>1, SharedType
      <4> QED BY <4>2, <4>3
    <3> QED BY <3>1
  <2>2. row \in [1 .. K -> Value]
    BY <2>1, LinesType
  <2>3. bs[q] = Vec(row)
    OBVIOUS
  <2> HIDE DEF row, bs
  <2>4. Vec(row) = row
    BY <2>2, LinesType, VecIs
  <2> QED BY <2>2, <2>3, <2>4 DEF row
<1>7. PICK A \in [0 .. K -> Value] : IsPowers(A, a, K)
  <2> HIDE DEF a
  <2> QED BY <1>1, LinesType, PowersExist
<1>8. PICK B \in [0 .. K -> Value] : IsPowers(B, b, K)
  <2> HIDE DEF b
  <2> QED BY <1>1, LinesType, PowersExist
<1>9. \A m \in Lines : Pow(a, m, Modulus) = A[m] /\ Pow(b, m, Modulus) = B[m]
  <2> HIDE DEF a, b
  <2> QED BY <1>1, <1>7, <1>8, LinesType, PowIs
<1>10. \A m \in 1 .. K : SharedAs(ColumnOf(bs, m), B[m])
  <2>1. ASSUME NEW m \in Lines PROVE SharedAs(ColumnOf(bs, m), B[m])
    <3>1. ColumnOf(bs, m) = [q \in Proc |-> ShareOfB(x, q, i, m)]
      <4> HIDE DEF bs
      <4> QED BY <1>6 DEF ColumnOf
    <3> HIDE DEF bs, b
    <3> QED BY <1>5, <1>9, <3>1
  <2> HIDE DEF bs
  <2> QED BY <2>1, LinesType
<1>11. t \in [1 .. K -> Value] /\ \A m \in 1 .. K : t[m] = A[m]
  <2>1. t = [m \in Lines |-> Pow(a, m, Modulus)]
    BY DEF PowersOf
  <2> HIDE DEF a, t
  <2> QED BY <1>4, <1>9, <2>1, LinesType
<1>12. bs \in [Proc -> [1 .. K -> Value]]
  <2>1. bs = [q \in Proc |-> bs[q]]
    OBVIOUS
  <2> HIDE DEF bs
  <2> QED BY <1>6, <2>1
<1>13. [q \in Proc |-> Powers(x, q, i)] = PowersAt(as, bs, d)
  BY DEF Powers, PowersAt
<1>14. RowsShared(PowersAt(as, bs, d), t, K)
  <2> HIDE DEF a, b, d, as, bs, t
  <2> QED BY <1>1, <1>2, <1>7, <1>8, <1>10, <1>11, <1>12, LinesType, PowersShared, ZenonT(60)
<1> QED BY <1>13, <1>14

LEMMA PowersType ==
    ASSUME NEW x \in Batches, NEW i \in Lines, NEW q \in Proc
    PROVE  Powers(x, q, i) \in [Lines -> Value]
<1> DEFINE w == [r \in Proc |-> Powers(x, r, i)]
<1>1. w \in [Proc -> [1 .. K -> Value]]
  BY PowersOfMessage DEF RowsShared
<1>2. w[q] = Powers(x, q, i)
  OBVIOUS
<1> HIDE DEF w
<1> QED BY <1>1, <1>2, LinesType

\* The powers of each job in line m, counted as often as they have gone into it.
Terms(x, p, count, m) == [i \in 1 .. K |-> (Times(count[m], <<p, i>>) * Powers(x, p, i)[m]) % Modulus]

LEMMA TermsType ==
    ASSUME NEW x \in Batches, NEW p \in Proc, NEW m \in Lines, NEW count,
           \A i \in Lines : Times(count[m], <<p, i>>) \in Int
    PROVE  Terms(x, p, count, m) \in [1 .. K -> Value]
<1>1. ASSUME NEW i \in Lines PROVE (Times(count[m], <<p, i>>) * Powers(x, p, i)[m]) % Modulus \in Value
  <2> DEFINE u == Times(count[m], <<p, i>>)
             v == Powers(x, p, i)[m]
  <2>1. v \in Value
    BY PowersType
  <2>2. u \in Int /\ v \in Int
    BY <2>1, ModulusSize
  <2> HIDE DEF u, v
  <2>3. u * v \in Int
    BY <2>2
  <2>4. (u * v) % Modulus \in Value
    BY <2>3, ModType
  <2> QED BY <2>4 DEF u, v
<1> QED BY <1>1, LinesType DEF Terms

LEMMA SumSharesAre ==
    ASSUME NEW x \in Batches, NEW p \in Proc, NEW count,
           \A m \in Lines, i \in Lines : Times(count[m], <<p, i>>) \in Int
    PROVE  /\ SumShares(x, p, count) \in [Lines -> Value]
           /\ \A m \in Lines : SumShares(x, p, count)[m] = SumUp(Terms(x, p, count, m), Modulus)
<1> DEFINE row == [m \in Lines |-> SumUp(Terms(x, p, count, m), Modulus)]
<1>1. ASSUME NEW m \in Lines PROVE SumUp(Terms(x, p, count, m), Modulus) \in Value
  <2> DEFINE s == Terms(x, p, count, m)
  <2>1. s \in [1 .. K -> Value]
    BY TermsType
  <2> HIDE DEF s
  <2>2. s \in [1 .. K -> Int]
    BY <2>1, ModulusSize
  <2>3. SumUp(s, Modulus) \in Value
    BY <2>2, LinesType, SumUpType
  <2> QED BY <2>3 DEF s
<1>2. row \in [1 .. K -> Value]
  BY <1>1, LinesType
<1>3. SumShares(x, p, count) = Vec(row)
  BY DEF SumShares, Terms
<1>4. Vec(row) = row
  <2> HIDE DEF row
  <2> QED BY <1>2, LinesType, VecIs
<1> QED BY <1>2, <1>3, <1>4, LinesType

LEMMA JobsOf ==
    ASSUME NEW p \in Proc, NEW i \in Lines, NEW m \in Lines
    PROVE  Times(Once(p)[m], <<p, i>>) = 1
<1>1. <<p, i>> \in Job /\ FileOf[<<p, i>>] = p
  BY NodesAssumption
<1> QED BY <1>1 DEF Times, Once, SumOf

\* With all jobs in all files the parties hold shares of the power sums.
PowerSumsOf(x) == [m \in Lines |-> PowerSum(x.a, m, Modulus)]
AllSums(x)     == [q \in Proc |-> SumShares(x, q, Once(q))]

LEMMA SumsOfOnce ==
    ASSUME NEW x \in Batches
    PROVE  RowsShared(AllSums(x), PowerSumsOf(x), K)
<1>1. ASSUME NEW q \in Proc
      PROVE  /\ AllSums(x)[q] \in [Lines -> Value]
             /\ \A m \in Lines : AllSums(x)[q][m] = SumUp(Terms(x, q, Once(q), m), Modulus)
  <2>1. \A m \in Lines, i \in Lines : Times(Once(q)[m], <<q, i>>) \in Int
    BY JobsOf
  <2>2. /\ SumShares(x, q, Once(q)) \in [Lines -> Value]
        /\ \A m \in Lines : SumShares(x, q, Once(q))[m] = SumUp(Terms(x, q, Once(q), m), Modulus)
    <3> DEFINE c == Once(q)
    <3>1. \A m \in Lines, i \in Lines : Times(c[m], <<q, i>>) \in Int
      BY <2>1
    <3> HIDE DEF c
    <3>2. /\ SumShares(x, q, c) \in [Lines -> Value]
          /\ \A m \in Lines : SumShares(x, q, c)[m] = SumUp(Terms(x, q, c, m), Modulus)
      BY <3>1, SumSharesAre
    <3> QED BY <3>2 DEF c
  <2> QED BY <2>2 DEF AllSums
<1>2. ASSUME NEW q \in Proc, NEW m \in Lines
      PROVE  Terms(x, q, Once(q), m) = [i \in 1 .. K |-> Powers(x, q, i)[m]]
  <2>1. ASSUME NEW i \in Lines
        PROVE  (Times(Once(q)[m], <<q, i>>) * Powers(x, q, i)[m]) % Modulus = Powers(x, q, i)[m]
    <3> DEFINE v == Powers(x, q, i)[m]
    <3>1. v \in Value
      BY PowersType
    <3>2. Times(Once(q)[m], <<q, i>>) = 1
      BY JobsOf
    <3> HIDE DEF v
    <3>3. 1 * v = v
      BY <3>1, ModSmall
    <3>4. v % Modulus = v
      BY <3>1, ModSmall
    <3> QED BY <3>2, <3>3, <3>4 DEF v
  <2> QED BY <2>1, LinesType DEF Terms
<1>3. ASSUME NEW m \in Lines PROVE SharedAs(ColumnOf(AllSums(x), m), PowerSumsOf(x)[m])
  <2> DEFINE v == [q \in Proc |-> [i \in 1 .. K |-> Powers(x, q, i)[m]]]
             t == [i \in 1 .. K |-> Pow(x.a[i], m, Modulus)]
  <2>1. v \in [Proc -> [1 .. K -> Value]]
    BY PowersType, LinesType
  <2>2. t \in [1 .. K -> Value]
    BY BatchType, PowType, LinesType
  <2>3. ASSUME NEW i \in 1 .. K PROVE SharedAs(ColumnOf(v, i), t[i])
    <3> DEFINE w == [q \in Proc |-> Powers(x, q, i)]
    <3>1. i \in Lines
      BY LinesType
    <3>2. RowsShared(w, PowersOf(x, i), K)
      BY <3>1, PowersOfMessage
    <3>3. SharedAs(ColumnOf(w, m), PowersOf(x, i)[m])
      <4> HIDE DEF w
      <4> QED BY <3>2, LinesType DEF RowsShared
    <3>4. ColumnOf(w, m) = ColumnOf(v, i)
      BY DEF ColumnOf
    <3>5. PowersOf(x, i)[m] = t[i]
      BY DEF PowersOf
    <3> HIDE DEF w, v, t
    <3> QED BY <3>3, <3>4, <3>5
  <2>4. RowsShared(v, t, K)
    <3> HIDE DEF v, t
    <3> QED BY <2>1, <2>2, <2>3 DEF RowsShared
  <2>5. SharedAs(SumsOf(v), SumUp(t, Modulus))
    <3> HIDE DEF v, t
    <3> QED BY <2>4, LinesType, SumsShared
  <2>6. SumsOf(v) = ColumnOf(AllSums(x), m)
    <3>1. ASSUME NEW q \in Proc PROVE SumUp(v[q], Modulus) = AllSums(x)[q][m]
      <4>1. v[q] = Terms(x, q, Once(q), m)
        BY <1>2
      <4>2. AllSums(x)[q][m] = SumUp(Terms(x, q, Once(q), m), Modulus)
        BY <1>1
      <4> HIDE DEF v
      <4> QED BY <4>1, <4>2
    <3> HIDE DEF v
    <3> QED BY <3>1 DEF SumsOf, ColumnOf
  <2>7. SumUp(t, Modulus) = PowerSumsOf(x)[m]
    BY BatchType, LinesType DEF PowerSumsOf, PowerSum
  <2> HIDE DEF v, t
  <2> QED BY <2>5, <2>6, <2>7
<1>4. AllSums(x) \in [Proc -> [1 .. K -> Value]]
  <2>1. AllSums(x) = [q \in Proc |-> AllSums(x)[q]]
    BY DEF AllSums
  <2> QED BY <1>1, <2>1, LinesType
<1>5. PowerSumsOf(x) \in [1 .. K -> Value]
  <2>1. PowerSumsOf(x) = [m \in Lines |-> PowerSumsOf(x)[m]]
    BY DEF PowerSumsOf
  <2>2. ASSUME NEW m \in Lines PROVE PowerSumsOf(x)[m] \in Value
    BY <1>3, SharedType
  <2> QED BY <2>1, <2>2, LinesType
<1> QED BY <1>3, <1>4, <1>5, LinesType DEF RowsShared

-----------------------------------------------------------------------------
(* Chunks of shares. *)

\* The shares of chunk b, with zeros after the last one.
ChunkRow(shares, b) == [j \in 1 .. Degree + 1 |-> Coeff(shares, (b - 1) * (Degree + 1) + j - 1)]

LEMMA DegreeType ==
    /\ Degree + 1 \in Nat /\ Degree + 1 > 0 /\ Degree \in Nat
    /\ \A b \in Chunk : b - 1 \in Nat
    /\ \A b \in Chunk, j \in 1 .. Degree + 1 : (b - 1) * (Degree + 1) + j - 1 \in Nat
<1>1. T \in Nat /\ Chunks \in Nat
  BY PartiesAssumption
<1>2. Degree + 1 \in Nat /\ Degree + 1 > 0 /\ Degree \in Nat
  BY <1>1 DEF Degree
<1>3. \A b \in Chunk : b - 1 \in Nat
  BY <1>1 DEF Chunk
<1>4. ASSUME NEW b \in Chunk, NEW j \in 1 .. Degree + 1 PROVE (b - 1) * (Degree + 1) + j - 1 \in Nat
  <2> DEFINE c == b - 1
             e == Degree + 1
  <2>1. c \in Nat /\ e \in Nat /\ j \in Nat /\ j >= 1
    BY <1>2, <1>3
  <2> HIDE DEF c, e
  <2>2. c * e \in Nat
    BY <2>1
  <2>3. c * e + j - 1 \in Nat
    BY <2>1, <2>2
  <2> QED BY <2>3 DEF c, e
<1> QED BY <1>2, <1>3, <1>4

\* The element at k, or zero after the end.
LEMMA CoeffIs ==
    ASSUME NEW X, NEW s \in [1 .. K -> X], NEW k \in Nat
    PROVE  Coeff(s, k) = IF k < K THEN s[k + 1] ELSE 0
<1>1. Len(s) = K
  BY LinesType, Vectors
<1> QED BY <1>1 DEF Coeff

LEMMA ChunkRowType ==
    ASSUME NEW s \in [1 .. K -> Value], NEW b \in Chunk
    PROVE  ChunkRow(s, b) \in [1 .. Degree + 1 -> Value]
<1>1. ASSUME NEW k \in Nat PROVE Coeff(s, k) \in Value
  <2>1. k < K => s[k + 1] \in Value
    <3>1. k < K => k + 1 \in 1 .. K
      BY LinesType
    <3> QED BY <3>1
  <2>2. Coeff(s, k) = IF k < K THEN s[k + 1] ELSE 0
    BY CoeffIs
  <2>3. 0 \in Value
    BY ModulusSize
  <2> QED BY <2>1, <2>2, <2>3
<1>2. ASSUME NEW j \in 1 .. Degree + 1 PROVE Coeff(s, (b - 1) * (Degree + 1) + j - 1) \in Value
  BY <1>1, DegreeType
<1> QED BY <1>2 DEF ChunkRow

ChunksOf(v, b) == [q \in Proc |-> ChunkRow(v[q], b)]

\* Chunks of shares are shares of the chunk of the secrets.
LEMMA ChunkShared ==
    ASSUME NEW v, NEW t, RowsShared(v, t, K), NEW b \in Chunk
    PROVE  RowsShared(ChunksOf(v, b), ChunkRow(t, b), Degree + 1)
<1>1. v \in [Proc -> [1 .. K -> Value]] /\ t \in [1 .. K -> Value]
  BY DEF RowsShared
<1>2. ChunksOf(v, b) \in [Proc -> [1 .. Degree + 1 -> Value]]
  BY <1>1, ChunkRowType DEF ChunksOf
<1>3. ChunkRow(t, b) \in [1 .. Degree + 1 -> Value]
  BY <1>1, ChunkRowType
<1>4. ASSUME NEW j \in 1 .. Degree + 1
      PROVE  SharedAs(ColumnOf(ChunksOf(v, b), j), ChunkRow(t, b)[j])
  <2> DEFINE k == (b - 1) * (Degree + 1) + j - 1
  <2>1. k \in Nat
    BY DegreeType
  <2>2. ChunkRow(t, b)[j] = Coeff(t, k)
    BY DEF ChunkRow
  <2>3. ColumnOf(ChunksOf(v, b), j) = [q \in Proc |-> Coeff(v[q], k)]
    BY DEF ColumnOf, ChunksOf, ChunkRow
  <2> HIDE DEF k
  <2>4. Coeff(t, k) = IF k < K THEN t[k + 1] ELSE 0
    BY <1>1, <2>1, CoeffIs
  <2>5. ASSUME NEW q \in Proc PROVE Coeff(v[q], k) = IF k < K THEN v[q][k + 1] ELSE 0
    <3>1. v[q] \in [1 .. K -> Value]
      BY <1>1
    <3> QED BY <2>1, <3>1, CoeffIs
  <2>6. CASE k < K
    <3>1. k + 1 \in 1 .. K
      BY <2>1, <2>6, LinesType
    <3>2. ColumnOf(ChunksOf(v, b), j) = ColumnOf(v, k + 1)
      BY <2>3, <2>5, <2>6 DEF ColumnOf
    <3>3. SharedAs(ColumnOf(v, k + 1), t[k + 1])
      BY <3>1 DEF RowsShared
    <3> QED BY <2>2, <2>4, <2>6, <3>2, <3>3
  <2>7. CASE ~(k < K)
    <3>1. ColumnOf(ChunksOf(v, b), j) = Constantly(0)
      BY <2>3, <2>5, <2>7 DEF Constantly
    <3>2. SharedAs(Constantly(0), 0)
      BY ConstantShared, ModulusSize
    <3> QED BY <2>2, <2>4, <2>7, <3>1, <3>2
  <2> QED BY <2>6, <2>7
<1> QED BY <1>2, <1>3, <1>4 DEF RowsShared

LEMMA EncodeIs ==
    ASSUME NEW shares, NEW r, NEW b \in Chunk
    PROVE  Encode(shares, r)[b] = PolyEval(ChunkRow(shares, b), Point(r), Modulus)
  BY DEF Encode, ChunkRow

\* What a node sends is a message for any shares it has.
LEMMA EncodeType ==
    ASSUME NEW s \in [Lines -> Value], NEW r \in Proc PROVE Encode(s, r) \in Message
<1>1. ASSUME NEW b \in Chunk PROVE Encode(s, r)[b] \in Value
  <2> DEFINE f == ChunkRow(s, b)
  <2>1. f \in [1 .. Degree + 1 -> Value]
    BY ChunkRowType, LinesType
  <2> HIDE DEF f
  <2>2. f \in [1 .. Degree + 1 -> Int] /\ Point(r) \in Int
    BY <2>1, ModulusSize, PointType
  <2>3. PolyEval(f, Point(r), Modulus) \in Value
    BY <2>2, DegreeType, PolyEvalType
  <2> QED BY <2>3, EncodeIs DEF f
<1>2. Encode(s, r) = [b \in Chunk |-> Encode(s, r)[b]]
  BY DEF Encode
<1> QED BY <1>1, <1>2 DEF Message

-----------------------------------------------------------------------------
(* The right words are words of the code, and their coefficients the power sums. *)

LEMMA RightWordsAre ==
    ASSUME NEW x \in Batches
    PROVE  /\ RightWords(x) \in Words
           /\ \A p \in Proc, b \in Chunk, q \in Proc :
                 RightWords(x).r1[p][b][q] = Encode(AllSums(x)[q], p)[b]
           /\ \A b \in Chunk : RightWords(x).r2[b] = WordOf(ChunkRow(PowerSumsOf(x), b))
<1> DEFINE W == RightWords(x)
           v == AllSums(x)
           t == PowerSumsOf(x)
           f(b) == ChunkRow(t, b)
<1>1. /\ W = [r1 |-> W.r1, r2 |-> W.r2]
      /\ W.r1 = [p \in Proc |-> [b \in Chunk |-> [q \in Proc |-> Encode(v[q], p)[b]]]]
      /\ W.r2 = [b \in Chunk |-> [p \in Proc |-> AtZero[W.r1[p][b]]]]
  BY DEF RightWords, AllSums
<1>2. RowsShared(v, t, K)
  BY SumsOfOnce
<1> HIDE DEF W, v, t
<1>3. ASSUME NEW p \in Proc, NEW b \in Chunk
      PROVE  SharedAs(W.r1[p][b], PolyEval(f(b), Point(p), Modulus))
  <2>1. RowsShared(ChunksOf(v, b), ChunkRow(t, b), Degree + 1)
    BY <1>2, ChunkShared
  <2>2. SharedAs(ValuesOf(ChunksOf(v, b), Point(p)), PolyEval(ChunkRow(t, b), Point(p), Modulus))
    BY <2>1, DegreeType, PointType, ValuesShared
  <2>3. W.r1[p][b] = ValuesOf(ChunksOf(v, b), Point(p))
    BY <1>1, EncodeIs DEF ValuesOf, ChunksOf
  <2> QED BY <2>2, <2>3
<1>4. ASSUME NEW b \in Chunk
      PROVE  W.r2[b] = WordOf(f(b)) /\ f(b) \in Polynomials /\ WordOf(f(b)) \in Code
  <2>1. \A p \in Proc : AtZero[W.r1[p][b]] = PolyEval(f(b), Point(p), Modulus)
    BY <1>3 DEF SharedAs
  <2>2. W.r2[b] = WordOf(f(b))
    BY <1>1, <2>1 DEF WordOf
  <2>3. f(b) \in Polynomials
    BY <1>2, ChunkRowType DEF RowsShared, Polynomials
  <2> HIDE DEF f
  <2>4. WordOf(f(b)) \in Code
    BY <2>3, PolynomialShared DEF SharedAs
  <2> QED BY <2>2, <2>3, <2>4
<1>5. W \in Words
  <2>1. W.r1 \in [Proc -> [Chunk -> Code]]
    <3>1. \A p \in Proc, b \in Chunk : W.r1[p][b] \in Code
      BY <1>3 DEF SharedAs
    <3>2. W.r1 = [p \in Proc |-> [b \in Chunk |-> W.r1[p][b]]]
      BY <1>1
    <3> QED BY <3>1, <3>2
  <2>2. W.r2 \in [Chunk -> Code]
    <3>1. \A b \in Chunk : W.r2[b] \in Code
      BY <1>4
    <3>2. W.r2 = [b \in Chunk |-> W.r2[b]]
      BY <1>1
    <3> QED BY <3>1, <3>2
  <2>3. \A p \in Proc, b \in Chunk : W.r2[b][p] = AtZero[W.r1[p][b]]
    <3>1. ASSUME NEW p \in Proc, NEW b \in Chunk PROVE W.r2[b][p] = AtZero[W.r1[p][b]]
      <4>1. W.r2[b] = [q \in Proc |-> AtZero[W.r1[q][b]]]
        BY <1>1
      <4> QED BY <4>1
    <3> QED BY <3>1
  <2>4. W \in [r1 : [Proc -> [Chunk -> Code]], r2 : [Chunk -> Code]]
    BY <1>1, <2>1, <2>2
  <2> QED BY <2>3, <2>4 DEF Words
<1>6. \A p \in Proc, b \in Chunk, q \in Proc : W.r1[p][b][q] = Encode(v[q], p)[b]
  BY <1>1
<1> QED BY <1>4, <1>5, <1>6 DEF W, v, t

\* Position m lies in chunk (m - 1) \div e + 1.
LEMMA PositionOf ==
    ASSUME NEW e \in Nat, e > 0, NEW c \in Nat, NEW k \in Nat, k < c * e
    PROVE  /\ (k \div e) + 1 \in 1 .. c
           /\ (k % e) + 1 \in 1 .. e
           /\ (k \div e) * e + (k % e) = k
<1> DEFINE u == k \div e
           r == k % e
<1>1. u \in Int /\ r \in 0 .. e - 1 /\ k = e * u + r
  OBVIOUS
<1> HIDE DEF u, r
<1>2. u >= 0
  <2>1. SUFFICES ASSUME u <= -1 PROVE FALSE
    BY <1>1
  <2>2. e * u <= e * (-1)
    BY <1>1, <2>1
  <2>3. e * (-1) = -e /\ e * u \in Int
    BY <1>1
  <2> QED BY <1>1, <2>2, <2>3
<1>3. u < c
  <2>1. SUFFICES ASSUME u >= c PROVE FALSE
    BY <1>1
  <2>2. e * u >= e * c
    BY <1>1, <2>1
  <2>3. e * c = c * e /\ e * u \in Int /\ c * e \in Int
    BY <1>1
  <2> QED BY <1>1, <2>2, <2>3
<1>4. u * e = e * u
  BY <1>1
<1>5. u + 1 \in 1 .. c /\ r + 1 \in 1 .. e /\ u * e + r = k
  BY <1>1, <1>2, <1>3, <1>4
<1> QED BY <1>5 DEF u, r

\* What everybody opens is the list of the power sums of the messages.
LEMMA FlattenIs == ASSUME NEW x \in Batches PROVE Flatten(RightWords(x).r2) = PowerSumsOf(x)
<1> DEFINE w == RightWords(x).r2
           t == PowerSumsOf(x)
           coeffs == [b \in Chunk |-> CoeffsOf(w[b])]
           e == Degree + 1
<1>1. t \in [1 .. K -> Value]
  BY SumsOfOnce DEF RowsShared
<1>2. ASSUME NEW b \in Chunk PROVE coeffs[b] = ChunkRow(t, b)
  <2> DEFINE f == ChunkRow(t, b)
  <2>1. f \in Polynomials
    <3> HIDE DEF t
    <3> QED BY <1>1, ChunkRowType DEF Polynomials
  <2>2. w[b] = WordOf(f)
    BY RightWordsAre
  <2> HIDE DEF f, w
  <2>3. CoeffsOf(WordOf(f)) = f
    BY <2>1, PolynomialAssumption
  <2> QED BY <2>2, <2>3 DEF f
<1> HIDE DEF w, t
<1>3. ASSUME NEW m \in Lines PROVE coeffs[((m - 1) \div e) + 1][((m - 1) % e) + 1] = t[m]
  <2> DEFINE b == ((m - 1) \div e) + 1
             j == ((m - 1) % e) + 1
             k == m - 1
  <2>1. k \in Nat /\ k < K /\ k + 1 = m /\ e \in Nat /\ e > 0 /\ Chunks \in Nat
    BY LinesType, DegreeType, PartiesAssumption
  <2>2. k < Chunks * e
    <3>1. K <= Chunks * e
      BY NodesAssumption
    <3>2. Chunks * e \in Int
      BY <2>1
    <3> QED BY <2>1, <3>1, <3>2, LinesType
  <2>3. /\ b \in 1 .. Chunks /\ j \in 1 .. e
        /\ (k \div e) * e + (k % e) = k
    <3> HIDE DEF e
    <3>1. /\ (k \div e) + 1 \in 1 .. Chunks /\ (k % e) + 1 \in 1 .. e
          /\ (k \div e) * e + (k % e) = k
      <4> HIDE DEF k
      <4> QED BY <2>1, <2>2, PositionOf
    <3> QED BY <3>1
  <2>4. (b - 1) * e + j - 1 = k
    <3> DEFINE u == k \div e
               r == k % e
    <3>1. u \in Int /\ r \in Int /\ b = u + 1 /\ j = r + 1 /\ u * e + r = k
      BY <2>1, <2>3
    <3> HIDE DEF u, r, b, j, k, e
    <3>2. b - 1 = u /\ j - 1 = r
      BY <3>1
    <3>3. u * e \in Int
      BY <2>1, <3>1
    <3>4. (b - 1) * e + j - 1 = u * e + j - 1
      BY <3>2
    <3> QED BY <3>1, <3>3, <3>4
  <2>5. coeffs[b][j] = Coeff(t, k)
    <3>1. b \in Chunk
      BY <2>3 DEF Chunk
    <3>2. ChunkRow(t, b)[j] = Coeff(t, (b - 1) * e + j - 1)
      <4> HIDE DEF b, j
      <4> QED BY <2>3 DEF ChunkRow
    <3> HIDE DEF coeffs, b, j, k, e
    <3> QED BY <1>2, <2>4, <3>1, <3>2
  <2>6. Coeff(t, k) = t[m]
    <3> HIDE DEF k
    <3> QED BY <1>1, <2>1, CoeffIs
  <2> QED BY <2>5, <2>6
<1>4. t = [m \in Lines |-> t[m]]
  BY DEF t, PowerSumsOf
<1>5. Flatten(w) = [m \in Lines |-> coeffs[((m - 1) \div e) + 1][((m - 1) % e) + 1]]
  BY DEF Flatten
<1>6. Flatten(w) = t
  <2> HIDE DEF coeffs, e
  <2> QED BY <1>3, <1>4, <1>5
<1> QED BY <1>6 DEF w, t

-----------------------------------------------------------------------------
(* The files of sums. *)

USE DEF Lines

\* A job that is not in S, counted once more.
LEMMA PlusOne ==
    ASSUME NEW S, NEW q \in Job, q \notin S
    PROVE  Plus(SumOf({q}), SumOf(S)) = SumOf(S \cup {q})
  BY DEF Plus, Times, SumOf

LEMMA SumTyped == ASSUME NEW S \in SUBSET Job PROVE SumOf(S) \in Sums /\ SumOf(S) # Nil
<1>1. SumOf(S) \in [S -> Nat]
  BY DEF SumOf
<1> QED BY <1>1, JobAssumption DEF Sums

-----------------------------------------------------------------------------
LEMMA FilesInvInit == FilesInit => FilesInv
<1> SUFFICES ASSUME FilesInit PROVE FilesInv
  OBVIOUS
<1> USE DEF FilesInit
<1>1. FilesTypeOK
  BY LineAssumption, SumTyped DEF FilesTypeOK, NoFile, OwnPowers
<1>2. LockHeld
  BY JobAssumption DEF LockHeld
<1>3. NoLostUpdate
  BY DEF NoLostUpdate, Writing, Contributed, NoFile, LineIs
<1>4. OwnSums
  BY DEF OwnSums
<1> QED BY <1>1, <1>2, <1>3, <1>4 DEF FilesInv

\* A process that moves while it is neither writing nor done, before or after, leaves
\* the sets of writers and of contributors alone, and with them the claims on files.
LEMMA QuietStep ==
    ASSUME FilesInv, NEW q \in Job, NEW to \in {"running", "locked", "failed"},
           pc[q] \in {"queued", "running", "locked"}, pc' = [pc EXCEPT ![q] = to],
           UNCHANGED <<file, apows, line>>
    PROVE  NoLostUpdate' /\ OwnSums'
<1>1. \A r \in Job : /\ pc'[r] = "writing" <=> pc[r] = "writing"
                     /\ pc'[r] = "done" <=> pc[r] = "done"
  BY DEF FilesInv, FilesTypeOK
<1>2. \A f : Writing(f)' = Writing(f) /\ Contributed(f)' = Contributed(f)
  BY <1>1 DEF Writing, Contributed
<1>3. NoLostUpdate'
  BY <1>2 DEF FilesInv, NoLostUpdate, LineIs
<1>4. OwnSums'
  BY <1>1, <1>2 DEF FilesInv, OwnSums
<1> QED BY <1>3, <1>4

LEMMA StartJobKeeps == ASSUME FilesInv, NEW q \in Job, StartJob(q) PROVE FilesInv'
<1> USE DEF StartJob
<1>1. FilesTypeOK'
  BY DEF FilesInv, FilesTypeOK
<1>2. LockHeld'
  BY DEF FilesInv, FilesTypeOK, LockHeld
<1>3. NoLostUpdate' /\ OwnSums'
  BY QuietStep
<1> QED BY <1>1, <1>2, <1>3 DEF FilesInv

LEMMA AcquireLockKeeps == ASSUME FilesInv, NEW q \in Job, AcquireLock(q) PROVE FilesInv'
<1> USE DEF AcquireLock
<1>1. FilesTypeOK'
  BY DEF FilesInv, FilesTypeOK
<1>2. LockHeld'
  BY JobAssumption DEF FilesInv, FilesTypeOK, LockHeld
<1>3. NoLostUpdate' /\ OwnSums'
  BY QuietStep
<1> QED BY <1>1, <1>2, <1>3 DEF FilesInv

LEMMA FailToLockKeeps == ASSUME FilesInv, NEW q \in Job, FailToLock(q) PROVE FilesInv'
<1> USE DEF FailToLock
<1>1. FilesTypeOK'
  BY DEF FilesInv, FilesTypeOK
<1>2. LockHeld'
  BY DEF FilesInv, FilesTypeOK, LockHeld
<1>3. NoLostUpdate' /\ OwnSums'
  BY QuietStep
<1> QED BY <1>1, <1>2, <1>3 DEF FilesInv

-----------------------------------------------------------------------------
\* A process that is still in a file excludes all others from all files.
LEMMA Alone ==
    ASSUME FilesInv, NEW q \in Job, pc[q] \in {"locked", "writing"}
    PROVE  /\ lock = q
           /\ \A g : Writing(g) = IF pc[q] = "writing" /\ g = FileOf[q] THEN {q} ELSE {}
           /\ q \notin Contributed(FileOf[q])
  BY DEF FilesInv, LockHeld, Writing, Contributed

\* The process that opens a file finds it absent or whole, and its sums become those
\* of all that are done and its own.
LEMMA OpenSumsKeeps == ASSUME FilesInv, NEW q \in Job, OpenSums(q) PROVE FilesInv'
<1> DEFINE f == FileOf[q]
<1>1. f \in File /\ pc[q] = "locked" /\ line' = line /\ line[q] = 0
  BY JobAssumption DEF FilesInv, OwnSums, OpenSums
<1>2. /\ lock = q
      /\ \A g : Writing(g) = {}
      /\ q \notin Contributed(f)
  BY <1>1, Alone
<1>3. /\ file[f].exists <=> Contributed(f) # {}
      /\ file[f].head <=> Contributed(f) # {}
      /\ \A i \in Lines : LineIs(f, i, Contributed(f))
  BY <1>1, <1>2 DEF FilesInv, NoLostUpdate
<1>4. file[f].exists => Whole(f)
  <2>1. Contributed(f) \subseteq Job
    BY DEF Contributed
  <2> QED BY <2>1, <1>3, SumTyped DEF LineIs, Whole
<1>5. /\ pc' = [pc EXCEPT ![q] = "writing"]
      /\ lock' = lock
      /\ file' = IF file[f].exists THEN file ELSE [file EXCEPT ![f] = EmptyFile]
      /\ apows' = IF ~file[f].exists THEN apows
                  ELSE [apows EXCEPT ![q] = [i \in Lines |-> Plus(@[i], file[f].sums[i])]]
  BY <1>4 DEF OpenSums
<1>6. \A g : /\ Writing(g)' = IF g = f THEN {q} ELSE {}
             /\ Contributed(g)' = Contributed(g)
  BY <1>1, <1>2, <1>5 DEF FilesInv, FilesTypeOK, Writing, Contributed
<1>7. apows'[q] = [i \in Lines |-> SumOf(Contributed(f) \cup {q})]
  <2>1. apows[q] = [i \in Lines |-> SumOf({q})]
    BY <1>1 DEF FilesInv, OwnSums, OwnPowers
  <2>2. CASE ~file[f].exists
    BY <2>1, <2>2, <1>3, <1>5
  <2>3. CASE file[f].exists
    <3>1. apows'[q] = [i \in Lines |-> Plus(SumOf({q}), SumOf(Contributed(f)))]
      BY <2>1, <2>3, <1>3, <1>5 DEF LineIs, FilesInv, FilesTypeOK
    <3> QED BY <3>1, <1>2, PlusOne
  <2> QED BY <2>2, <2>3
<1>8. FilesTypeOK'
  <2>1. apows' \in [Job -> [Lines -> Sums]]
    <3>1. SumOf(Contributed(f) \cup {q}) \in Sums
      BY SumTyped DEF Contributed
    <3> QED BY <3>1, <1>5, <1>7, ZenonT(60) DEF FilesInv, FilesTypeOK
  <2>2. file' \in [File -> [exists : BOOLEAN, head : BOOLEAN, sums : [Lines -> Sums \cup {Nil}]]]
    BY <1>5 DEF FilesInv, FilesTypeOK, EmptyFile
  <2> QED BY <2>1, <2>2, <1>1, <1>5 DEF FilesInv, FilesTypeOK
<1>9. LockHeld'
  BY <1>1, <1>5 DEF FilesInv, FilesTypeOK, LockHeld
<1>10. NoLostUpdate'
  <2>1. ASSUME NEW g \in File, g # f
        PROVE  /\ file'[g] = file[g] /\ Writing(g) = {} /\ Writing(g)' = {}
               /\ Contributed(g)' = Contributed(g)
    BY <2>1, <1>2, <1>5, <1>6 DEF FilesInv, FilesTypeOK
  <2>2. /\ file'[f].exists
        /\ file'[f].head <=> Contributed(f) # {}
        /\ \A i \in Lines : LineIs(f, i, Contributed(f))'
    BY <1>1, <1>3, <1>5, <1>6 DEF FilesInv, FilesTypeOK, LineIs, EmptyFile
  <2>3. \A i \in Lines : ~(i < line'[q])
    BY <1>1, LineAssumption
  <2> QED BY <2>1, <2>2, <2>3, <1>1, <1>6 DEF FilesInv, NoLostUpdate, LineIs
<1>11. OwnSums'
  BY <1>1, <1>2, <1>5, <1>6, <1>7 DEF FilesInv, FilesTypeOK, OwnSums, LockHeld
<1> QED BY <1>8, <1>9, <1>10, <1>11 DEF FilesInv

\* The writer of a file moves the border between new and old lines by one.
LEMMA WriteLineKeeps == ASSUME FilesInv, NEW q \in Job, WriteLine(q) PROVE FilesInv'
<1> DEFINE f == FileOf[q]
           i == line[q]
<1>1. f \in File /\ pc[q] = "writing" /\ i \in 0 .. K /\ UNCHANGED <<pc, lock, apows>>
  <2>1. pc[q] = "writing" /\ line[q] <= K /\ UNCHANGED <<pc, lock, apows>>
    BY DEF WriteLine
  <2> QED BY <2>1, JobAssumption, LineAssumption DEF FilesInv, FilesTypeOK
<1>2. line' = [line EXCEPT ![q] = i + 1]
  BY DEF WriteLine
<1>3. file' = [file EXCEPT ![f] = IF i = 0 THEN [@ EXCEPT !.head = TRUE]
                                  ELSE [@ EXCEPT !.sums[i] = apows[q][i]]]
  BY DEF WriteLine
<1>4. \A g : Writing(g) = IF g = f THEN {q} ELSE {}
  BY <1>1, Alone
<1>5. \A g : Writing(g)' = Writing(g) /\ Contributed(g)' = Contributed(g)
  BY <1>1 DEF Writing, Contributed
<1>6. apows[q] = [j \in Lines |-> SumOf(Contributed(f) \cup {q})]
  BY <1>1 DEF FilesInv, OwnSums
<1>7. FilesTypeOK'
  <2>1. line' \in [Job -> 0 .. K + 1]
    BY <1>1, <1>2, LineAssumption DEF FilesInv, FilesTypeOK
  <2>2. file'[f] \in [exists : BOOLEAN, head : BOOLEAN, sums : [Lines -> Sums \cup {Nil}]]
    <3>1. /\ file[f] \in [exists : BOOLEAN, head : BOOLEAN, sums : [Lines -> Sums \cup {Nil}]]
          /\ file'[f] = IF i = 0 THEN [file[f] EXCEPT !.head = TRUE]
                        ELSE [file[f] EXCEPT !.sums[i] = apows[q][i]]
      BY <1>1, <1>3 DEF FilesInv, FilesTypeOK
    <3>2. CASE i = 0
      BY <3>1, <3>2
    <3>3. CASE i # 0
      <4>1. i \in Lines /\ apows[q][i] \in Sums
        <5>1. i \in Lines
          BY <3>3, <1>1, LineAssumption
        <5>2. apows \in [Job -> [Lines -> Sums]]
          BY DEF FilesInv, FilesTypeOK
        <5> QED BY <5>1, <5>2
      <4>2. /\ file'[f].exists = file[f].exists /\ file'[f].head = file[f].head
            /\ file'[f].sums = [file[f].sums EXCEPT ![i] = apows[q][i]]
            /\ file'[f] = [exists |-> file'[f].exists, head |-> file'[f].head, sums |-> file'[f].sums]
        BY <3>1, <3>3
      <4>3. file'[f].sums \in [Lines -> Sums \cup {Nil}]
        BY <4>1, <4>2, <3>1
      <4>4. file'[f].exists \in BOOLEAN /\ file'[f].head \in BOOLEAN
        BY <4>2, <3>1
      <4> QED BY <4>2, <4>3, <4>4
    <3> QED BY <3>2, <3>3
  <2>3. file' \in [File -> [exists : BOOLEAN, head : BOOLEAN, sums : [Lines -> Sums \cup {Nil}]]]
    BY <2>2, <1>3 DEF FilesInv, FilesTypeOK
  <2> QED BY <2>1, <2>3, <1>1 DEF FilesInv, FilesTypeOK
<1>8. LockHeld'
  BY <1>1 DEF FilesInv, LockHeld
<1>9. NoLostUpdate'
  <2>1. /\ file[f].exists
        /\ file[f].head <=> i > 0 \/ Contributed(f) # {}
        /\ \A j \in Lines : LineIs(f, j, IF j < i THEN Contributed(f) \cup {q} ELSE Contributed(f))
    BY <1>1, <1>4 DEF FilesInv, NoLostUpdate
  <2>2. /\ file'[f].exists
        /\ file'[f].head <=> i + 1 > 0 \/ Contributed(f) # {}
    BY <2>1, <1>1, <1>3, LineAssumption DEF FilesInv, FilesTypeOK
  <2>3. ASSUME NEW j \in Lines
        PROVE  file'[f].sums[j] =
                  IF j < i + 1 THEN SumOf(Contributed(f) \cup {q})
                  ELSE IF Contributed(f) = {} THEN Nil ELSE SumOf(Contributed(f))
    <3>1. CASE j = i
      <4>1. file'[f].sums[j] = SumOf(Contributed(f) \cup {q})
        BY <3>1, <1>1, <1>3, <1>6, LineAssumption DEF FilesInv, FilesTypeOK
      <4>2. j < i + 1
        BY <3>1, <1>1, LineAssumption
      <4> QED BY <4>1, <4>2
    <3>2. CASE j # i
      <4>1. file'[f].sums[j] = file[f].sums[j]
        BY <3>2, <1>1, <1>3 DEF FilesInv, FilesTypeOK
      <4>2. j < i + 1 <=> j < i
        BY <3>2, <1>1, LineAssumption
      <4>3. file[f].sums[j] =
               IF j < i THEN SumOf(Contributed(f) \cup {q})
               ELSE IF Contributed(f) = {} THEN Nil ELSE SumOf(Contributed(f))
        BY <2>1 DEF LineIs
      <4> QED BY <4>1, <4>2, <4>3
    <3> QED BY <3>1, <3>2
  <2>4. line'[q] = i + 1
    BY <1>2 DEF FilesInv, FilesTypeOK
  <2>5. ASSUME NEW g \in File, g # f PROVE file'[g] = file[g]
    BY <2>5, <1>3 DEF FilesInv, FilesTypeOK
  <2>6. ASSUME NEW g \in File, g # f
        PROVE  /\ file'[g].exists <=> Contributed(g)' # {}
               /\ file'[g].head <=> Contributed(g)' # {}
               /\ \A j \in Lines : LineIs(g, j, Contributed(g))'
    BY <2>5, <2>6, <1>4, <1>5 DEF FilesInv, NoLostUpdate, LineIs
  <2>7. ASSUME NEW r \in Writing(f)'
        PROVE  /\ file'[f].exists
               /\ file'[f].head <=> line'[r] > 0 \/ Contributed(f)' # {}
               /\ \A j \in Lines : LineIs(f, j, IF j < line[r] THEN Contributed(f) \cup {r}
                                                                ELSE Contributed(f))'
    <3>1. r = q
      BY <2>7, <1>4, <1>5
    <3> QED BY <3>1, <2>2, <2>3, <2>4, <1>5 DEF LineIs
  <2> QED BY <2>6, <2>7, <1>4, <1>5 DEF NoLostUpdate
<1>10. OwnSums'
  BY <1>1, <1>2, <1>5 DEF FilesInv, FilesTypeOK, OwnSums
<1> QED BY <1>7, <1>8, <1>9, <1>10 DEF FilesInv

\* When the writer leaves, all lines are new, and it has become a contributor.
LEMMA CloseSumsKeeps == ASSUME FilesInv, NEW q \in Job, CloseSums(q) PROVE FilesInv'
<1> DEFINE f == FileOf[q]
<1>1. /\ f \in File /\ pc[q] = "writing" /\ line[q] > K
      /\ pc' = [pc EXCEPT ![q] = "done"] /\ lock' = Nil /\ file' = file
      /\ apows' = [apows EXCEPT ![q] = OwnPowers(q)]
      /\ line' = [line EXCEPT ![q] = 0]
  BY JobAssumption DEF CloseSums
<1>2. /\ lock = q
      /\ \A g : Writing(g) = IF g = f THEN {q} ELSE {}
  BY <1>1, Alone
<1>3. \A g : /\ Writing(g)' = {}
             /\ Contributed(g)' = IF g = f THEN Contributed(f) \cup {q} ELSE Contributed(g)
  <2>1. \A r \in Job : /\ pc'[r] = "writing" <=> pc[r] = "writing" /\ r # q
                       /\ pc'[r] = "done" <=> pc[r] = "done" \/ r = q
    BY <1>1 DEF FilesInv, FilesTypeOK
  <2>2. \A g : Writing(g)' = Writing(g) \ {q}
    BY <2>1 DEF Writing
  <2>3. \A g : Contributed(g)' = IF g = f THEN Contributed(f) \cup {q} ELSE Contributed(g)
    BY <2>1 DEF Contributed
  <2> QED BY <2>2, <2>3, <1>2
<1>4. FilesTypeOK'
  <2>1. OwnPowers(q) \in [Lines -> Sums]
    BY SumTyped DEF OwnPowers
  <2>2. 0 \in 0 .. K + 1
    BY LineAssumption
  <2> QED BY <2>1, <2>2, <1>1 DEF FilesInv, FilesTypeOK
<1>5. LockHeld'
  BY <1>1, <1>2, JobAssumption DEF FilesInv, FilesTypeOK, LockHeld
<1>6. NoLostUpdate'
  <2>1. /\ file[f].exists
        /\ file[f].head <=> line[q] > 0 \/ Contributed(f) # {}
        /\ \A j \in Lines : LineIs(f, j, IF j < line[q] THEN Contributed(f) \cup {q} ELSE Contributed(f))
    BY <1>1, <1>2 DEF FilesInv, NoLostUpdate
  <2>2. line[q] > 0 /\ \A j \in Lines : j < line[q]
    BY <1>1, LineAssumption DEF FilesInv, FilesTypeOK
  <2>3. /\ file[f].exists /\ file[f].head
        /\ \A j \in Lines : LineIs(f, j, Contributed(f) \cup {q})
    BY <2>1, <2>2
  <2>4. ASSUME NEW g \in File, g # f
        PROVE  /\ file[g].exists <=> Contributed(g) # {}
               /\ file[g].head <=> Contributed(g) # {}
               /\ \A j \in Lines : LineIs(g, j, Contributed(g))
    BY <2>4, <1>2 DEF FilesInv, NoLostUpdate
  <2> QED BY <2>3, <2>4, <1>1, <1>3 DEF NoLostUpdate, LineIs
<1>7. OwnSums'
  <2>1. \A r \in Job : pc'[r] # "writing"
    BY <1>1, <1>2 DEF FilesInv, FilesTypeOK, LockHeld
  <2>2. \A r \in Job : line'[r] = 0 /\ apows'[r] = OwnPowers(r)
    BY <1>1, <1>2 DEF FilesInv, FilesTypeOK, LockHeld, OwnSums
  <2> QED BY <2>1, <2>2 DEF OwnSums
<1> QED BY <1>4, <1>5, <1>6, <1>7 DEF FilesInv

-----------------------------------------------------------------------------
\* What holds of the files holds as long as they stay as they are.
LEMMA FilesKept ==
    ASSUME FilesInv, UNCHANGED filesVars
    PROVE  FilesInv' /\ AllEnded' = AllEnded
<1>1. UNCHANGED <<pc, lock, file, apows, line>>
  BY DEF filesVars
<1>2. \A f : Writing(f)' = Writing(f) /\ Contributed(f)' = Contributed(f)
  BY <1>1 DEF Writing, Contributed
<1>3. FilesTypeOK' /\ LockHeld'
  BY <1>1 DEF FilesInv, FilesTypeOK, LockHeld
<1>4. NoLostUpdate'
  BY <1>1, <1>2 DEF FilesInv, NoLostUpdate, LineIs
<1>5. OwnSums'
  BY <1>1, <1>2 DEF FilesInv, OwnSums
<1>6. AllEnded' = AllEnded
  BY <1>1 DEF AllEnded, Ended
<1> QED BY <1>3, <1>4, <1>5, <1>6 DEF FilesInv

\* Every reachable state satisfies the invariant: types, the lock, the files and the
\* sums that each process is about to write (compute-power-sums.cpp).
THEOREM FilesInvariant == FilesSpec => []FilesInv
<1>1. FilesInv /\ [FilesNext]_filesVars => FilesInv'
  <2> SUFFICES ASSUME FilesInv, [FilesNext]_filesVars PROVE FilesInv'
    OBVIOUS
  <2>1. ASSUME NEW q \in Job, JobStep(q) PROVE FilesInv'
    BY <2>1, StartJobKeeps, AcquireLockKeeps, FailToLockKeeps, OpenSumsKeeps,
       WriteLineKeeps, CloseSumsKeeps DEF JobStep
  <2>2. ASSUME UNCHANGED filesVars PROVE FilesInv'
    BY <2>2, FilesKept
  <2> QED BY <2>1, <2>2 DEF FilesNext
<1> QED BY <1>1, FilesInvInit, PTL DEF FilesSpec

\* No process's powers are lost or counted twice in a file of sums, whatever the order
\* in which the processes of one or several nodes run (writePowersToFile).
THEOREM NoLostUpdateHolds == FilesSpec => []NoLostUpdate
<1>1. FilesInv => NoLostUpdate
  BY DEF FilesInv
<1> QED BY <1>1, FilesInvariant, PTL

HIDE DEF Lines

-----------------------------------------------------------------------------
(* The phases together. *)

\* Nodes one of whose processes may fail.
Failable == {FileOf[q] : q \in MayFail}

\* A node has failed processes only if it is misled, and no other node is.
MisledOK == /\ misled \subseteq Failable
            /\ \A q \in Job : pc[q] = "failed" => FileOf[q] \in misled

Solution(x) == SolvePython(PowerSumsOf(x), Modulus)

MixingInv ==
    /\ FilesInv /\ OpenInv
    /\ batch \in Batches /\ words = RightWords(batch)
    /\ faulty \in FaultySets /\ MisledOK
    /\ \A p \in Proc : stage[p] # "idle" => AllEnded
    /\ mixed \in [Proc -> {None, Solution(batch)}]

\* Each job is that of one node and one message.
LEMMA NodesOfJobs ==
    /\ \A q \in Job : FileOf[q] \in Proc /\ \E i \in Lines : q = <<FileOf[q], i>>
    /\ \A p \in Proc, i \in Lines : <<p, i>> \in Job /\ FileOf[<<p, i>>] = p
    /\ File = Proc
<1>1. Job = Proc \X Lines /\ \A q \in Job : FileOf[q] = q[1]
  BY NodesAssumption
<1>2. File = Proc
  BY NodesAssumption
<1>3. ASSUME NEW q \in Job PROVE FileOf[q] \in Proc /\ \E i \in Lines : q = <<FileOf[q], i>>
  <2>1. q = <<q[1], q[2]>> /\ q[1] \in Proc /\ q[2] \in Lines
    BY <1>1
  <2> QED BY <1>1, <2>1
<1>4. ASSUME NEW p \in Proc, NEW i \in Lines PROVE <<p, i>> \in Job /\ FileOf[<<p, i>>] = p
  BY <1>1
<1> QED BY <1>2, <1>3, <1>4

\* At most T parties lie or have lost a process.
LEMMA FewWrong ==
    ASSUME NEW fs \in FaultySets, NEW ms \in SUBSET Failable
    PROVE  fs \in SUBSET Proc /\ ms \in SUBSET Proc /\ Cardinality(fs \cup ms) <= T
<1>1. Failable \subseteq Proc
  BY JobAssumption, NodesOfJobs DEF Failable
<1>2. fs \subseteq Proc /\ Cardinality(fs \cup Failable) <= T
  BY InputAssumption DEF Failable
<1>3. Cardinality(fs \cup ms) <= Cardinality(fs \cup Failable)
  BY <1>1, <1>2, SizeMonotone
<1>4. /\ Cardinality(fs \cup ms) \in Nat
      /\ Cardinality(fs \cup Failable) \in Nat /\ T \in Nat
  BY <1>1, <1>2, Sizes, Bounds
<1> QED BY <1>1, <1>2, <1>3, <1>4

LEMMA MixingInvInit == Init => MixingInv
<1> SUFFICES ASSUME Init PROVE MixingInv
  OBVIOUS
<1> USE DEF Init
<1>1. FilesInv
  BY FilesInvInit
<1>2. misled = {} /\ misled \subseteq Failable
  OBVIOUS
<1>3. faulty \in SUBSET Proc /\ misled \in SUBSET Proc /\ Cardinality(faulty \cup misled) <= T
  BY <1>2, FewWrong
<1>4. OpenInit
  BY <1>3, RightWordsAre DEF OpenInit
<1>5. OpenInv
  BY <1>4, OpenInvInit
<1>6. MisledOK
  BY <1>2 DEF MisledOK, FilesInit
<1>7. \A p \in Proc : stage[p] # "idle" => AllEnded
  BY DEF OpenStart
<1> QED BY <1>1, <1>5, <1>6, <1>7 DEF MixingInv

-----------------------------------------------------------------------------
(* Phase 2. *)

\* As long as a process runs nobody has called open.
LEMMA IdleKeeps ==
    ASSUME OpenInv, \A p \in Proc : stage[p] = "idle",
           faulty \in SUBSET Proc, misled' \in SUBSET Proc, Cardinality(faulty \cup misled') <= T,
           UNCHANGED <<stage, first, second, dec, opened, faulty, words>>
    PROVE  OpenInv'
<1>1. OpenTypeOK'
  BY DEF OpenInv, OpenTypeOK
<1>2. MessagesOK'
  BY DEF OpenInv, StagesOK, MessagesOK, RightFirst, RightSecond
<1>3. StagesOK'
  <2>1. Callers' = Callers
    BY DEF Callers
  <2> QED BY <2>1 DEF OpenInv, StagesOK
<1>4. DecodersOK'
  BY DEF OpenInv, DecodersOK, Word, Wrong
<1> QED BY <1>1, <1>2, <1>3, <1>4 DEF OpenInv

\* The process that opens a file finds it whole and does not abort.
LEMMA OpeningGoesOn == ASSUME FilesInv, NEW q \in Job, OpenSums(q) PROVE pc' = [pc EXCEPT ![q] = "writing"]
<1> DEFINE f == FileOf[q]
<1>1. f \in File /\ pc[q] = "locked"
  BY JobAssumption DEF OpenSums
<1>2. \A g : Writing(g) = {}
  BY <1>1, Alone
<1>3. file[f].head = (Contributed(f) # {}) /\ file[f].exists = (Contributed(f) # {})
  BY <1>1, <1>2 DEF FilesInv, NoLostUpdate, FilesTypeOK
<1>4. file[f].exists => Whole(f)
  <2>1. Contributed(f) \subseteq Job
    BY DEF Contributed
  <2>2. \A i \in Lines : LineIs(f, i, Contributed(f))
    BY <1>1, <1>2 DEF FilesInv, NoLostUpdate
  <2> QED BY <2>1, <2>2, <1>3, SumTyped DEF LineIs, Whole
<1> QED BY <1>1, <1>4 DEF OpenSums

\* The steps of the processes keep the invariant, and nobody opens anything.
LEMMA Phase2Keeps ==
    ASSUME MixingInv, Phase2
    PROVE  MixingInv' /\ UNCHANGED <<first, opened, faulty, words>>
<1> PICK q \in Job :
        /\ ~Ended(q)
        /\ \/ /\ StartJob(q) \/ AcquireLock(q) \/ OpenSums(q) \/ WriteLine(q) \/ CloseSums(q)
              /\ UNCHANGED misled
           \/ FailToLock(q) /\ misled' = misled \cup {FileOf[q]}
  BY DEF Phase2
<1>1. FilesInv /\ OpenInv /\ UNCHANGED <<stage, first, second, dec, opened, faulty, words, batch, mixed>>
  BY DEF MixingInv, Phase2
<1>2. FilesInv'
  BY <1>1, StartJobKeeps, AcquireLockKeeps, FailToLockKeeps, OpenSumsKeeps, WriteLineKeeps, CloseSumsKeeps
<1>3. \A p \in Proc : stage[p] = "idle"
  BY DEF MixingInv, AllEnded
<1>4. MisledOK'
  <2>1. pc \in [Job -> {"queued", "running", "locked", "writing", "done", "failed"}]
    BY <1>1 DEF FilesInv, FilesTypeOK
  <2>2. MisledOK
    BY DEF MixingInv
  <2>3. CASE FailToLock(q) /\ misled' = misled \cup {FileOf[q]}
    BY <2>1, <2>2, <2>3 DEF MisledOK, Failable, FailToLock
  <2>4. ASSUME UNCHANGED misled, NEW to, to # "failed", pc' = [pc EXCEPT ![q] = to] \/ pc' = pc
        PROVE  MisledOK'
    BY <2>1, <2>2, <2>4 DEF MisledOK
  <2>5. CASE /\ StartJob(q) \/ AcquireLock(q) \/ OpenSums(q) \/ WriteLine(q) \/ CloseSums(q)
             /\ UNCHANGED misled
    <3>1. CASE StartJob(q)
      BY <2>4, <2>5, <3>1 DEF StartJob
    <3>2. CASE AcquireLock(q)
      BY <2>4, <2>5, <3>2 DEF AcquireLock
    <3>3. CASE OpenSums(q)
      BY <1>1, <2>4, <2>5, <3>3, OpeningGoesOn
    <3>4. CASE WriteLine(q)
      BY <2>4, <2>5, <3>4 DEF WriteLine
    <3>5. CASE CloseSums(q)
      BY <2>4, <2>5, <3>5 DEF CloseSums
    <3> QED BY <2>5, <3>1, <3>2, <3>3, <3>4, <3>5
  <2> QED BY <2>3, <2>5
<1>5. OpenInv'
  <2>1. faulty \in FaultySets /\ misled' \in SUBSET Failable
    BY <1>4 DEF MisledOK, MixingInv, Failable
  <2>2. faulty \in SUBSET Proc /\ misled' \in SUBSET Proc /\ Cardinality(faulty \cup misled') <= T
    BY <2>1, FewWrong
  <2> QED BY <1>1, <1>3, <2>2, IdleKeeps
<1>6. \A p \in Proc : stage'[p] # "idle" => AllEnded'
  BY <1>1, <1>3
<1> QED BY <1>1, <1>2, <1>4, <1>5, <1>6 DEF MixingInv

-----------------------------------------------------------------------------
(* Phase 3. *)

\* When all processes have ended, the lines of a file that exists hold the powers of
\* those of its node that are done.
LEMMA SumsOfDone ==
    ASSUME FilesInv, AllEnded, NEW p \in Proc, file[p].exists
    PROVE  /\ file[p].sums \in [Lines -> Sums \cup {Nil}]
           /\ \A m \in Lines : file[p].sums[m] = SumOf(Contributed(p))
<1>1. p \in File
  BY NodesOfJobs
<1>2. Writing(p) = {}
  BY DEF AllEnded, Ended, Writing
<1>3. Contributed(p) # {} /\ \A m \in Lines : LineIs(p, m, Contributed(p))
  BY <1>1, <1>2 DEF FilesInv, NoLostUpdate
<1>4. file[p].sums \in [Lines -> Sums \cup {Nil}]
  BY <1>1 DEF FilesInv, FilesTypeOK
<1> QED BY <1>3, <1>4 DEF LineIs

\* A node whose processes have all gone through opens right shares.
LEMMA OpeningCalls ==
    ASSUME MixingInv, NEW p \in Honest, OpenSumShares(p)
    PROVE  Call(p) /\ AllEnded
<1> DEFINE count == file[p].sums
           s == SumShares(batch, p, count)
           enc == [r \in Proc |-> Encode(s, r)]
<1>1. p \in Proc /\ FilesInv /\ AllEnded /\ file[p].exists /\ Begin(p, enc) /\ batch \in Batches
  BY DEF OpenSumShares, Honest, MixingInv
<1>2. /\ count \in [Lines -> Sums \cup {Nil}]
      /\ \A m \in Lines : count[m] = SumOf(Contributed(p))
  BY <1>1, SumsOfDone
<1>3. s \in [Lines -> Value]
  <2>1. \A m \in Lines, i \in Lines : Times(count[m], <<p, i>>) \in Int
    BY <1>2 DEF Times, SumOf
  <2> HIDE DEF count
  <2> QED BY <1>1, <2>1, SumSharesAre
<1>4. enc \in [Proc -> Message]
  <2> HIDE DEF s
  <2> QED BY <1>3, EncodeType
<1>5. ASSUME p \notin misled PROVE enc = RightFirst(p)
  <2>1. Contributed(p) = {q \in Job : FileOf[q] = p}
    BY <1>1, <1>5 DEF MixingInv, MisledOK, AllEnded, Ended, Contributed
  <2>2. count = Once(p)
    BY <1>2, <2>1 DEF Once
  <2>3. s = AllSums(batch)[p]
    BY <1>1, <2>2 DEF AllSums
  <2> HIDE DEF s
  <2>4. ASSUME NEW r \in Proc, NEW b \in Chunk PROVE words.r1[r][b][p] = Encode(s, r)[b]
    BY <1>1, <2>3, RightWordsAre DEF MixingInv
  <2>5. \A r \in Proc : Encode(s, r) = [b \in Chunk |-> Encode(s, r)[b]]
    BY DEF Encode
  <2> QED BY <2>4, <2>5 DEF RightFirst
<1>6. Call(p)
  <2> HIDE DEF enc
  <2> QED BY <1>1, <1>4, <1>5 DEF Call
<1> QED BY <1>1, <1>6

\* The call of the opening keeps it, and is a call with right shares.
LEMMA Phase3Keeps ==
    ASSUME MixingInv, NEW p \in Honest, Phase3(p)
    PROVE  MixingInv' /\ Call(p)
<1>1. Call(p) /\ AllEnded
  BY OpeningCalls DEF Phase3
<1>2. UNCHANGED <<pc, lock, file, apows, line, batch, mixed, faulty, misled, words>>
  <2>1. UNCHANGED <<faulty, misled, words>>
    BY <1>1 DEF Call, Begin
  <2> QED BY <2>1 DEF Phase3, filesVars
<1>3. OpenInv'
  BY <1>1, CallKeeps DEF MixingInv
<1>4. FilesInv' /\ AllEnded' /\ MisledOK'
  <2>1. UNCHANGED filesVars
    BY DEF Phase3
  <2>2. FilesInv' /\ AllEnded' = AllEnded
    BY <2>1, FilesKept DEF MixingInv
  <2>3. MisledOK'
    BY <1>2 DEF MixingInv, MisledOK
  <2> QED BY <1>1, <2>2, <2>3
<1>5. (batch \in Batches /\ words = RightWords(batch) /\ faulty \in FaultySets)'
  BY <1>2 DEF MixingInv
<1>6. (mixed \in [Proc -> {None, Solution(batch)}])'
  BY <1>2 DEF MixingInv
<1> QED BY <1>1, <1>3, <1>4, <1>5, <1>6 DEF MixingInv

-----------------------------------------------------------------------------
\* The steps of the opening keep it, and a result leads to the messages.
LEMMA OpenStepKeeps ==
    ASSUME MixingInv, NEW p \in Honest, OpenStep(p)
    PROVE  /\ MixingInv'
           /\ stage[p] # "idle" /\ stage[p] # "end" /\ UNCHANGED <<first, faulty, words>>
           /\ UNCHANGED opened \/ EndOK(p)
<1>1. FilesInv /\ OpenInv /\ p \in Proc
  BY DEF MixingInv, Honest
<1>2. UNCHANGED <<filesVars, batch>> /\ Solved(p)
  BY DEF OpenStep
<1>3. RobustUpdate(p) \/ \E q \in Proc : Recv(p, q)
  BY DEF OpenStep, Receive
<1>4. /\ OpenInv' /\ stage[p] # "idle" /\ stage[p] # "end" /\ UNCHANGED <<first, faulty, words>>
      /\ UNCHANGED opened \/ EndOK(p)
  BY <1>1, <1>3, RobustUpdateKeeps, RecvKeeps
<1>5. UNCHANGED misled
  BY <1>3 DEF RobustUpdate, Recv
<1>6. FilesInv' /\ AllEnded'
  BY <1>1, <1>2, <1>4, FilesKept DEF MixingInv
<1>7. MisledOK'
  BY <1>2, <1>5 DEF MixingInv, MisledOK, filesVars
<1>8. (batch \in Batches /\ words = RightWords(batch) /\ faulty \in FaultySets)'
  BY <1>2, <1>4 DEF MixingInv
<1>9. (mixed \in [Proc -> {None, Solution(batch)}])'
  <2>1. mixed \in [Proc -> {None, Solution(batch)}] /\ batch' = batch /\ batch \in Batches
    BY <1>2 DEF MixingInv
  <2>2. CASE opened'[p] \in {None, Raised, Failed}
    BY <1>2, <2>1, <2>2 DEF Solved
  <2>3. CASE opened'[p] \notin {None, Raised, Failed}
    <3>1. opened'[p] \in {None, Raised, words.r2}
      BY <1>1, <1>4 DEF OpenInv, OpenTypeOK
    <3>2. opened'[p] = words.r2 /\ words = RightWords(batch)
      BY <2>3, <3>1 DEF MixingInv
    <3>3. Flatten(opened'[p]) = PowerSumsOf(batch)
      BY <2>1, <3>2, FlattenIs
    <3>4. mixed' = [mixed EXCEPT ![p] = Solution(batch)]
      BY <1>2, <2>3, <3>3 DEF Solved, Solution
    <3> QED BY <2>1, <3>4
  <2> QED BY <2>2, <2>3
<1> QED BY <1>4, <1>6, <1>7, <1>8, <1>9 DEF MixingInv

LEMMA MixingInvStep == MixingInv /\ [Next]_vars => MixingInv'
<1> SUFFICES ASSUME MixingInv, [Next]_vars PROVE MixingInv'
  OBVIOUS
<1>1. CASE Phase2
  BY <1>1, Phase2Keeps
<1>2. ASSUME NEW p \in Honest, Phase3(p) PROVE MixingInv'
  BY <1>2, Phase3Keeps
<1>3. ASSUME NEW p \in Honest, OpenStep(p) PROVE MixingInv'
  BY <1>3, OpenStepKeeps
<1>4. CASE UNCHANGED vars
  <2>1. UNCHANGED <<filesVars, openVars, batch, mixed>>
    BY <1>4 DEF vars
  <2>2. FilesInv' /\ AllEnded' = AllEnded
    BY <2>1, FilesKept DEF MixingInv
  <2>3. OpenInv'
    BY <2>1, StepKeeps DEF MixingInv
  <2>4. MisledOK' /\ \A p \in Proc : stage'[p] # "idle" => AllEnded'
    BY <2>1, <2>2 DEF MixingInv, MisledOK, filesVars, openVars
  <2>5. (batch \in Batches /\ words = RightWords(batch) /\ faulty \in FaultySets)'
    BY <2>1 DEF MixingInv, openVars
  <2>6. (mixed \in [Proc -> {None, Solution(batch)}])'
    BY <2>1 DEF MixingInv
  <2> QED BY <2>2, <2>3, <2>4, <2>5, <2>6 DEF MixingInv
<1> QED BY <1>1, <1>2, <1>3, <1>4 DEF Next

\* The files, the opening and the solutions fit together in every reachable state of
\* the three phases (async_mixing): what each node opens are right shares unless one of
\* its processes has failed, and nobody opens anything before all processes have ended.
THEOREM MixingInvariant == Spec => []MixingInv
<1> QED BY MixingInvInit, MixingInvStep, PTL DEF Spec

\* No powers are lost or counted twice while the phases follow each other and processes
\* fail (writePowersToFile, phase2).
THEOREM MixingKeepsUpdates == Spec => []NoLostUpdate
<1>1. MixingInv => NoLostUpdate
  BY DEF MixingInv, FilesInv
<1> QED BY <1>1, MixingInvariant, PTL

\* What phase 3 opens is an opening of the right sums (phase3 of powermixing.py with
\* batch_reconstruct): the shares that the nodes have added up in their files are words
\* of a code, and at most T parties lie or have lost a process.
THEOREM MixingImplements == Spec => ImplementsReconstruction
<1>1. Init => Rec!Init
  BY DEF Init, OpenStart, Rec!Init
<1>2. MixingInv /\ [Next]_vars => [Rec!Next]_(Rec!rvars)
  <2> SUFFICES ASSUME MixingInv, [Next]_vars PROVE [Rec!Next]_(Rec!rvars)
    OBVIOUS
  <2> USE DEF MixingInv
  <2>1. CASE Phase2
    BY <2>1, Phase2Keeps DEF Rec!rvars
  <2>2. ASSUME NEW p \in Honest, Phase3(p) PROVE Rec!Next
    BY <2>2, Phase3Keeps, CallingStep
  <2>3. ASSUME NEW p \in Honest, OpenStep(p) PROVE [Rec!Next]_(Rec!rvars)
    BY <2>3, OpenStepKeeps, EndingStep
  <2>4. CASE UNCHANGED vars
    BY <2>4 DEF vars, openVars, Rec!rvars
  <2> QED BY <2>1, <2>2, <2>3, <2>4 DEF Next
<1> QED BY <1>1, <1>2, MixingInvariant, PTL DEF Spec, ImplementsReconstruction, Rec!Spec

\* Every node that returns messages returns those of the input, sorted, for any number
\* of nodes and messages, any prime field and any input for which interpolation finds
\* polynomials and the solver finds messages (async_mixing).
THEOREM RightMessagesHold == Spec => []RightMessages
<1>1. MixingInv => RightMessages
  <2> SUFFICES ASSUME MixingInv, NEW p \in Honest
               PROVE  /\ opened[p] # Failed
                      /\ mixed[p] # None => IsSortedListOf(mixed[p], batch.a)
    BY DEF RightMessages
  <2>1. p \in Proc /\ batch \in Batches /\ words.r2 \in [Chunk -> Code]
    BY DEF Honest, MixingInv, OpenInv, OpenTypeOK, Words
  <2>2. opened[p] \in {None, Raised, words.r2}
    BY <2>1 DEF MixingInv, OpenInv, OpenTypeOK
  <2>3. opened[p] # Failed
    BY <2>1, <2>2, OutcomeAssumption
  <2>4. mixed[p] \in {None, Solution(batch)}
    BY <2>1 DEF MixingInv
  <2>5. IsSortedListOf(Solution(batch), batch.a)
    <3> DEFINE ms == batch.a
    <3>1. ms \in [Lines -> Value]
      BY <2>1, BatchType
    <3>2. Solution(batch) = SolvePython([m \in Lines |-> PowerSum(ms, m, Modulus)], Modulus)
      BY DEF Solution, PowerSumsOf
    <3> HIDE DEF ms
    <3>3. IsSortedListOf(SolvePython([m \in Lines |-> PowerSum(ms, m, Modulus)], Modulus), ms)
      BY <3>1, SolverAssumption
    <3> QED BY <3>2, <3>3 DEF ms
  <2> QED BY <2>3, <2>4, <2>5
<1> QED BY <1>1, MixingInvariant, PTL
=============================================================================
