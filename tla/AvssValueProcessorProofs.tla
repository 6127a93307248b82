---------------------- MODULE AvssValueProcessorProofs ----------------------
(***************************************************************************)
(* Proofs about AvssValueProcessor for any number of parties, any chunks,  *)
(* any number of common subsets and any reports of faulty parties: the     *)
(* queues of honest parties are in one order, agreed values are backed by  *)
(* an honest party, futures are resolved exactly when their values are     *)
(* here, and no assertion fails unless a faulty party takes a report back. *)
(*                                                                         *)
(* The argument is a ledger: what a party has agreed on and handed out     *)
(* after so many subsets depends on the subsets only.                      *)
(***************************************************************************)
EXTENDS AvssValueProcessor, FiniteSetTheorems, SequenceTheorems,
        WellFoundedInduction, TLAPS

-----------------------------------------------------------------------------
(* The invariant.                                                          *)

Item == (Proc \X Nat) \cup {None}

Types ==
    /\ heap \in [Honest -> [Proc -> SUBSET Nat]]
    /\ inputs \in [Honest -> [Proc -> Nat]]
    /\ outputs \in [Honest -> [Proc -> Seq(Nat \cup {None})]]
    /\ next_idx \in [Honest -> [Proc -> Nat]]
    /\ queue \in [Honest -> Seq(Item)]
    /\ report \in [Honest -> [Proc -> Nat] \cup {None}]
    /\ subset \in [Runs -> [Proc -> [Proc -> Nat] \cup {None}] \cup {None}]
    /\ run \in [Honest -> 0 .. MaxAcs]
    /\ runner \in [Honest -> {"sleeping", "waiting", "dead"}]

\* A party takes part in one subset after another, and has a report in the
\* one that it waits for until that is decided.
Phases ==
    \A p \in Honest :
        /\ \A r \in Runs : r < run[p] => subset[r] # None
        /\ runner[p] # "sleeping" => run[p] \in Runs
        /\ runner[p] = "dead" => subset[run[p]] # None
        /\ report[p] # None <=> runner[p] = "waiting" /\ subset[run[p]] = None

DecidedInOrder ==
    \A r \in Runs, s \in Runs : s < r /\ subset[r] # None => subset[s] # None

\* What an honest party reports, it has, and no less than it ever reported.
ReportsTrue ==
    \A p \in Honest, j \in Proc :
        /\ report[p] # None => report[p][j] <= inputs[p][j]
        /\ \A r \in Runs : Told(r, p) =>
              /\ subset[r][p][j] <= inputs[p][j]
              /\ report[p] # None => subset[r][p][j] <= report[p][j]

\* Honest parties never take a report back.
ReportsGrow ==
    \A r \in Runs, s \in Runs : s < r =>
        \A q \in Honest : Told(r, q) /\ Told(s, q) =>
            \A j \in Proc : subset[s][q][j] <= subset[r][q][j]

StateInv == /\ Types /\ TypeOK /\ Resolved /\ Phases
            /\ DecidedInOrder /\ ReportsTrue /\ ReportsGrow

(***************************************************************************)
(* The ledger: the counts, the next indices and the queue that a party has *)
(* after each number of subsets.  It is the same for all, because each of  *)
(* its entries is computed from the one before and from what the subset    *)
(* returned; the values that have arrived have no part in it.              *)
(***************************************************************************)
LedgerChunk(next, j, i) == [k \in 1 .. ChunkSize |-> <<j, next[j] + i + k - 1>>]

LedgerChunks(next, pending, i) ==
    [x \in 1 .. N |-> IF InBatch(pending, x - 1, i) THEN LedgerChunk(next, x - 1, i) ELSE <<>>]

LedgerBatch(next, pending, i) ==
    FlattenSeq(LedgerChunks(next, pending, i)) \o <<Delimiter>>

LedgerBatches(next, pending) ==
    [i \in 1 .. Batches(pending) |-> LedgerBatch(next, pending, i - 1)]

LedgerOutput(next, pending) == FlattenSeq(LedgerBatches(next, pending))

Filled(agreed, view, j) ==
    [i \in Proc |-> IF view[i] = None THEN agreed[j] ELSE view[i][j]]

NextAgreed(agreed, view) ==
    [j \in Proc |-> SortedAt(Filled(agreed, view, j), AgreedIndex)]

Grows(old, new) == \A j \in Proc : old[j] <= new[j]

Due(e, new) == [j \in Proc |-> new[j] - e.next[j]]

\* After a subset that lowers a count all parties that process it are dead.
NextEntry(e, view) ==
    LET new     == NextAgreed(e.agreed, view)
        pending == Due(e, new)
    IN  IF Grows(e.agreed, new)
        THEN [agreed |-> new,
              next   |-> [j \in Proc |-> e.next[j] + Returned(pending, j)],
              queue  |-> e.queue \o LedgerOutput(e.next, pending)]
        ELSE [agreed |-> new, next |-> e.next, queue |-> e.queue]

Entries == [agreed : [Proc -> Nat], next : [Proc -> Nat], queue : Seq(Item)]

FirstEntry == [agreed |-> [j \in Proc |-> 0], next |-> [j \in Proc |-> 0], queue |-> <<>>]

Reached(r) == r = 0 \/ subset[r - 1] # None

\* So many values of dealer j have been reported by T + 1 parties.
Supported(r, j, count) ==
    count = 0 \/ \E W \in SUBSET Proc :
        /\ Cardinality(W) >= T + 1
        /\ \A i \in W : \E s \in Runs : s < r /\ Told(s, i) /\ subset[s][i][j] >= count

\* The values of s are in order, and next[j] of them are of dealer j.
InOrder(s, next) ==
    /\ \A n \in DOMAIN s :
          LET v == s[n] IN v # Delimiter => v[2] = Cardinality(Earlier(s, n, v[1]))
    /\ \A j \in Proc : next[j] = Cardinality(Earlier(s, Len(s) + 1, j))

IsLedger(h) ==
    /\ h \in [0 .. MaxAcs -> Entries]
    /\ h[0] = FirstEntry
    /\ \A r \in Runs : subset[r] # None => h[r + 1] = NextEntry(h[r], subset[r])
    /\ \A r \in Runs :
          subset[r] # None /\ ~TakenBack(r) => Grows(h[r].agreed, h[r + 1].agreed)
    /\ \A r \in 0 .. MaxAcs : Reached(r) =>
          /\ \A j \in Proc : Supported(r, j, h[r].agreed[j])
          /\ \A s \in 0 .. r : IsPrefix(h[s].queue, h[r].queue)
          /\ ChunkSize = 1 => InOrder(h[r].queue, h[r].next)

\* Party p has what the ledger says and gets past an entry only if no count
\* shrinks; one that is dead, because one did, has the counts of the entry it had
\* and, for the first dealers, of the next one.
Follows(p, h) ==
    /\ \A r \in Runs : r < run[p] => Grows(h[r].agreed, h[r + 1].agreed)
    /\ runner[p] = "dead" => ~Grows(h[run[p]].agreed, h[run[p] + 1].agreed)
    /\ queue[p] = h[run[p]].queue
    /\ next_idx[p] = h[run[p]].next
    /\ \A j \in Proc :
          \/ Len(outputs[p][j]) = h[run[p]].agreed[j]
          \/ runner[p] = "dead" /\ Len(outputs[p][j]) = h[run[p] + 1].agreed[j]

LedgerInv == \E h : IsLedger(h) /\ \A p \in Honest : Follows(p, h)

IInv == StateInv /\ LedgerInv

-----------------------------------------------------------------------------
(* Numbers, sequences and order statistics.                                 *)

\* The order of the natural numbers is well-founded.
LEMMA NatLessWF == IsWellFoundedOn({ss \in Nat \X Nat : ss[1] < ss[2]}, Nat)
  BY NatLessThanWellFounded DEF OpToRel

\* Every set of natural numbers but the empty one has a least member.
LEMMA LeastNumber ==
  ASSUME NEW S, S \subseteq Nat, S # {}
  PROVE  \E m \in S : \A x \in S : m <= x
<1> DEFINE Less == {ss \in Nat \X Nat : ss[1] < ss[2]}
<1>1. PICK m \in S : \A x \in S : ~(<<x, m>> \in Less)
  <2>1. IsWellFoundedOn(Less, Nat)
    BY NatLessWF
  <2> HIDE DEF Less
  <2> QED BY <2>1, WFMin
<1>2. ASSUME NEW x \in S PROVE m <= x
  <2>1. x \in Nat /\ m \in Nat /\ ~(<<x, m>> \in Less)
    BY <1>1
  <2> QED BY <2>1
<1> QED BY <1>2

\* Induction, for the set of the numbers that have a property.
LEMMA Induction ==
  ASSUME NEW S, 0 \in S, \A n \in Nat : n \in S => n + 1 \in S
  PROVE  Nat \subseteq S
<1> SUFFICES ASSUME Nat \ S # {} PROVE FALSE
  OBVIOUS
<1>1. PICK m \in Nat \ S : \A x \in Nat \ S : m <= x
  BY LeastNumber
<1>2. m - 1 \in Nat /\ m - 1 \notin S /\ m # 0
  BY <1>1
<1> QED BY <1>1, <1>2

\* FlattenSeq appends one sequence after the other.
Flattens(f, s) ==
    /\ f[0] = <<>> /\ f[Len(s)] = FlattenSeq(s)
    /\ \A n \in 0 .. Len(s) - 1 : f[n + 1] = f[n] \o s[n + 1]

LEMMA FlattenRuns ==
  ASSUME NEW X, NEW s \in Seq(Seq(X))
  PROVE  \E f \in [0 .. Len(s) -> Seq(X)] : Flattens(f, s)
<1> DEFINE Step(f, i) == IF i = 1 THEN s[i] ELSE f[i-1] \o s[i]
           Upto(n, f) == f = [i \in 1 .. n |-> Step(f, i)]
           Flat == {n \in Nat : \E f : Upto(n, f)}
<1>1. 0 \in Flat
  <2>1. Upto(0, <<>>)
    OBVIOUS
  <2> QED BY <2>1
<1>2. ASSUME NEW n \in Nat, n \in Flat PROVE n + 1 \in Flat
  <2>1. PICK f : Upto(n, f)
    BY <1>2
  <2> DEFINE g == [i \in 1 .. n + 1 |-> IF i <= n THEN f[i] ELSE Step(f, i)]
  <2>2. \A i \in 1 .. n + 1 : g[i] = Step(g, i)
    <3> TAKE i \in 1 .. n + 1
    <3>1. CASE i <= n
      <4>1. g[i] = Step(f, i)
        <5>1. \A k \in 1 .. n : f[k] = Step(f, k)
          BY <2>1, Zenon
        <5> QED BY <5>1, <3>1
      <4>2. i # 1 => g[i - 1] = f[i - 1]
        BY <3>1
      <4> QED BY <4>1, <4>2
    <3>2. CASE i = n + 1
      <4>1. g[i] = Step(f, i)
        BY <3>2
      <4>2. i # 1 => g[i - 1] = f[i - 1]
        BY <3>2
      <4> QED BY <4>1, <4>2
    <3> QED BY <3>1, <3>2
  <2>3. Upto(n + 1, g)
    BY <2>2
  <2> HIDE DEF g, Upto
  <2> QED BY <2>3
<1>3. CASE Len(s) = 0
  <2>1. FlattenSeq(s) = <<>> /\ <<>> \in Seq(X)
    BY <1>3, EmptySeq DEF FlattenSeq
  <2>2. [n \in 0 .. 0 |-> <<>>] \in [0 .. 0 -> Seq(X)]
    BY <2>1
  <2>3. Flattens([n \in 0 .. 0 |-> <<>>], s)
    BY <2>1, <1>3 DEF Flattens
  <2> QED BY <2>2, <2>3, <1>3
<1>4. CASE Len(s) > 0
  <2> DEFINE F == CHOOSE f : Upto(Len(s), f)
             G == [n \in 0 .. Len(s) |-> IF n = 0 THEN <<>> ELSE F[n]]
  <2>1. Upto(Len(s), F)
    <3>1. Len(s) \in Flat
      <4> HIDE DEF Flat
      <4> QED BY Induction, <1>1, <1>2, SMTT(30)
    <3> HIDE DEF Upto
    <3> QED BY <3>1
  <2>2. FlattenSeq(s) = F[Len(s)]
    BY <1>4 DEF FlattenSeq
  <2> HIDE DEF F
  <2>3. ASSUME NEW n \in 0 .. Len(s) - 1 PROVE G[n + 1] = G[n] \o s[n + 1]
    <3>1. \A k \in 1 .. Len(s) : F[k] = Step(F, k)
      BY <2>1, Zenon
    <3>2. /\ n + 1 \in 1 .. Len(s) /\ (n + 1) - 1 = n /\ s[n + 1] \in Seq(X)
          /\ G[n + 1] = F[n + 1] /\ G[n] = IF n = 0 THEN <<>> ELSE F[n]
      BY <2>3
    <3>3. F[n + 1] = Step(F, n + 1)
      BY <3>1, <3>2
    <3>4. n + 1 = 1 <=> n = 0
      BY <3>2
    <3>5. F[n + 1] = IF n = 0 THEN s[n + 1] ELSE F[n] \o s[n + 1]
      BY <3>2, <3>3, <3>4, Zenon
    <3>6. <<>> \o s[n + 1] = s[n + 1]
      BY <3>2, ConcatEmptySeq
    <3> HIDE DEF G, Step
    <3> QED BY <3>2, <3>5, <3>6
  <2>4. G \in [0 .. Len(s) -> Seq(X)]
    <3> DEFINE Typed == {n \in Nat : n \in 0 .. Len(s) => G[n] \in Seq(X)}
    <3>1. 0 \in Typed
      <4>1. G[0] = <<>>
        BY <1>4
      <4> HIDE DEF G
      <4> QED BY <4>1, EmptySeq
    <3>2. \A n \in Nat : n \in Typed => n + 1 \in Typed
      <4> TAKE n \in Nat
      <4> SUFFICES ASSUME n \in Typed, n + 1 \in 0 .. Len(s) PROVE G[n + 1] \in Seq(X)
        OBVIOUS
      <4>1. n \in 0 .. Len(s) - 1 /\ n \in 0 .. Len(s) /\ s[n + 1] \in Seq(X)
        OBVIOUS
      <4> HIDE DEF G
      <4>2. G[n] \in Seq(X) /\ G[n + 1] = G[n] \o s[n + 1]
        BY <4>1, <2>3
      <4> QED BY <4>1, <4>2, ConcatProperties
    <3>3. Nat \subseteq Typed
      <4> HIDE DEF Typed
      <4> QED BY <3>1, <3>2, Induction
    <3>4. \A n \in 0 .. Len(s) : G[n] \in Seq(X)
      <4> HIDE DEF G
      <4> QED BY <3>3
    <3> QED BY <3>4
  <2>5. Flattens(G, s)
    <3>1. G[0] = <<>> /\ G[Len(s)] = F[Len(s)]
      BY <1>4
    <3> HIDE DEF G
    <3> QED BY <3>1, <2>2, <2>3 DEF Flattens
  <2> HIDE DEF G
  <2> QED BY <2>4, <2>5
<1> QED BY <1>3, <1>4

\* What FlattenSeq makes of sequences over X is a sequence over X.
LEMMA FlattenType ==
  ASSUME NEW X, NEW s \in Seq(Seq(X))
  PROVE  FlattenSeq(s) \in Seq(X)
<1>1. PICK f \in [0 .. Len(s) -> Seq(X)] : Flattens(f, s)
  BY FlattenRuns
<1> QED BY <1>1 DEF Flattens

\* The parties are N, and at least one.
LEMMA Parties == IsFiniteSet(Proc) /\ Cardinality(Proc) = N /\ N \in Nat \ {0}
<1>1. N \in Nat \ {0}
  BY SizeAssumption
<1>2. 0 \in Int /\ N - 1 \in Int /\ ~(0 > N - 1) /\ (N - 1) - 0 + 1 = N
  BY <1>1
<1>3. IsFiniteSet(0 .. N - 1) /\ Cardinality(0 .. N - 1) = N
  BY <1>2, FS_Interval
<1> QED BY <1>1, <1>3 DEF Proc

\* A set that is mapped into another one to one is not larger.
LEMMA InjectionBound ==
  ASSUME NEW S, NEW R, NEW f \in [S -> R], IsFiniteSet(R),
         \A x, y \in S : f[x] = f[y] => x = y
  PROVE  IsFiniteSet(S) /\ Cardinality(S) <= Cardinality(R)
<1>1. f \in Injection(S, R)
  BY DEF Injection, IsInjective
<1> QED BY <1>1, FS_Injection

\* SortedAt is the order statistic: one of the counts, with at most k of them
\* below it and more than k not above it.
LEMMA OrderStatistic ==
  ASSUME NEW counts \in [Proc -> Int], NEW k \in 0 .. N - 1
  PROVE  /\ SortedAt(counts, k) \in {counts[i] : i \in Proc}
         /\ Cardinality({i \in Proc : counts[i] < SortedAt(counts, k)}) <= k
         /\ Cardinality({i \in Proc : counts[i] <= SortedAt(counts, k)}) > k
<1> DEFINE pair == [i \in Proc |-> <<counts[i], i>>]
           ranked == {<<counts[i], i>> : i \in Proc}
           below(x) == {y \in ranked : Before(y, x)}
           rank == [x \in ranked |-> Cardinality(below(x))]
<1>1. IsFiniteSet(ranked) /\ Cardinality(ranked) = N
  <2>1. pair \in Bijection(Proc, ranked)
    BY DEF Bijection, Injection, Surjection, IsInjective
  <2>2. ExistsBijection(Proc, ranked)
    BY <2>1 DEF ExistsBijection
  <2> HIDE DEF ranked
  <2> QED BY <2>2, Parties, FS_Bijection
<1>2. \A x \in ranked : x[1] \in Int /\ x[2] \in Proc /\ x = <<x[1], x[2]>> /\ x[1] = counts[x[2]]
  OBVIOUS
<1>a. \A x \in ranked : ~Before(x, x)
  BY <1>2 DEF Before, Proc
<1>3. \A x \in ranked : IsFiniteSet(below(x)) /\ Cardinality(below(x)) \in 0 .. N - 1
  <2> TAKE x \in ranked
  <2>1. below(x) \subseteq ranked /\ x \notin below(x)
    BY <1>a
  <2> HIDE DEF ranked, below
  <2>2. IsFiniteSet(below(x)) /\ Cardinality(below(x)) \in Nat /\ Cardinality(below(x)) <= N
    BY <2>1, <1>1, FS_Subset, FS_CardinalityType
  <2>3. Cardinality(below(x)) # N
    BY <2>1, <1>1, FS_Subset
  <2> QED BY <2>2, <2>3, Parties
<1>4. \A x, y \in ranked : Before(x, y) => rank[x] < rank[y]
  <2> SUFFICES ASSUME NEW x \in ranked, NEW y \in ranked, Before(x, y)
               PROVE  Cardinality(below(x)) < Cardinality(below(y))
    OBVIOUS
  <2>1. below(x) \subseteq below(y)
    BY <1>2 DEF Before, Proc
  <2>2. x \in below(y) /\ x \notin below(x)
    BY <1>a
  <2> HIDE DEF ranked, below
  <2>3. Cardinality(below(x)) <= Cardinality(below(y)) /\ Cardinality(below(x)) # Cardinality(below(y))
    BY <1>3, <2>1, <2>2, FS_Subset
  <2> QED BY <2>3, <1>3
<1>5. \A x, y \in ranked : x = y \/ Before(x, y) \/ Before(y, x)
  BY <1>2 DEF Before, Proc
<1>6. rank \in Surjection(ranked, 0 .. N - 1)
  <2> HIDE DEF ranked, below
  <2>1. rank \in [ranked -> 0 .. N - 1]
    BY <1>3
  <2>2. rank \in Injection(ranked, 0 .. N - 1)
    <3>1. \A x, y \in ranked : rank[x] = rank[y] => x = y
      BY <1>4, <1>5, <2>1
    <3> HIDE DEF rank
    <3> QED BY <2>1, <3>1 DEF Injection, IsInjective
  <2>3. IsFiniteSet(0 .. N - 1) /\ Cardinality(0 .. N - 1) = N
    BY Parties DEF Proc
  <2> HIDE DEF rank
  <2> QED BY <2>2, <2>3, <1>1, FS_Injection
<1>7. PICK x \in ranked : /\ Cardinality(below(x)) = k
                          /\ SortedAt(counts, k) = x[1]
  <2>1. \E x \in ranked : Cardinality(below(x)) = k
    <3>1. \E x \in ranked : rank[x] = k
      <4> HIDE DEF ranked, rank
      <4> QED BY <1>6 DEF Surjection
    <3> QED BY <3>1
  <2> DEFINE w == CHOOSE x \in ranked : Cardinality(below(x)) = k
  <2>2. w \in ranked /\ Cardinality(below(w)) = k
    <3> HIDE DEF ranked, below
    <3> QED BY <2>1
  <2>3. SortedAt(counts, k) = w[1]
    BY DEF SortedAt
  <2> QED BY <2>2, <2>3
<1> DEFINE c == SortedAt(counts, k)
           less == {i \in Proc : counts[i] < c}
           upto == {i \in Proc : counts[i] <= c}
<1>8. c \in {counts[i] : i \in Proc} /\ c \in Int
  BY <1>2, <1>7
<1>9. IsFiniteSet(less) /\ IsFiniteSet(upto) /\ Cardinality(less) \in Nat /\ Cardinality(upto) \in Nat
  BY Parties, FS_Subset, FS_CardinalityType
<1>10. Cardinality(less) <= k
  <2>1. [i \in less |-> pair[i]] \in [less -> below(x)]
    BY <1>7, <1>8 DEF Before
  <2>2. \A i, j \in less : pair[i] = pair[j] => i = j
    OBVIOUS
  <2>3. \A i, j \in less : [h \in less |-> pair[h]][i] = [h \in less |-> pair[h]][j] => i = j
    BY <2>2
  <2>4. IsFiniteSet(below(x))
    BY <1>3
  <2> HIDE DEF ranked, below, less, pair
  <2>5. Cardinality(less) <= Cardinality(below(x))
    BY <2>1, <2>3, <2>4, InjectionBound
  <2> QED BY <2>5, <1>7
<1>11. Cardinality(upto) > k
  <2> DEFINE most == below(x) \cup {x}
  <2>1. IsFiniteSet(most) /\ Cardinality(most) = k + 1
    <3>1. x \notin below(x)
      BY <1>a
    <3> HIDE DEF below, ranked
    <3> QED BY <3>1, <1>3, <1>7, FS_AddElement
  <2>2. [y \in most |-> y[2]] \in [most -> upto]
    BY <1>2, <1>7, <1>8 DEF Before
  <2>3. \A y, z \in most : y[2] = z[2] => y = z
    BY <1>2, <1>7
  <2>4. \A y, z \in most : [u \in most |-> u[2]][y] = [u \in most |-> u[2]][z] => y = z
    BY <2>3
  <2> HIDE DEF ranked, below, upto, most
  <2>5. Cardinality(most) <= Cardinality(upto)
    BY <2>2, <2>4, <1>9, InjectionBound
  <2> QED BY <2>1, <2>5, <1>9
<1> QED BY <1>8, <1>10, <1>11

\* What T + 1 counts reach, the count at AgreedIndex reaches.
LEMMA ReachedByMany ==
  ASSUME NEW counts \in [Proc -> Int], NEW W \in SUBSET Proc, NEW L \in Int,
         Cardinality(W) >= T + 1, \A i \in W : counts[i] >= L
  PROVE  SortedAt(counts, AgreedIndex) >= L
<1>1. AgreedIndex \in 0 .. N - 1
  BY SizeAssumption DEF AgreedIndex
<1> DEFINE c == SortedAt(counts, AgreedIndex)
           upto == {i \in Proc : counts[i] <= c}
<1>2. c \in Int /\ Cardinality(upto) > N - (T + 1)
  BY <1>1, OrderStatistic DEF AgreedIndex
<1> SUFFICES ASSUME c < L PROVE FALSE
  BY <1>2
<1>3. PICK i : i \in W \cap upto
  <2>1. Cardinality(upto) \in Nat /\ Cardinality(W) \in Nat
    BY Parties, FS_Subset, FS_CardinalityType
  <2>2. Cardinality(W) + Cardinality(upto) > Cardinality(Proc)
    BY <1>2, <2>1, Parties, SizeAssumption
  <2> HIDE DEF upto
  <2>3. W \cap upto # {}
    BY <2>2, Parties, FS_MajoritiesIntersect DEF upto
  <2> QED BY <2>3
<1> QED BY <1>2, <1>3

\* T + 1 counts reach the count at AgreedIndex.
LEMMA ReachesIt ==
  ASSUME NEW counts \in [Proc -> Int]
  PROVE  \E W \in SUBSET Proc : /\ Cardinality(W) >= T + 1
                                /\ \A i \in W : counts[i] >= SortedAt(counts, AgreedIndex)
<1>1. AgreedIndex \in 0 .. N - 1
  BY SizeAssumption DEF AgreedIndex
<1> DEFINE c == SortedAt(counts, AgreedIndex)
           less == {i \in Proc : counts[i] < c}
<1>2. c \in Int /\ Cardinality(less) <= N - (T + 1)
  BY <1>1, OrderStatistic DEF AgreedIndex
<1>3. Cardinality(Proc \ less) = N - Cardinality(less)
  <2>1. Proc \cap less = less
    OBVIOUS
  <2> QED BY <2>1, Parties, FS_Difference, ZenonT(60)
<1>4. Cardinality(Proc \ less) >= T + 1
  <2>1. Cardinality(less) \in Nat
    BY Parties, FS_Subset, FS_CardinalityType
  <2> QED BY <1>2, <1>3, <2>1, SizeAssumption
<1> WITNESS Proc \ less \in SUBSET Proc
<1> QED BY <1>2, <1>4

\* The sequencer drains up to the first number that it does not hold, and that
\* exists.
LEMMA DrainedNext ==
  ASSUME NEW n \in Nat, NEW b \in Nat, NEW held \in SUBSET (0 .. b - 1)
  PROVE  /\ Drained(held, n) \in n .. n + Cardinality(held)
         /\ Drained(held, n) \notin held
         /\ n .. Drained(held, n) - 1 \subseteq held
<1> DEFINE gaps == {m \in Nat : m >= n /\ m \notin held}
<1>1. IsFiniteSet(held) /\ Cardinality(held) \in Nat
  <2>1. IsFiniteSet(0 .. b - 1)
    BY FS_Interval
  <2> QED BY <2>1, FS_Subset, FS_CardinalityType
<1>2. n + b \in gaps
  OBVIOUS
<1>3. PICK m \in gaps : \A x \in gaps : m <= x
  <2> HIDE DEF gaps
  <2> QED BY <1>2, LeastNumber, gaps \subseteq Nat DEF gaps
<1>4. n .. m - 1 \subseteq held
  BY <1>3
<1>5. m - n <= Cardinality(held)
  <2>1. Cardinality(n .. m - 1) = m - n
    <3>1. m \in Nat /\ m >= n /\ n \in Int /\ m - 1 \in Int
      BY <1>3
    <3> HIDE DEF gaps
    <3>2. Cardinality(n .. m - 1) = IF n > m - 1 THEN 0 ELSE (m - 1) - n + 1
      BY <3>1, FS_Interval
    <3> QED BY <3>1, <3>2
  <2> QED BY <2>1, <1>4, <1>1, FS_Subset
<1>6. \E x \in n .. n + Cardinality(held) : x \notin held /\ n .. x - 1 \subseteq held
  BY <1>1, <1>3, <1>4, <1>5
<1> QED BY <1>6 DEF Drained

-----------------------------------------------------------------------------
(* Counts, batches and entries of the ledger.                              *)

\* What integer division promises.
LEMMA Division ==
  ASSUME NEW x \in Nat, NEW c \in Nat \ {0}
  PROVE  x \div c \in Nat /\ c * (x \div c) <= x
OBVIOUS

\* A product grows with its factor.
LEMMA Product ==
  ASSUME NEW a \in Nat, NEW b \in Nat, NEW c \in Nat, a <= b
  PROVE  c * a <= c * b /\ c * a \in Nat
OBVIOUS

\* The number of batches is a number.
LEMMA BatchesType ==
  ASSUME NEW pending \in [Proc -> Int]
  PROVE  Batches(pending) \in Int
<1>1. T \in 0 .. N - 1
  BY SizeAssumption
<1>2. SortedAt(pending, T) \in Int
  BY <1>1, OrderStatistic
<1>3. ChunkSize \in Nat \ {0}
  BY SizeAssumption
<1> QED BY <1>2, <1>3 DEF Batches

\* The next index never moves back.
LEMMA ReturnedType ==
  ASSUME NEW pending \in [Proc -> Int], NEW j \in Proc
  PROVE  Returned(pending, j) \in Nat
<1> DEFINE took == {i \in 0 .. Batches(pending) - 1 : InBatch(pending, j, i)}
<1>1. IsFiniteSet(0 .. Batches(pending) - 1)
  <2>1. 0 \in Int /\ Batches(pending) - 1 \in Int
    BY BatchesType
  <2> QED BY <2>1, FS_Interval
<1>2. Cardinality(took) \in Nat
  BY <1>1, FS_Subset, FS_CardinalityType
<1>3. Returned(pending, j) = ChunkSize * Cardinality(took)
  BY DEF Returned
<1> HIDE DEF took
<1> QED BY <1>2, <1>3, SizeAssumption

\* No more values of a dealer are handed out than are pending.
LEMMA ReturnedBound ==
  ASSUME NEW pending \in [Proc -> Nat], NEW j \in Proc
  PROVE  Returned(pending, j) \in 0 .. pending[j]
<1> DEFINE d == pending[j] \div ChunkSize
           took == {i \in 0 .. Batches(pending) - 1 : InBatch(pending, j, i)}
<1>1. ChunkSize \in Nat \ {0} /\ d \in Nat /\ ChunkSize * d <= pending[j]
  BY Division, SizeAssumption
<1>2. took \subseteq 0 .. d - 1
  BY <1>1, BatchesType DEF InBatch
<1>3. IsFiniteSet(0 .. d - 1) /\ Cardinality(0 .. d - 1) = d
  <2> HIDE DEF d
  <2>1. 0 \in Int /\ d - 1 \in Int /\ (0 > d - 1 => d = 0) /\ (d - 1) - 0 + 1 = d
    BY <1>1
  <2> QED BY <2>1, FS_Interval
<1>4. Cardinality(took) \in Nat /\ Cardinality(took) <= d
  <2> HIDE DEF took, d
  <2> QED BY <1>2, <1>3, FS_Subset, FS_CardinalityType
<1>5. ChunkSize * Cardinality(took) \in Nat /\ ChunkSize * Cardinality(took) <= ChunkSize * d
  BY <1>1, <1>4, Product
<1>6. Returned(pending, j) = ChunkSize * Cardinality(took)
  BY DEF Returned
<1> HIDE DEF took, d
<1> QED BY <1>1, <1>5, <1>6

\* What the batches put in the queue is made of values and delimiters.
LEMMA LedgerBatchType ==
  ASSUME NEW next \in [Proc -> Nat], NEW pending \in [Proc -> Int], NEW i \in Nat
  PROVE  /\ LedgerChunks(next, pending, i) \in Seq(Seq(Item))
         /\ Len(LedgerChunks(next, pending, i)) = N
         /\ LedgerBatch(next, pending, i) \in Seq(Item)
<1> DEFINE parts == LedgerChunks(next, pending, i)
<1>1. \A j \in Proc : LedgerChunk(next, j, i) \in Seq(Item)
  BY SizeAssumption DEF LedgerChunk, Item
<1>2. N \in Nat /\ \A x \in 1 .. N : x - 1 \in Proc
  BY SizeAssumption DEF Proc
<1>3. <<>> \in Seq(Item)
  OBVIOUS
<1>4. \A x \in 1 .. N : parts[x] \in Seq(Item)
  BY <1>1, <1>2, <1>3 DEF LedgerChunks
<1>5. parts = [x \in 1 .. N |-> parts[x]]
  BY DEF LedgerChunks
<1> HIDE DEF parts
<1>6. parts \in Seq(Seq(Item)) /\ Len(parts) = N
  BY <1>2, <1>4, <1>5
<1>7. <<Delimiter>> \in Seq(Item)
  BY DEF Delimiter, Item
<1>8. FlattenSeq(parts) \o <<Delimiter>> \in Seq(Item)
  BY <1>6, <1>7, FlattenType, ConcatProperties
<1> QED BY <1>6, <1>8 DEF LedgerBatch, parts

\* A function on 1 .. n is a sequence of length n.
LEMMA SequenceOf ==
  ASSUME NEW S, NEW n \in Nat, NEW f,
         f = [i \in 1 .. n |-> f[i]], \A i \in 1 .. n : f[i] \in S
  PROVE  f \in Seq(S) /\ Len(f) = n
<1>1. f \in [1 .. n -> S]
  OBVIOUS
<1> QED BY <1>1

\* There are as many batches as Batches says, none if that is negative.
LEMMA LedgerBatchesType ==
  ASSUME NEW next \in [Proc -> Nat], NEW pending \in [Proc -> Int]
  PROVE  /\ LedgerBatches(next, pending) \in Seq(Seq(Item))
         /\ Len(LedgerBatches(next, pending)) = IF Batches(pending) > 0 THEN Batches(pending) ELSE 0
         /\ \A i \in 1 .. Len(LedgerBatches(next, pending)) :
               LedgerBatches(next, pending)[i] = LedgerBatch(next, pending, i - 1)
<1> DEFINE all == LedgerBatches(next, pending)
<1>1. Batches(pending) \in Int
  BY BatchesType
<1>2. \A i \in 1 .. Batches(pending) : all[i] = LedgerBatch(next, pending, i - 1)
  BY DEF LedgerBatches
<1>3. \A i \in 1 .. Batches(pending) : all[i] \in Seq(Item)
  <2>1. \A i \in 1 .. Batches(pending) : i - 1 \in Nat
    BY <1>1
  <2>2. \A i \in Nat : LedgerBatch(next, pending, i) \in Seq(Item)
    BY LedgerBatchType
  <2> QED BY <2>1, <2>2, <1>2
<1>4. all = [i \in 1 .. Batches(pending) |-> all[i]]
  BY DEF LedgerBatches
<1>5. CASE Batches(pending) > 0
  <2> HIDE DEF all
  <2>1. all \in Seq(Seq(Item)) /\ Len(all) = Batches(pending)
    <3>1. Batches(pending) \in Nat
      BY <1>1, <1>5
    <3> QED BY <1>3, <1>4, <3>1, SequenceOf
  <2> QED BY <2>1, <1>1, <1>2, <1>5 DEF all
<1>6. CASE ~(Batches(pending) > 0)
  <2>1. 1 .. Batches(pending) = 1 .. 0
    BY <1>1, <1>6
  <2>2. all = <<>>
    BY <2>1 DEF LedgerBatches
  <2> HIDE DEF all
  <2>3. all \in Seq(Seq(Item)) /\ Len(all) = 0
    BY <2>2, EmptySeq
  <2> QED BY <2>3, <1>6 DEF all
<1> QED BY <1>5, <1>6

LEMMA LedgerOutputType ==
  ASSUME NEW next \in [Proc -> Nat], NEW pending \in [Proc -> Int]
  PROVE  LedgerOutput(next, pending) \in Seq(Item)
<1>1. LedgerBatches(next, pending) \in Seq(Seq(Item))
  BY LedgerBatchesType
<1>2. FlattenSeq(LedgerBatches(next, pending)) \in Seq(Item)
  BY <1>1, FlattenType
<1> QED BY <1>2 DEF LedgerOutput

\* _add_to_output_queue puts in the queue what the next indices of the party
\* and the pending counts say, and nothing else of its state.
LEMMA OutputIsLedgers ==
  ASSUME NEW p, NEW pending
  PROVE  NewOutput(p, pending) = LedgerOutput(next_idx[p], pending)
BY DEF NewOutput, Batch, Chunk, LedgerOutput, LedgerBatches, LedgerBatch, LedgerChunks, LedgerChunk

\* The agreed counts are counts.
LEMMA NextAgreedType ==
  ASSUME NEW agreed \in [Proc -> Nat], NEW view \in [Proc -> [Proc -> Nat] \cup {None}]
  PROVE  /\ NextAgreed(agreed, view) \in [Proc -> Nat]
         /\ \A j \in Proc : Filled(agreed, view, j) \in [Proc -> Nat]
<1>1. AgreedIndex \in 0 .. N - 1
  BY SizeAssumption DEF AgreedIndex
<1>2. ASSUME NEW j \in Proc
      PROVE  /\ Filled(agreed, view, j) \in [Proc -> Nat]
             /\ SortedAt(Filled(agreed, view, j), AgreedIndex) \in Nat
  <2>1. Filled(agreed, view, j) \in [Proc -> Nat]
    BY DEF Filled
  <2>2. \E i \in Proc : SortedAt(Filled(agreed, view, j), AgreedIndex) = Filled(agreed, view, j)[i]
    <3> HIDE DEF Filled
    <3>1. Filled(agreed, view, j) \in [Proc -> Int]
      BY <2>1
    <3>2. SortedAt(Filled(agreed, view, j), AgreedIndex) \in {Filled(agreed, view, j)[i] : i \in Proc}
      BY <1>1, <3>1, OrderStatistic
    <3> QED BY <3>2
  <2> QED BY <2>1, <2>2
<1> QED BY <1>2 DEF NextAgreed

\* Each entry of the ledger has its type.
LEMMA NextEntryType ==
  ASSUME NEW e \in Entries, NEW view \in [Proc -> [Proc -> Nat] \cup {None}]
  PROVE  NextEntry(e, view) \in Entries
<1> DEFINE new     == NextAgreed(e.agreed, view)
           pending == Due(e, new)
           next    == [j \in Proc |-> e.next[j] + Returned(pending, j)]
           queued  == e.queue \o LedgerOutput(e.next, pending)
<1>1. e.agreed \in [Proc -> Nat] /\ e.next \in [Proc -> Nat] /\ e.queue \in Seq(Item)
  BY DEF Entries
<1>2. new \in [Proc -> Nat]
  BY <1>1, NextAgreedType
<1>3. pending \in [Proc -> Int]
  BY <1>1, <1>2 DEF Due
<1>4. next \in [Proc -> Nat] /\ queued \in Seq(Item)
  <2> HIDE DEF pending
  <2>1. \A j \in Proc : Returned(pending, j) \in Nat
    BY <1>3, ReturnedType
  <2>2. LedgerOutput(e.next, pending) \in Seq(Item)
    BY <1>1, <1>3, LedgerOutputType
  <2> QED BY <1>1, <2>1, <2>2, ConcatProperties
<1>5. NextEntry(e, view) = IF Grows(e.agreed, new)
                           THEN [agreed |-> new, next |-> next, queue |-> queued]
                           ELSE [agreed |-> new, next |-> e.next, queue |-> e.queue]
  BY DEF NextEntry
<1> HIDE DEF new, pending, next, queued
<1> QED BY <1>1, <1>2, <1>4, <1>5 DEF Entries

-----------------------------------------------------------------------------
(* Values in their order, with chunks of one value.                        *)

\* Item x is a delimiter or the next value of its dealer, and takes next to after.
IsNext(x, next) == x # Delimiter => x[1] \in Proc /\ x[2] = next[x[1]]
Moves(x, next, after) ==
    \A j \in Proc : after[j] = IF x # Delimiter /\ x[1] = j THEN next[j] + 1 ELSE next[j]

\* What comes after the place does not count.
LEMMA EarlierAppend ==
  ASSUME NEW s \in Seq(Item), NEW x \in Item, NEW j
  PROVE  /\ \A n \in 1 .. Len(s) + 1 : Earlier(Append(s, x), n, j) = Earlier(s, n, j)
         /\ x # Delimiter /\ x[1] = j =>
               Earlier(Append(s, x), Len(s) + 2, j) = Earlier(s, Len(s) + 1, j) \cup {Len(s) + 1}
         /\ ~(x # Delimiter /\ x[1] = j) =>
               Earlier(Append(s, x), Len(s) + 2, j) = Earlier(s, Len(s) + 1, j)
<1> DEFINE t == Append(s, x)
<1>1. /\ Len(s) \in Nat /\ t[Len(s) + 1] = x
      /\ \A k \in 1 .. Len(s) : t[k] = s[k]
  BY AppendProperties
<1> HIDE DEF t
<1>2. \A n \in 1 .. Len(s) + 1 : 1 .. n - 1 \subseteq 1 .. Len(s)
  BY <1>1
<1>3. \A n \in 1 .. Len(s) + 1 : Earlier(t, n, j) = Earlier(s, n, j)
  BY <1>1, <1>2 DEF Earlier
<1>4. /\ 1 .. (Len(s) + 2) - 1 = (1 .. (Len(s) + 1) - 1) \cup {Len(s) + 1}
      /\ 1 .. (Len(s) + 1) - 1 = 1 .. Len(s)
  BY <1>1
<1>5. Earlier(t, Len(s) + 2, j) =
         {k \in (1 .. (Len(s) + 1) - 1) \cup {Len(s) + 1} : t[k] # Delimiter /\ t[k][1] = j}
  BY <1>4 DEF Earlier
<1>6. x # Delimiter /\ x[1] = j =>
         Earlier(t, Len(s) + 2, j) = Earlier(s, Len(s) + 1, j) \cup {Len(s) + 1}
  BY <1>1, <1>4, <1>5 DEF Earlier
<1>7. ~(x # Delimiter /\ x[1] = j) => Earlier(t, Len(s) + 2, j) = Earlier(s, Len(s) + 1, j)
  BY <1>1, <1>4, <1>5 DEF Earlier
<1> QED BY <1>3, <1>6, <1>7 DEF t

LEMMA EarlierSize ==
  ASSUME NEW s \in Seq(Item), NEW j
  PROVE  /\ IsFiniteSet(Earlier(s, Len(s) + 1, j)) /\ Cardinality(Earlier(s, Len(s) + 1, j)) \in Nat
         /\ Len(s) + 1 \notin Earlier(s, Len(s) + 1, j)
<1>1. 1 \in Int /\ (Len(s) + 1) - 1 \in Int /\ Earlier(s, Len(s) + 1, j) \subseteq 1 .. (Len(s) + 1) - 1
  BY DEF Earlier
<1>2. IsFiniteSet(1 .. (Len(s) + 1) - 1)
  BY <1>1, FS_Interval
<1>3. IsFiniteSet(Earlier(s, Len(s) + 1, j))
  BY <1>1, <1>2, FS_Subset
<1> QED BY <1>1, <1>3, FS_CardinalityType

\* The next value of a dealer, or a delimiter, may follow.
LEMMA InOrderAppend ==
  ASSUME NEW s \in Seq(Item), NEW next, NEW after, InOrder(s, next), NEW x \in Item,
         IsNext(x, next), Moves(x, next, after)
  PROVE  InOrder(Append(s, x), after)
<1> DEFINE t == Append(s, x)
<1>1. /\ Len(s) \in Nat /\ t[Len(s) + 1] = x /\ Len(t) = Len(s) + 1 /\ DOMAIN t = 1 .. Len(s) + 1
      /\ \A k \in 1 .. Len(s) : t[k] = s[k] /\ k \in DOMAIN s
      /\ (Len(s) + 1) + 1 = Len(s) + 2 /\ Len(s) + 1 \in 1 .. Len(s) + 1
  BY AppendProperties
<1>2. \A n \in 1 .. Len(s) + 1 : \A j : Earlier(t, n, j) = Earlier(s, n, j)
  BY EarlierAppend
<1>3. ASSUME NEW n \in DOMAIN t, t[n] # Delimiter
      PROVE  t[n][2] = Cardinality(Earlier(t, n, t[n][1]))
  <2> HIDE DEF t
  <2>1. CASE n \in 1 .. Len(s)
    <3>1. t[n] = s[n] /\ n \in DOMAIN s
      BY <1>1, <2>1
    <3>2. s[n][2] = Cardinality(Earlier(s, n, s[n][1]))
      BY <1>3, <3>1 DEF InOrder
    <3> QED BY <3>1, <3>2, <1>1, <1>2, <1>3
  <2>2. CASE n = Len(s) + 1
    <3>1. t[n] = x /\ x # Delimiter
      BY <1>1, <1>3, <2>2
    <3>2. next[x[1]] = Cardinality(Earlier(s, n, x[1]))
      BY <2>2, <3>1 DEF InOrder, IsNext
    <3> QED BY <3>1, <3>2, <1>1, <1>2, <2>2 DEF IsNext
  <2> QED BY <2>1, <2>2, <1>1, <1>3
<1>4. ASSUME NEW j \in Proc
      PROVE  after[j] = Cardinality(Earlier(t, Len(t) + 1, j))
  <2>0. next[j] = Cardinality(Earlier(s, Len(s) + 1, j)) /\ Len(t) + 1 = Len(s) + 2
    BY <1>1 DEF InOrder
  <2>1. CASE x # Delimiter /\ x[1] = j
    <3>1. Earlier(t, Len(s) + 2, j) = Earlier(s, Len(s) + 1, j) \cup {Len(s) + 1}
      BY <2>1, EarlierAppend
    <3>2. Cardinality(Earlier(s, Len(s) + 1, j) \cup {Len(s) + 1})
             = Cardinality(Earlier(s, Len(s) + 1, j)) + 1
      BY EarlierSize, FS_AddElement
    <3> HIDE DEF t
    <3> QED BY <2>0, <2>1, <3>1, <3>2 DEF Moves
  <2>2. CASE ~(x # Delimiter /\ x[1] = j)
    <3>1. Earlier(t, Len(s) + 2, j) = Earlier(s, Len(s) + 1, j)
      BY <2>2, EarlierAppend
    <3> HIDE DEF t
    <3> QED BY <2>0, <2>2, <3>1 DEF Moves
  <2> QED BY <2>1, <2>2
<1> HIDE DEF t
<1>5. InOrder(t, after)
  BY <1>3, <1>4 DEF InOrder
<1> QED BY <1>5 DEF t

\* How many of the first i batches take a chunk of dealer j.
Taken(pending, j, i) == Cardinality({k \in 0 .. i - 1 : InBatch(pending, j, k)})

\* A dealer that has a chunk in a batch has one in each batch before.
LEMMA TakenType ==
  ASSUME NEW pending \in [Proc -> Int], NEW j \in Proc, NEW i \in Nat
  PROVE  /\ Taken(pending, j, i) \in Nat
         /\ InBatch(pending, j, i) => Taken(pending, j, i) = i
         /\ Taken(pending, j, i + 1) = IF InBatch(pending, j, i) THEN Taken(pending, j, i) + 1
                                                               ELSE Taken(pending, j, i)
<1> DEFINE d == pending[j] \div ChunkSize
           took == {k \in 0 .. i - 1 : InBatch(pending, j, k)}
           next == {k \in 0 .. (i + 1) - 1 : InBatch(pending, j, k)}
<1>1. d \in Int /\ \A k : InBatch(pending, j, k) <=> d > k
  BY SizeAssumption DEF InBatch
<1> HIDE DEF d
<1>2. 0 \in Int /\ i - 1 \in Int /\ IsFiniteSet(0 .. i - 1)
      /\ Cardinality(0 .. i - 1) = IF 0 > i - 1 THEN 0 ELSE (i - 1) - 0 + 1
  BY FS_Interval
<1>3. Cardinality(0 .. i - 1) = i
  BY <1>2
<1>4. IsFiniteSet(took) /\ Cardinality(took) \in Nat
  BY <1>2, FS_Subset, FS_CardinalityType
<1>5. d > i => took = 0 .. i - 1
  BY <1>1
<1>6. next = IF d > i THEN took \cup {i} ELSE took
  BY <1>1
<1>7. i \notin took
  OBVIOUS
<1> HIDE DEF took, next
<1>8. Cardinality(next) = IF d > i THEN Cardinality(took) + 1 ELSE Cardinality(took)
  BY <1>4, <1>6, <1>7, FS_AddElement
<1> QED BY <1>1, <1>3, <1>4, <1>5, <1>8 DEF Taken, took, next

\* Appending a sequence of one item or none.
LEMMA ConcatOne ==
  ASSUME NEW s \in Seq(Item), NEW f \in Seq(Item), NEW x \in Item
  PROVE  s \o (f \o <<x>>) = Append(s \o f, x) /\ s \o f \in Seq(Item)
<1>1. <<x>> \in Seq(Item) /\ s \o f \in Seq(Item)
  BY ConcatProperties
<1>2. s \o (f \o <<x>>) = (s \o f) \o <<x>>
  BY <1>1, ConcatAssociative
<1>3. Append(s \o f, x) = (s \o f) \o <<x>>
  BY <1>1, AppendIsConcat
<1> QED BY <1>1, <1>2, <1>3

\* Batch i takes "have" to "after".
TakesBatch(pending, i, have, after) ==
    \A j \in Proc : after[j] = IF InBatch(pending, j, i) THEN have[j] + 1 ELSE have[j]
Reaches(next, pending, i, have) ==
    \A j \in Proc : InBatch(pending, j, i) => have[j] = next[j] + i

\* A batch takes the next value of each dealer that has one pending.
LEMMA InOrderBatch ==
  ASSUME ChunkSize = 1, NEW s \in Seq(Item), NEW next \in [Proc -> Nat],
         NEW pending \in [Proc -> Int], NEW i \in Nat, NEW have \in [Proc -> Nat], InOrder(s, have),
         Reaches(next, pending, i, have),
         NEW after \in [Proc -> Nat], TakesBatch(pending, i, have, after)
  PROVE  InOrder(s \o LedgerBatch(next, pending, i), after)
<1> DEFINE parts == LedgerChunks(next, pending, i)
           mid == [x \in 0 .. N |-> [j \in Proc |-> IF j < x THEN after[j] ELSE have[j]]]
<1>1. parts \in Seq(Seq(Item)) /\ Len(parts) = N /\ N \in Nat
  BY LedgerBatchType, SizeAssumption
<1>2. PICK f \in [0 .. N -> Seq(Item)] : Flattens(f, parts)
  BY <1>1, FlattenRuns
<1>3. ASSUME NEW x \in 0 .. N - 1
      PROVE  /\ x \in Proc /\ x + 1 \in 1 .. N /\ x \in 0 .. N /\ x + 1 \in 0 .. N
             /\ \A j \in Proc : mid[x + 1][j] = IF j = x THEN after[j] ELSE mid[x][j]
             /\ mid[x][x] = have[x]
             /\ parts[x + 1] = IF InBatch(pending, x, i) THEN <<<<x, next[x] + i>>>> ELSE <<>>
  <2>1. x \in Proc /\ x + 1 \in 1 .. N /\ x \in 0 .. N /\ x + 1 \in 0 .. N /\ (x + 1) - 1 = x
    BY <1>1 DEF Proc
  <2>2. \A j \in Proc : mid[x + 1][j] = IF j = x THEN after[j] ELSE mid[x][j]
    BY <2>1 DEF Proc
  <2>3. mid[x][x] = have[x]
    BY <2>1
  <2>4. LedgerChunk(next, x, i) = <<<<x, next[x] + i>>>>
    <3>1. next[x] + i + 1 - 1 = next[x] + i
      BY <2>1
    <3> QED BY <3>1 DEF LedgerChunk
  <2>5. parts[x + 1] = IF InBatch(pending, x, i) THEN LedgerChunk(next, x, i) ELSE <<>>
    BY <2>1 DEF LedgerChunks
  <2> QED BY <2>1, <2>2, <2>3, <2>4, <2>5
<1> HIDE DEF parts, mid
<1> DEFINE Good == {x \in Nat : x \in 0 .. N => InOrder(s \o f[x], mid[x])}
<1>4. 0 \in Good
  <2>1. s \o f[0] = s
    BY <1>2, ConcatEmptySeq DEF Flattens
  <2>2. \A j \in Proc : mid[0][j] = have[j]
    BY <1>1 DEF mid, Proc
  <2>3. InOrder(s, mid[0])
    BY <2>2 DEF InOrder
  <2> QED BY <2>1, <2>3
<1>5. ASSUME NEW x \in Nat, x \in Good, x + 1 \in 0 .. N
      PROVE  InOrder(s \o f[x + 1], mid[x + 1])
  <2>1. x \in 0 .. N - 1
    BY <1>1, <1>5
  <2>2. InOrder(s \o f[x], mid[x]) /\ f[x] \in Seq(Item) /\ s \o f[x] \in Seq(Item)
    BY <2>1, <1>3, <1>5, ConcatProperties
  <2>3. f[x + 1] = f[x] \o parts[x + 1]
    BY <2>1, <1>1, <1>2 DEF Flattens
  <2>4. CASE InBatch(pending, x, i)
    <3> DEFINE n == next[x] + i
               v == <<x, n>>
    <3>1. /\ x \in Proc /\ \A j \in Proc : mid[x + 1][j] = IF j = x THEN after[j] ELSE mid[x][j]
          /\ mid[x][x] = have[x] /\ parts[x + 1] = <<v>>
      BY <1>3, <2>1, <2>4
    <3>2. n \in Nat /\ have[x] = n /\ after[x] = n + 1
      BY <3>1, <2>4 DEF Reaches, TakesBatch
    <3> HIDE DEF n
    <3>3. v \in Item /\ v # Delimiter /\ v[1] = x /\ v[2] = n
      <4>1. v \in Proc \X Nat
        BY <3>1, <3>2
      <4> QED BY <4>1, SizeAssumption DEF Item, Delimiter
    <3> HIDE DEF v
    <3>4. IsNext(v, mid[x])
      BY <3>1, <3>2, <3>3 DEF IsNext
    <3>5. Moves(v, mid[x], mid[x + 1])
      BY <3>1, <3>2, <3>3 DEF Moves
    <3>6. InOrder(Append(s \o f[x], v), mid[x + 1])
      BY <2>2, <3>3, <3>4, <3>5, InOrderAppend
    <3>7. s \o (f[x] \o <<v>>) = Append(s \o f[x], v)
      BY <2>2, <3>3, ConcatOne
    <3> QED BY <2>3, <3>1, <3>6, <3>7
  <2>5. CASE ~InBatch(pending, x, i)
    <3>1. f[x + 1] = f[x]
      BY <1>3, <2>1, <2>2, <2>3, <2>5, ConcatEmptySeq
    <3>2. \A j \in Proc : mid[x + 1][j] = mid[x][j]
      <4>1. /\ x \in Proc /\ \A j \in Proc : mid[x + 1][j] = IF j = x THEN after[j] ELSE mid[x][j]
            /\ mid[x][x] = have[x]
        BY <1>3, <2>1
      <4>2. after[x] = have[x]
        BY <4>1, <2>5 DEF TakesBatch
      <4> QED BY <4>1, <4>2
    <3> QED BY <2>2, <3>1, <3>2 DEF InOrder
  <2> QED BY <2>4, <2>5
<1>6. InOrder(s \o f[N], mid[N])
  <2>1. Nat \subseteq Good
    <3>1. \A x \in Nat : x \in Good => x + 1 \in Good
      BY <1>5
    <3> HIDE DEF Good
    <3> QED BY <1>4, <3>1, Induction
  <2> QED BY <2>1, <1>1
<1>7. \A j \in Proc : mid[N][j] = after[j]
  BY <1>1 DEF mid, Proc
<1>8. f[N] = FlattenSeq(parts) /\ f[N] \in Seq(Item) /\ Delimiter \in Item
  BY <1>1, <1>2 DEF Flattens, Item, Delimiter
<1>9. s \o LedgerBatch(next, pending, i) = Append(s \o f[N], Delimiter) /\ s \o f[N] \in Seq(Item)
  BY <1>8, ConcatOne DEF LedgerBatch, parts
<1>10. InOrder(Append(s \o f[N], Delimiter), after)
  <2>1. IsNext(Delimiter, mid[N]) /\ Moves(Delimiter, mid[N], after)
    BY <1>7 DEF IsNext, Moves
  <2> QED BY <2>1, <1>6, <1>8, <1>9, InOrderAppend
<1> QED BY <1>9, <1>10

TakesAll(next, pending, after) == \A j \in Proc : after[j] = next[j] + Returned(pending, j)

\* All batches take the values from next on, as many as are returned.
LEMMA InOrderOutput ==
  ASSUME ChunkSize = 1, NEW s \in Seq(Item), NEW next \in [Proc -> Nat],
         NEW pending \in [Proc -> Int], InOrder(s, next), NEW after,
         TakesAll(next, pending, after)
  PROVE  InOrder(s \o LedgerOutput(next, pending), after)
<1> DEFINE all == LedgerBatches(next, pending)
           B == Len(all)
           mid == [i \in 0 .. B |-> [j \in Proc |-> next[j] + Taken(pending, j, i)]]
<1>1. /\ all \in Seq(Seq(Item)) /\ B \in Nat
      /\ B = IF Batches(pending) > 0 THEN Batches(pending) ELSE 0
      /\ \A i \in 1 .. B : all[i] = LedgerBatch(next, pending, i - 1)
  BY LedgerBatchesType
<1> HIDE DEF all
<1>2. PICK g \in [0 .. B -> Seq(Item)] : Flattens(g, all)
  BY <1>1, FlattenRuns
<1> HIDE DEF B
<1>3. ASSUME NEW i \in 0 .. B
      PROVE  mid[i] \in [Proc -> Nat]
  <2>1. i \in Nat
    BY <1>1
  <2>2. \A j \in Proc : Taken(pending, j, i) \in Nat
    BY <2>1, TakenType
  <2> QED BY <2>2
<1>4. ASSUME NEW i \in 0 .. B, NEW j \in Proc
      PROVE  mid[i][j] = next[j] + Taken(pending, j, i)
  OBVIOUS
<1> HIDE DEF mid
<1> DEFINE Good == {i \in Nat : i \in 0 .. B => InOrder(s \o g[i], mid[i])}
<1>5. 0 \in Good
  <2>1. s \o g[0] = s
    BY <1>2, ConcatEmptySeq DEF Flattens
  <2>2. ASSUME NEW j \in Proc PROVE mid[0][j] = next[j]
    <3>1. Taken(pending, j, 0) = 0
      <4>1. {k \in 0 .. 0 - 1 : InBatch(pending, j, k)} = {}
        OBVIOUS
      <4> QED BY <4>1, FS_EmptySet DEF Taken
    <3> QED BY <3>1, <1>1, <1>4
  <2>3. InOrder(s, mid[0])
    BY <2>2 DEF InOrder
  <2> QED BY <2>1, <2>3
<1>6. ASSUME NEW i \in Nat, i \in Good, i + 1 \in 0 .. B
      PROVE  InOrder(s \o g[i + 1], mid[i + 1])
  <2>1. i \in 0 .. B /\ i \in 0 .. B - 1 /\ i + 1 \in 1 .. B /\ (i + 1) - 1 = i
    BY <1>1, <1>6
  <2>2. InOrder(s \o g[i], mid[i]) /\ g[i] \in Seq(Item) /\ s \o g[i] \in Seq(Item)
    BY <2>1, <1>6, ConcatProperties
  <2>3. g[i + 1] = g[i] \o LedgerBatch(next, pending, i)
    BY <2>1, <1>1, <1>2 DEF Flattens, B
  <2>4. /\ mid[i] \in [Proc -> Nat] /\ mid[i + 1] \in [Proc -> Nat]
        /\ Reaches(next, pending, i, mid[i]) /\ TakesBatch(pending, i, mid[i], mid[i + 1])
    <3>1. ASSUME NEW j \in Proc
          PROVE  /\ InBatch(pending, j, i) => mid[i][j] = next[j] + i
                 /\ mid[i + 1][j] = IF InBatch(pending, j, i) THEN mid[i][j] + 1 ELSE mid[i][j]
      <4>1. /\ mid[i][j] = next[j] + Taken(pending, j, i)
            /\ mid[i + 1][j] = next[j] + Taken(pending, j, i + 1)
        BY <2>1, <1>4, <1>6
      <4>2. /\ Taken(pending, j, i) \in Nat
            /\ InBatch(pending, j, i) => Taken(pending, j, i) = i
            /\ Taken(pending, j, i + 1) = IF InBatch(pending, j, i) THEN Taken(pending, j, i) + 1
                                                                  ELSE Taken(pending, j, i)
        BY TakenType
      <4>3. next[j] \in Nat
        OBVIOUS
      <4> QED BY <4>1, <4>2, <4>3
    <3> QED BY <3>1, <2>1, <1>3, <1>6 DEF Reaches, TakesBatch
  <2>5. InOrder((s \o g[i]) \o LedgerBatch(next, pending, i), mid[i + 1])
    BY <2>2, <2>4, InOrderBatch
  <2>6. s \o (g[i] \o LedgerBatch(next, pending, i)) = (s \o g[i]) \o LedgerBatch(next, pending, i)
    <3>1. LedgerBatch(next, pending, i) \in Seq(Item)
      BY <1>6, LedgerBatchType
    <3> DEFINE a == g[i]
               b == LedgerBatch(next, pending, i)
    <3>2. a \in Seq(Item) /\ b \in Seq(Item)
      BY <2>2, <3>1
    <3> HIDE DEF a, b
    <3>3. s \o (a \o b) = (s \o a) \o b
      BY <3>2, ConcatAssociative, SMTT(30)
    <3> QED BY <3>3 DEF a, b
  <2> QED BY <2>3, <2>5, <2>6
<1>7. InOrder(s \o g[B], mid[B])
  <2>1. Nat \subseteq Good
    <3>1. \A i \in Nat : i \in Good => i + 1 \in Good
      BY <1>6
    <3> HIDE DEF Good
    <3> QED BY <1>5, <3>1, Induction
  <2> QED BY <2>1, <1>1
<1>8. ASSUME NEW j \in Proc PROVE mid[B][j] = after[j]
  <2>1. 0 .. B - 1 = 0 .. Batches(pending) - 1
    BY <1>1, BatchesType
  <2>2. Taken(pending, j, B) = Cardinality({k \in 0 .. Batches(pending) - 1 : InBatch(pending, j, k)})
    BY <2>1 DEF Taken
  <2>3. Taken(pending, j, B) \in Nat
    BY <1>1, TakenType
  <2>4. Returned(pending, j) = Taken(pending, j, B)
    BY <2>2, <2>3 DEF Returned
  <2>6. after[j] = next[j] + Returned(pending, j)
    BY DEF TakesAll
  <2>5. mid[B][j] = next[j] + Taken(pending, j, B)
    <3>1. B \in 0 .. B
      BY <1>1
    <3> QED BY <3>1, <1>4
  <2> QED BY <2>4, <2>5, <2>6
<1>9. g[B] = LedgerOutput(next, pending)
  BY <1>2 DEF Flattens, LedgerOutput, all, B
<1> QED BY <1>7, <1>8, <1>9 DEF InOrder

-----------------------------------------------------------------------------
(* Every action keeps the invariant of the state.                          *)

\* The invariant of the state holds at first.
LEMMA InitState == Init => StateInv
<1> SUFFICES ASSUME Init PROVE StateInv
  OBVIOUS
<1> USE DEF Init
<1>2. Types
  BY SizeAssumption, EmptySeq DEF Types
<1>3. TypeOK
  BY SizeAssumption DEF TypeOK
<1>4. Resolved
  BY DEF Resolved
<1>5. Phases
  BY DEF Phases, Runs
<1>6. DecidedInOrder /\ ReportsTrue /\ ReportsGrow
  BY DEF DecidedInOrder, ReportsTrue, ReportsGrow, Told, Runs
<1> QED BY <1>2, <1>3, <1>4, <1>5, <1>6 DEF StateInv

\* _recv_loop keeps the invariant of the state.
LEMMA RecvValueState ==
  ASSUME StateInv, NEW p \in Honest, NEW j \in Proc,
         NEW id \in 0 .. Arrives[p][j] - 1, RecvValue(p, j, id)
  PROVE  StateInv'
<1> DEFINE held == heap[p][j] \cup {id}
           old  == inputs[p][j]
           n    == Drained(held, old)
<1>1. /\ heap' = [heap EXCEPT ![p][j] = {x \in held : x >= n}]
      /\ inputs' = [inputs EXCEPT ![p][j] = n]
      /\ outputs' = [outputs EXCEPT ![p][j] = Resolves(@, old, n)]
      /\ UNCHANGED <<next_idx, queue, report, subset, run, runner>>
  BY DEF RecvValue
<1>2. Types /\ TypeOK /\ Resolved /\ ReportsTrue
  BY DEF StateInv
<1>3. /\ held \subseteq 0 .. Arrives[p][j] - 1 /\ old \in Nat /\ Arrives[p][j] \in Nat
      /\ old <= Arrives[p][j]
  BY <1>2, SizeAssumption DEF TypeOK
<1>4. IsFiniteSet(held) /\ Cardinality(held) \in Nat
  <2>1. 0 \in Int /\ Arrives[p][j] - 1 \in Int
    BY <1>3
  <2>2. IsFiniteSet(0 .. Arrives[p][j] - 1)
    BY <2>1, FS_Interval
  <2> HIDE DEF held
  <2> QED BY <1>3, <2>2, FS_Subset, FS_CardinalityType
<1>5. /\ n \in Nat /\ n >= old /\ n \notin held
      /\ old .. n - 1 \subseteq held
  <2> HIDE DEF held, old
  <2>1. n \in old .. old + Cardinality(held) /\ n \notin held /\ old .. n - 1 \subseteq held
    BY <1>3, DrainedNext
  <2> HIDE DEF n
  <2> QED BY <2>1, <1>3, <1>4
<1> HIDE DEF n
<1>6. n <= Arrives[p][j]
  <2>1. CASE n = old
    BY <2>1, <1>3
  <2>2. CASE n > old
    <3>1. n - 1 \in held
      BY <1>3, <1>5, <2>2
    <3> QED BY <3>1, <1>3, <1>5
  <2> QED BY <2>1, <2>2, <1>3, <1>5
<1>7. /\ heap \in [Honest -> [Proc -> SUBSET Nat]]
      /\ inputs \in [Honest -> [Proc -> Nat]]
      /\ outputs \in [Honest -> [Proc -> Seq(Nat \cup {None})]]
      /\ None \notin Nat
  BY <1>2, SizeAssumption DEF Types
<1> DEFINE futures == outputs[p][j]
           resolved == Resolves(futures, old, n)
<1>8. /\ futures \in Seq(Nat \cup {None})
      /\ resolved \in Seq(Nat \cup {None})
      /\ Len(resolved) = Len(futures)
      /\ DOMAIN resolved = 1 .. Len(futures)
      /\ \A k \in 1 .. Len(futures) :
            resolved[k] = IF k > old /\ k <= n THEN k - 1 ELSE futures[k]
  <2>1. futures \in Seq(Nat \cup {None}) /\ DOMAIN futures = 1 .. Len(futures)
    BY <1>7
  <2> HIDE DEF futures
  <2>2. \A k \in 1 .. Len(futures) : futures[k] \in Nat \cup {None}
    BY <2>1
  <2>3. resolved = [k \in 1 .. Len(futures) |-> IF k > old /\ k <= n THEN k - 1 ELSE futures[k]]
    BY <2>1 DEF Resolves
  <2> HIDE DEF resolved
  <2>4. resolved \in [1 .. Len(futures) -> Nat \cup {None}] /\ Len(futures) \in Nat
    BY <2>1, <2>2, <2>3
  <2> QED BY <2>1, <2>3, <2>4
<1>9. /\ heap'[p][j] = {x \in held : x >= n} /\ inputs'[p][j] = n /\ outputs'[p][j] = resolved
      /\ \A q \in Honest, i \in Proc : <<q, i>> # <<p, j>> =>
            heap'[q][i] = heap[q][i] /\ inputs'[q][i] = inputs[q][i] /\ outputs'[q][i] = outputs[q][i]
  BY <1>1, <1>7
<1>10. Types'
  <2>1. heap' \in [Honest -> [Proc -> SUBSET Nat]]
    BY <1>1, <1>3, <1>7
  <2>2. inputs' \in [Honest -> [Proc -> Nat]]
    BY <1>1, <1>5, <1>7
  <2>3. outputs' \in [Honest -> [Proc -> Seq(Nat \cup {None})]]
    <3>1. outputs' = [outputs EXCEPT ![p][j] = resolved]
      BY <1>1, <1>7
    <3> HIDE DEF resolved
    <3> QED BY <3>1, <1>7, <1>8
  <2> QED BY <2>1, <2>2, <2>3, <1>1, <1>2 DEF Types
<1> HIDE DEF resolved
<1>11. TypeOK'
  <2>1. ASSUME NEW q \in Honest, NEW i \in Proc
        PROVE  (/\ heap[q][i] \subseteq 0 .. Arrives[q][i] - 1
                /\ inputs[q][i] \in 0 .. Arrives[q][i]
                /\ inputs[q][i] \notin heap[q][i]
                /\ next_idx[q][i] \in 0 .. Len(outputs[q][i])
                /\ \A k \in DOMAIN outputs[q][i] : outputs[q][i][k] \in {None, k - 1})'
    <3>1. CASE <<q, i>> = <<p, j>>
      <4>1. \A k \in DOMAIN futures : futures[k] \in {None, k - 1}
        BY <1>2 DEF TypeOK
      <4>2. next_idx[p][j] \in 0 .. Len(futures)
        BY <1>2 DEF TypeOK
      <4>3. DOMAIN futures = 1 .. Len(futures)
        BY <1>8
      <4> HIDE DEF futures, held, old
      <4>4. \A k \in 1 .. Len(futures) : resolved[k] \in {None, k - 1}
        BY <1>8, <4>1, <4>3
      <4>5. q = p /\ i = j
        BY <3>1
      <4>6. heap'[p][j] \subseteq 0 .. Arrives[p][j] - 1
        BY <1>3, <1>9
      <4>7. inputs'[p][j] \in 0 .. Arrives[p][j] /\ inputs'[p][j] \notin heap'[p][j]
        BY <1>3, <1>5, <1>6, <1>9
      <4>8. next_idx'[p][j] \in 0 .. Len(outputs'[p][j])
        BY <4>2, <1>1, <1>8, <1>9
      <4>9. \A k \in DOMAIN outputs'[p][j] : outputs'[p][j][k] \in {None, k - 1}
        BY <4>4, <1>8, <1>9
      <4> QED BY <4>5, <4>6, <4>7, <4>8, <4>9
    <3>2. CASE <<q, i>> # <<p, j>>
      BY <3>2, <1>1, <1>2, <1>9 DEF TypeOK
    <3> QED BY <3>1, <3>2
  <2> QED BY <2>1, <1>1, <1>2 DEF TypeOK
<1>12. Resolved'
  <2>1. ASSUME NEW q \in Honest, NEW i \in Proc, NEW k \in DOMAIN outputs'[q][i]
        PROVE  outputs'[q][i][k] # None <=> k <= inputs'[q][i]
    <3>1. CASE <<q, i>> = <<p, j>>
      <4>1. \A x \in DOMAIN futures : futures[x] # None <=> x <= old
        BY <1>2 DEF Resolved
      <4>2. DOMAIN futures = 1 .. Len(futures)
        BY <1>8
      <4> HIDE DEF futures, held, old
      <4> QED BY <3>1, <4>1, <4>2, <1>3, <1>5, <1>7, <1>8, <1>9
    <3>2. CASE <<q, i>> # <<p, j>>
      BY <3>2, <1>2, <1>9 DEF Resolved
    <3> QED BY <3>1, <3>2
  <2> QED BY <2>1 DEF Resolved
<1>13. ReportsTrue'
  <2>1. \A q \in Honest, i \in Proc :
           inputs[q][i] \in Nat /\ inputs'[q][i] \in Nat /\ inputs'[q][i] >= inputs[q][i]
    <3> TAKE q \in Honest, i \in Proc
    <3>1. inputs[q][i] \in Nat
      BY <1>7
    <3>2. CASE <<q, i>> = <<p, j>>
      BY <3>1, <3>2, <1>5, <1>9
    <3>3. CASE <<q, i>> # <<p, j>>
      BY <3>1, <3>3, <1>9
    <3> QED BY <3>2, <3>3
  <2>2. \A q \in Honest : report[q] # None => report[q] \in [Proc -> Nat]
    BY <1>2 DEF Types
  <2>3. \A r \in Runs : \A q \in Proc : Told(r, q) => subset[r][q] \in [Proc -> Nat]
    BY <1>2 DEF Types, Told
  <2>4. \A r, q : Told(r, q)' <=> Told(r, q)
    BY <1>1 DEF Told
  <2>5. ASSUME NEW q \in Honest, NEW i \in Proc
        PROVE  /\ report[q] # None => report[q][i] <= inputs'[q][i]
               /\ \A r \in Runs : Told(r, q) =>
                     /\ subset[r][q][i] <= inputs'[q][i]
                     /\ report[q] # None => subset[r][q][i] <= report[q][i]
    <3>1. q \in Proc
      BY DEF Honest
    <3> QED BY <3>1, <2>1, <2>2, <2>3, <1>2 DEF ReportsTrue
  <2> QED BY <2>4, <2>5, <1>1 DEF ReportsTrue
<1>14. Phases' /\ DecidedInOrder' /\ ReportsGrow'
  BY <1>1 DEF StateInv, Phases, DecidedInOrder, ReportsGrow, Told
<1> QED BY <1>10, <1>11, <1>12, <1>13, <1>14 DEF StateInv

\* Reporting the counts keeps it.
LEMMA StartAcsState ==
  ASSUME StateInv, NEW p \in Honest, StartAcs(p)
  PROVE  StateInv'
<1> USE DEF StartAcs
<1>1. Types /\ TypeOK /\ Resolved /\ Phases /\ ReportsTrue
  BY DEF StateInv
<1>2. inputs[p] \in [Proc -> Nat] /\ inputs[p] # None
  BY <1>1, SizeAssumption, SMTT(30) DEF Types
<1>3. Types'
  BY <1>1, <1>2 DEF Types
<1>4. TypeOK' /\ Resolved'
  BY <1>1 DEF TypeOK, Resolved
<1>5. Phases'
  BY <1>1, <1>2 DEF Phases, Types
<1>6. ReportsTrue'
  <2>1. \A r, q : Told(r, q)' <=> Told(r, q)
    BY DEF Told
  <2>2. \A q \in Honest : q # p => report'[q] = report[q]
    BY <1>1 DEF Types
  <2>3. report'[p] \in {inputs[p], None}
    BY <1>1 DEF Types
  <2>4. ASSUME NEW q \in Honest, NEW i \in Proc
        PROVE  /\ report'[q] # None => report'[q][i] <= inputs[q][i]
               /\ \A r \in Runs : Told(r, q) =>
                     /\ subset[r][q][i] <= inputs[q][i]
                     /\ report'[q] # None => subset[r][q][i] <= report'[q][i]
    <3>1. inputs[q][i] \in Nat
      BY <1>1 DEF Types
    <3> QED BY <3>1, <2>2, <2>3, <1>1 DEF ReportsTrue
  <2> QED BY <2>1, <2>4 DEF ReportsTrue
<1>7. DecidedInOrder' /\ ReportsGrow'
  BY DEF StateInv, DecidedInOrder, ReportsGrow, Told
<1> QED BY <1>3, <1>4, <1>5, <1>6, <1>7 DEF StateInv

\* One of more than T parties is honest.
LEMMA HonestMember ==
  ASSUME NEW S \in SUBSET Proc, Cardinality(S) > T
  PROVE  \E q \in S : q \in Honest
<1>1. IsFiniteSet(Faulty) /\ Cardinality(Faulty) <= T /\ Cardinality(Faulty) \in Nat /\ T \in Nat
  BY Parties, SizeAssumption, FS_Subset, FS_CardinalityType
<1> SUFFICES ASSUME S \subseteq Faulty PROVE FALSE
  BY DEF Honest
<1>2. Cardinality(S) <= Cardinality(Faulty) /\ Cardinality(S) \in Nat
  BY <1>1, FS_Subset, FS_CardinalityType
<1> QED BY <1>1, <1>2

\* A subset is decided after all before it, with reports or None for each party.
LEMMA Decision ==
  ASSUME StateInv, NEW r \in Runs, NEW S \in SUBSET Proc,
         NEW lies \in [S \cap Faulty -> Reports], DecideAcs(r, S, lies)
  PROVE  /\ subset'[r] \in [Proc -> [Proc -> Nat] \cup {None}]
         /\ subset'[r] # None
         /\ \A s \in Runs : s # r => subset'[s] = subset[s]
         /\ \A s \in Runs : s < r => subset[s] # None
         /\ \A s \in Runs : s > r => subset[s] = None
<1>1. Types /\ Phases /\ DecidedInOrder
  BY DEF StateInv
<1>2. subset'[r] = [q \in Proc |-> IF q \notin S THEN None
                                   ELSE IF q \in Faulty THEN lies[q] ELSE report[q]]
  BY <1>1 DEF DecideAcs, Undecided, Quorums, Types
<1>3. \A s \in Runs : s # r => subset'[s] = subset[s]
  BY <1>1 DEF DecideAcs, Undecided, Quorums, Types
<1>4. subset'[r] \in [Proc -> [Proc -> Nat] \cup {None}]
  <2>1. \A q \in S : q \in Faulty => lies[q] \in [Proc -> Nat]
    BY SizeAssumption
  <2>2. \A q \in Honest : report[q] \in [Proc -> Nat] \cup {None}
    BY <1>1 DEF Types
  <2> QED BY <1>2, <2>1, <2>2 DEF Honest
<1>5. subset'[r] # None
  BY <1>4, SizeAssumption
<1>6. \A s \in Runs : s < r => subset[s] # None
  <2>1. Cardinality(S) > T
    <3>1. Cardinality(S) >= N - T /\ Cardinality(S) \in Nat
      BY Parties, FS_Subset, FS_CardinalityType DEF DecideAcs, Undecided, Quorums
    <3> QED BY <3>1, SizeAssumption
  <2>2. PICK q \in S : q \in Honest
    BY <2>1, HonestMember
  <2>3. run[q] = r
    BY <2>2 DEF DecideAcs, Undecided, Quorums
  <2> QED BY <2>2, <2>3, <1>1 DEF Phases
<1>7. \A s \in Runs : s > r => subset[s] = None
  BY <1>1 DEF DecideAcs, Undecided, Quorums, DecidedInOrder, Runs
<1> QED BY <1>3, <1>4, <1>5, <1>6, <1>7

\* The decision of a subset keeps the invariant of the state.
LEMMA DecideAcsState ==
  ASSUME StateInv, NEW r \in Runs, NEW S \in SUBSET Proc,
         NEW lies \in [S \cap Faulty -> Reports], DecideAcs(r, S, lies)
  PROVE  StateInv'
<1>1. Types /\ TypeOK /\ Resolved /\ Phases /\ DecidedInOrder /\ ReportsTrue /\ ReportsGrow
  BY DEF StateInv
<1>2. /\ subset'[r] \in [Proc -> [Proc -> Nat] \cup {None}]
      /\ subset'[r] # None
      /\ \A s \in Runs : s # r => subset'[s] = subset[s]
      /\ \A s \in Runs : s < r => subset[s] # None
      /\ \A s \in Runs : s > r => subset[s] = None
  BY Decision, Zenon
<1>3. /\ report' = [p \in Honest |-> IF run[p] = r THEN None ELSE report[p]]
      /\ subset[r] = None
      /\ UNCHANGED <<heap, inputs, outputs, next_idx, queue, run, runner>>
  BY DEF DecideAcs, Undecided, Quorums
<1>4. subset'[r] = [q \in Proc |-> IF q \notin S THEN None
                                   ELSE IF q \in Faulty THEN lies[q] ELSE report[q]]
  BY <1>1 DEF DecideAcs, Undecided, Quorums, Types
<1>5. Types'
  <2>1. subset' \in [Runs -> [Proc -> [Proc -> Nat] \cup {None}] \cup {None}]
    <3>1. subset' = [subset EXCEPT ![r] = subset'[r]]
      BY <1>1, <1>4 DEF DecideAcs, Undecided, Quorums, Types
    <3> QED BY <3>1, <1>1, <1>2 DEF Types
  <2>2. report' \in [Honest -> [Proc -> Nat] \cup {None}]
    BY <1>1, <1>3 DEF Types
  <2> QED BY <2>1, <2>2, <1>1, <1>3 DEF Types
<1>6. TypeOK' /\ Resolved'
  BY <1>1, <1>3 DEF TypeOK, Resolved
<1>7. Phases'
  <2> SUFFICES ASSUME NEW p \in Honest
               PROVE  /\ \A s \in Runs : s < run[p] => subset'[s] # None
                      /\ runner[p] # "sleeping" => run[p] \in Runs
                      /\ runner[p] = "dead" => subset'[run[p]] # None
                      /\ report'[p] # None <=> runner[p] = "waiting" /\ subset'[run[p]] = None
    BY <1>3 DEF Phases
  <2>1. report'[p] = IF run[p] = r THEN None ELSE report[p]
    BY <1>3
  <2>2. CASE run[p] = r
    BY <2>1, <2>2, <1>1, <1>2 DEF Phases
  <2>3. CASE run[p] # r
    BY <2>1, <2>3, <1>1, <1>2 DEF Phases
  <2> QED BY <2>2, <2>3
<1>8. DecidedInOrder'
  BY <1>1, <1>2 DEF DecidedInOrder, Runs
<1>9. \A q \in S : q \in Honest => run[q] = r /\ report[q] = subset'[r][q] /\ report'[q] = None
  BY <1>3, <1>4 DEF DecideAcs, Undecided, Quorums, Honest
<1>10. \A q \in Proc : Told(r, q)' => q \in S
  BY <1>4 DEF Told
<1>11. \A s \in Runs : s # r => \A q : Told(s, q)' <=> Told(s, q)
  BY <1>2 DEF Told
<1>12. ReportsTrue'
  <2> SUFFICES ASSUME NEW p \in Honest, NEW j \in Proc
               PROVE  /\ report'[p] # None => report'[p][j] <= inputs[p][j]
                      /\ \A s \in Runs : Told(s, p)' =>
                            /\ subset'[s][p][j] <= inputs[p][j]
                            /\ report'[p] # None => subset'[s][p][j] <= report'[p][j]
    BY <1>3 DEF ReportsTrue
  <2>1. report'[p] # None => report'[p] = report[p] /\ p \notin S
    BY <1>3, <1>9
  <2>2. report'[p] # None => report'[p][j] <= inputs[p][j]
    BY <2>1, <1>1 DEF ReportsTrue
  <2>3. ASSUME NEW s \in Runs, Told(s, p)'
        PROVE  /\ subset'[s][p][j] <= inputs[p][j]
               /\ report'[p] # None => subset'[s][p][j] <= report'[p][j]
    <3>1. CASE s = r
      <4>1. p \in S /\ subset'[s][p] # None
        BY <2>3, <3>1, <1>10 DEF Told, Honest
      <4>2. report[p] # None /\ subset'[s][p] = report[p] /\ report'[p] = None
        BY <4>1, <3>1, <1>9
      <4> QED BY <4>2, <1>1 DEF ReportsTrue
    <3>2. CASE s # r
      BY <3>2, <2>1, <2>3, <1>1, <1>2, <1>11 DEF ReportsTrue
    <3> QED BY <3>1, <3>2
  <2> QED BY <2>2, <2>3
<1>13. ReportsGrow'
  <2> SUFFICES ASSUME NEW n \in Runs, NEW s \in Runs, s < n,
                      NEW q \in Honest, Told(n, q)', Told(s, q)', NEW j \in Proc
               PROVE  subset'[s][q][j] <= subset'[n][q][j]
    BY DEF ReportsGrow
  <2>1. s # r
    BY <1>2 DEF Told, Runs
  <2>2. Told(s, q) /\ subset'[s] = subset[s] /\ subset[s] # None
    BY <2>1, <1>2, <1>11 DEF Told
  <2>3. CASE n # r
    BY <2>2, <2>3, <1>1, <1>2, <1>11 DEF ReportsGrow
  <2>4. CASE n = r
    <3>1. q \in S /\ subset'[r][q] # None
      BY <2>4, <1>10 DEF Told, Honest
    <3>2. report[q] # None /\ subset'[r][q] = report[q]
      BY <3>1, <1>9
    <3> QED BY <3>2, <2>2, <2>4, <1>1 DEF ReportsTrue
  <2> QED BY <2>3, <2>4
<1> QED BY <1>5, <1>6, <1>7, <1>8, <1>12, <1>13 DEF StateInv

\* What the code computes from the state of p.
Agreed(p) == [j \in Proc |-> AgreedCount(p, subset[run[p]], j)]
Lens(p) == [j \in Proc |-> Len(outputs[p][j])]
PassedUpto(p, j) == \A i \in 0 .. j : Len(outputs[p][i]) <= Agreed(p)[i]

\* What processing a subset does, in terms of the agreed counts.
LEMMA Processing ==
  ASSUME StateInv, NEW p \in Honest, ProcessAcs(p)
  PROVE  /\ run[p] \in Runs /\ runner[p] = "waiting" /\ subset[run[p]] # None
         /\ subset[run[p]] \in [Proc -> [Proc -> Nat] \cup {None}]
         /\ Lens(p) \in [Proc -> Nat]
         /\ Agreed(p) = NextAgreed(Lens(p), subset[run[p]])
         /\ Agreed(p) \in [Proc -> Nat]
         /\ PassedUpto(p, N - 1) <=> Grows(Lens(p), Agreed(p))
         /\ outputs' = [outputs EXCEPT ![p] =
               [j \in Proc |-> IF PassedUpto(p, j) THEN Extended(p, j, Agreed(p)[j])
                                                   ELSE outputs[p][j]]]
         /\ IF PassedUpto(p, N - 1)
            THEN   /\ queue' = [queue EXCEPT ![p] = @ \o NewOutput(p, Pending(p, Agreed(p)))]
                   /\ next_idx' = [next_idx EXCEPT ![p] =
                         [j \in Proc |-> @[j] + Returned(Pending(p, Agreed(p)), j)]]
                   /\ run' = [run EXCEPT ![p] = @ + 1]
                   /\ runner' = [runner EXCEPT ![p] = "sleeping"]
            ELSE   /\ runner' = [runner EXCEPT ![p] = "dead"]
                   /\ UNCHANGED <<queue, next_idx, run>>
         /\ UNCHANGED <<heap, inputs, report, subset>>
<1>1. Types /\ Phases
  BY DEF StateInv
<1>2. run[p] \in Runs /\ runner[p] = "waiting" /\ subset[run[p]] # None
  BY <1>1 DEF ProcessAcs, Phases
<1>3. subset[run[p]] \in [Proc -> [Proc -> Nat] \cup {None}]
  BY <1>1, <1>2 DEF Types
<1>4. Lens(p) \in [Proc -> Nat]
  BY <1>1 DEF Types, Lens
<1>5. Agreed(p) = NextAgreed(Lens(p), subset[run[p]])
  <2>1. \A j \in Proc : AgreedCount(p, subset[run[p]], j)
                          = SortedAt(Filled(Lens(p), subset[run[p]], j), AgreedIndex)
    BY DEF AgreedCount, Filled, Lens
  <2> QED BY <2>1 DEF Agreed, NextAgreed
<1>6. Agreed(p) \in [Proc -> Nat]
  BY <1>3, <1>4, <1>5, NextAgreedType
<1>7. PassedUpto(p, N - 1) <=> Grows(Lens(p), Agreed(p))
  BY DEF PassedUpto, Grows, Lens, Proc
<1>8. /\ outputs' = [outputs EXCEPT ![p] =
               [j \in Proc |-> IF PassedUpto(p, j) THEN Extended(p, j, Agreed(p)[j])
                                                   ELSE outputs[p][j]]]
      /\ IF PassedUpto(p, N - 1)
            THEN   /\ queue' = [queue EXCEPT ![p] = @ \o NewOutput(p, Pending(p, Agreed(p)))]
                   /\ next_idx' = [next_idx EXCEPT ![p] =
                         [j \in Proc |-> @[j] + Returned(Pending(p, Agreed(p)), j)]]
                   /\ run' = [run EXCEPT ![p] = @ + 1]
                   /\ runner' = [runner EXCEPT ![p] = "sleeping"]
            ELSE   /\ runner' = [runner EXCEPT ![p] = "dead"]
                   /\ UNCHANGED <<queue, next_idx, run>>
      /\ UNCHANGED <<heap, inputs, report, subset>>
  BY Zenon DEF ProcessAcs, PassedUpto, Agreed
<1> QED BY <1>2, <1>3, <1>4, <1>5, <1>6, <1>7, <1>8

\* Processing a subset keeps the invariant of the state.
LEMMA ProcessAcsState ==
  ASSUME StateInv, NEW p \in Honest, ProcessAcs(p)
  PROVE  StateInv'
<1> DEFINE agreed  == Agreed(p)
           r       == run[p]
           pending == Pending(p, agreed)
<1>1. Types /\ TypeOK /\ Resolved /\ Phases /\ DecidedInOrder /\ ReportsTrue /\ ReportsGrow
  BY DEF StateInv
<1>2. /\ r \in Runs /\ runner[p] = "waiting"
      /\ subset[r] # None
      /\ agreed \in [Proc -> Nat]
      /\ PassedUpto(p, N - 1) <=> Grows(Lens(p), agreed)
      /\ UNCHANGED <<heap, inputs, report, subset>>
  BY Processing, Zenon
<1>3. outputs' = [outputs EXCEPT ![p] =
         [j \in Proc |-> IF PassedUpto(p, j) THEN Extended(p, j, agreed[j]) ELSE outputs[p][j]]]
  BY Processing, Zenon
<1>4. IF PassedUpto(p, N - 1)
      THEN /\ queue' = [queue EXCEPT ![p] = @ \o NewOutput(p, pending)]
           /\ next_idx' = [next_idx EXCEPT ![p] = [j \in Proc |-> @[j] + Returned(pending, j)]]
           /\ run' = [run EXCEPT ![p] = @ + 1]
           /\ runner' = [runner EXCEPT ![p] = "sleeping"]
      ELSE /\ runner' = [runner EXCEPT ![p] = "dead"]
           /\ UNCHANGED <<queue, next_idx, run>>
  BY Processing, Zenon
<1> HIDE DEF agreed
<1>5. /\ outputs \in [Honest -> [Proc -> Seq(Nat \cup {None})]]
      /\ inputs \in [Honest -> [Proc -> Nat]]
      /\ next_idx \in [Honest -> [Proc -> Nat]]
      /\ queue \in [Honest -> Seq(Item)]
      /\ None \notin Nat
  BY <1>1, SizeAssumption DEF Types
<1>6. ASSUME NEW j \in Proc
      PROVE  /\ Extended(p, j, agreed[j]) \in Seq(Nat \cup {None})
             /\ DOMAIN Extended(p, j, agreed[j]) = 1 .. agreed[j]
             /\ Len(Extended(p, j, agreed[j])) = agreed[j]
             /\ \A k \in 1 .. agreed[j] : Extended(p, j, agreed[j])[k] =
                   IF k <= Len(outputs[p][j]) THEN outputs[p][j][k]
                   ELSE IF k <= inputs[p][j] THEN k - 1 ELSE None
  <2>1. agreed[j] \in Nat /\ outputs[p][j] \in Seq(Nat \cup {None}) /\ inputs[p][j] \in Nat
    BY <1>2, <1>5
  <2>2. \A k \in 1 .. agreed[j] : k <= Len(outputs[p][j]) => outputs[p][j][k] \in Nat \cup {None}
    BY <2>1
  <2> QED BY <2>1, <2>2 DEF Extended
<1>7. ASSUME NEW j \in Proc
      PROVE  /\ PassedUpto(p, j) => /\ outputs'[p][j] = Extended(p, j, agreed[j])
                                    /\ Len(outputs[p][j]) <= agreed[j]
             /\ ~PassedUpto(p, j) => outputs'[p][j] = outputs[p][j]
  <2>1. outputs'[p][j] = IF PassedUpto(p, j) THEN Extended(p, j, agreed[j]) ELSE outputs[p][j]
    BY <1>3, <1>5
  <2>2. j \in 0 .. j
    BY DEF Proc
  <2> QED BY <2>1, <2>2 DEF PassedUpto, agreed
<1>8. \A q \in Honest : q # p => outputs'[q] = outputs[q]
  BY <1>3, <1>5
<1>9. outputs' \in [Honest -> [Proc -> Seq(Nat \cup {None})]]
  <2>1. [j \in Proc |-> IF PassedUpto(p, j) THEN Extended(p, j, agreed[j]) ELSE outputs[p][j]]
           \in [Proc -> Seq(Nat \cup {None})]
    BY <1>5, <1>6
  <2> QED BY <2>1, <1>3, <1>5
<1>10. ASSUME PassedUpto(p, N - 1)
       PROVE  /\ pending \in [Proc -> Nat]
              /\ \A j \in Proc : /\ PassedUpto(p, j)
                                 /\ next_idx[p][j] + Returned(pending, j) \in 0 .. agreed[j]
  <2>1. \A j \in Proc : Len(outputs[p][j]) <= agreed[j]
    BY <1>2, <1>10 DEF Grows, Lens
  <2>2. \A j \in Proc : /\ next_idx[p][j] \in 0 .. Len(outputs[p][j])
                        /\ next_idx[p][j] \in Nat /\ agreed[j] \in Nat /\ Len(outputs[p][j]) \in Nat
    BY <1>1, <1>2, <1>5 DEF TypeOK
  <2>3. \A j \in Proc : agreed[j] - next_idx[p][j] \in Nat
    BY <2>1, <2>2
  <2>4. pending \in [Proc -> Nat] /\ \A j \in Proc : pending[j] = agreed[j] - next_idx[p][j]
    BY <2>3 DEF Pending
  <2>5. ASSUME NEW j \in Proc
        PROVE  PassedUpto(p, j) /\ next_idx[p][j] + Returned(pending, j) \in 0 .. agreed[j]
    <3>1. Returned(pending, j) \in 0 .. pending[j]
      BY <2>4, ReturnedBound
    <3>2. PassedUpto(p, j)
      <4>1. 0 .. j \subseteq 0 .. N - 1
        BY Parties DEF Proc
      <4> QED BY <4>1, <1>10 DEF PassedUpto
    <3> HIDE DEF pending
    <3> QED BY <3>1, <3>2, <2>2, <2>4
  <2> QED BY <2>4, <2>5
<1>11. Types'
  <2>1. /\ queue' \in [Honest -> Seq(Item)] /\ next_idx' \in [Honest -> [Proc -> Nat]]
        /\ run' \in [Honest -> 0 .. MaxAcs] /\ runner' \in [Honest -> {"sleeping", "waiting", "dead"}]
    <3>1. CASE PassedUpto(p, N - 1)
      <4>1. NewOutput(p, pending) \in Seq(Item)
        <5>1. next_idx[p] \in [Proc -> Nat] /\ pending \in [Proc -> Int]
          BY <1>5, <1>10, <3>1
        <5> HIDE DEF pending
        <5> QED BY <5>1, OutputIsLedgers, LedgerOutputType
      <4>2. \A j \in Proc : next_idx[p][j] + Returned(pending, j) \in Nat
        BY <1>2, <1>10, <3>1
      <4>3. r + 1 \in 0 .. MaxAcs
        BY <1>2, SizeAssumption DEF Runs
      <4> HIDE DEF pending
      <4>4. queue[p] \o NewOutput(p, pending) \in Seq(Item)
        BY <4>1, <1>5, ConcatProperties
      <4>5. queue' \in [Honest -> Seq(Item)]
        BY <4>4, <3>1, <1>4, <1>5
      <4>6. next_idx' \in [Honest -> [Proc -> Nat]]
        <5> DEFINE moved == [j \in Proc |-> next_idx[p][j] + Returned(pending, j)]
        <5>1. moved \in [Proc -> Nat]
          BY <4>2
        <5>2. next_idx' = [next_idx EXCEPT ![p] = moved]
          BY <3>1, <1>4, <1>5
        <5> HIDE DEF moved
        <5> QED BY <5>1, <5>2, <1>5
      <4>7. run' \in [Honest -> 0 .. MaxAcs] /\ runner' \in [Honest -> {"sleeping", "waiting", "dead"}]
        BY <4>3, <3>1, <1>1, <1>4, ZenonT(60) DEF Types
      <4> QED BY <4>5, <4>6, <4>7
    <3>2. CASE ~PassedUpto(p, N - 1)
      BY <3>2, <1>1, <1>4 DEF Types
    <3> QED BY <3>1, <3>2
  <2> QED BY <2>1, <1>1, <1>2, <1>9 DEF Types
<1>12. TypeOK'
  <2>1. ASSUME NEW q \in Honest, NEW j \in Proc
        PROVE  /\ next_idx'[q][j] \in 0 .. Len(outputs'[q][j])
               /\ \A k \in DOMAIN outputs'[q][j] : outputs'[q][j][k] \in {None, k - 1}
    <3>1. CASE q # p
      <4>1. next_idx'[q] = next_idx[q] /\ outputs'[q] = outputs[q]
        BY <3>1, <1>4, <1>5, <1>8
      <4> QED BY <4>1, <1>1 DEF TypeOK
    <3>2. CASE q = p
      <4>0. /\ \A k \in DOMAIN outputs[p][j] : outputs[p][j][k] \in {None, k - 1}
            /\ next_idx[p][j] \in 0 .. Len(outputs[p][j])
            /\ DOMAIN outputs[p][j] = 1 .. Len(outputs[p][j]) /\ Len(outputs[p][j]) \in Nat
            /\ agreed[j] \in Nat
        BY <1>1, <1>2, <1>5 DEF TypeOK
      <4>1. \A k \in DOMAIN outputs'[p][j] : outputs'[p][j][k] \in {None, k - 1}
        <5>1. CASE ~PassedUpto(p, j)
          BY <5>1, <4>0, <1>7
        <5>2. CASE PassedUpto(p, j)
          <6>1. /\ outputs'[p][j] = Extended(p, j, agreed[j])
                /\ DOMAIN Extended(p, j, agreed[j]) = 1 .. agreed[j]
            BY <5>2, <1>6, <1>7
          <6>2. ASSUME NEW k \in 1 .. agreed[j]
                PROVE  Extended(p, j, agreed[j])[k] \in {None, k - 1}
            BY <6>2, <4>0, <1>6
          <6> QED BY <6>1, <6>2
        <5> QED BY <5>1, <5>2
      <4>2. next_idx'[p][j] \in 0 .. Len(outputs'[p][j])
        <5>1. CASE PassedUpto(p, N - 1)
          <6>1. next_idx'[p][j] = next_idx[p][j] + Returned(pending, j)
            BY <5>1, <1>4, <1>5
          <6>2. next_idx'[p][j] \in 0 .. agreed[j] /\ PassedUpto(p, j)
            BY <5>1, <6>1, <1>10
          <6> QED BY <6>2, <1>6, <1>7
        <5>2. CASE ~PassedUpto(p, N - 1)
          <6>1. next_idx'[p][j] = next_idx[p][j]
            BY <5>2, <1>4
          <6> QED BY <6>1, <4>0, <1>6, <1>7
        <5> QED BY <5>1, <5>2
      <4> QED BY <3>2, <4>1, <4>2
    <3> QED BY <3>1, <3>2
  <2> QED BY <2>1, <1>1, <1>2, <1>11 DEF TypeOK, Types
<1>13. Resolved'
  <2> SUFFICES ASSUME NEW q \in Honest, NEW j \in Proc, NEW k \in DOMAIN outputs'[q][j]
               PROVE  outputs'[q][j][k] # None <=> k <= inputs[q][j]
    BY <1>2 DEF Resolved
  <2>1. CASE q # p \/ ~PassedUpto(p, j)
    <3>1. outputs'[q][j] = outputs[q][j]
      BY <2>1, <1>7, <1>8
    <3> QED BY <3>1, <1>1 DEF Resolved
  <2>2. CASE q = p /\ PassedUpto(p, j)
    <3>1. /\ \A x \in DOMAIN outputs[p][j] : outputs[p][j][x] # None <=> x <= inputs[p][j]
          /\ DOMAIN outputs[p][j] = 1 .. Len(outputs[p][j]) /\ Len(outputs[p][j]) \in Nat
          /\ agreed[j] \in Nat /\ inputs[p][j] \in Nat
      BY <1>1, <1>2, <1>5 DEF Resolved
    <3>2. outputs'[q][j] = Extended(p, j, agreed[j]) /\ k \in 1 .. agreed[j]
      BY <2>2, <1>6, <1>7
    <3>3. outputs'[q][j][k] = IF k <= Len(outputs[p][j]) THEN outputs[p][j][k]
                              ELSE IF k <= inputs[p][j] THEN k - 1 ELSE None
      BY <3>2, <1>6
    <3>4. k \in Nat /\ k >= 1
      BY <3>1, <3>2
    <3>5. CASE k <= Len(outputs[p][j])
      BY <3>1, <3>3, <3>4, <3>5, <2>2
    <3>6. CASE ~(k <= Len(outputs[p][j]))
      BY <3>1, <3>3, <3>4, <3>6, <2>2, <1>5
    <3> QED BY <3>5, <3>6
  <2> QED BY <2>1, <2>2
<1>14. Phases'
  <2>1. ASSUME NEW q \in Honest
        PROVE  /\ \A s \in Runs : s < run'[q] => subset[s] # None
               /\ runner'[q] # "sleeping" => run'[q] \in Runs
               /\ runner'[q] = "dead" => subset[run'[q]] # None
               /\ report[q] # None <=> runner'[q] = "waiting" /\ subset[run'[q]] = None
    <3>1. CASE q # p
      <4>1. run'[q] = run[q] /\ runner'[q] = runner[q]
        BY <3>1, <1>1, <1>4 DEF Types
      <4> QED BY <4>1, <1>1 DEF Phases
    <3>2. CASE q = p /\ PassedUpto(p, N - 1)
      <4>1. run'[q] = r + 1 /\ runner'[q] = "sleeping"
        BY <3>2, <1>1, <1>4 DEF Types
      <4>2. report[q] = None
        BY <3>2, <1>1, <1>2 DEF Phases
      <4>3. \A s \in Runs : s < r + 1 => s < r \/ s = r
        BY <1>2 DEF Runs
      <4> QED BY <4>1, <4>2, <4>3, <3>2, <1>1, <1>2 DEF Phases
    <3>3. CASE q = p /\ ~PassedUpto(p, N - 1)
      <4>1. run'[q] = r /\ runner'[q] = "dead"
        BY <3>3, <1>1, <1>4 DEF Types
      <4> QED BY <4>1, <3>3, <1>1, <1>2 DEF Phases
    <3> QED BY <3>1, <3>2, <3>3
  <2> QED BY <2>1, <1>2 DEF Phases
<1>15. DecidedInOrder' /\ ReportsTrue' /\ ReportsGrow'
  BY <1>1, <1>2 DEF DecidedInOrder, ReportsTrue, ReportsGrow, Told
<1> QED BY <1>11, <1>12, <1>13, <1>14, <1>15 DEF StateInv

\* Every step keeps the invariant of the state.
LEMMA StateStep == StateInv /\ [Next]_vars => StateInv'
<1> SUFFICES ASSUME StateInv, [Next]_vars PROVE StateInv'
  OBVIOUS
<1>1. ASSUME NEW p \in Honest, NEW j \in Proc, NEW id \in 0 .. Arrives[p][j] - 1,
             RecvValue(p, j, id)
      PROVE  StateInv'
  BY <1>1, RecvValueState
<1>2. ASSUME NEW p \in Honest, StartAcs(p)
      PROVE  StateInv'
  BY <1>2, StartAcsState
<1>3. ASSUME NEW r \in Runs, NEW S \in SUBSET Proc, NEW lies \in [S \cap Faulty -> Reports],
             DecideAcs(r, S, lies)
      PROVE  StateInv'
  BY <1>3, DecideAcsState
<1>4. ASSUME NEW p \in Honest, ProcessAcs(p)
      PROVE  StateInv'
  BY <1>4, ProcessAcsState
<1>5. CASE UNCHANGED vars
  BY <1>5 DEF vars, StateInv, Types, TypeOK, Resolved, Phases, DecidedInOrder, ReportsTrue,
              ReportsGrow, Told
<1> QED BY <1>1, <1>2, <1>3, <1>4, <1>5 DEF Next, Undecided, Quorums

-----------------------------------------------------------------------------
(* Every action keeps the ledger.                                          *)

\* A prefix stays one when the longer sequence grows.
LEMMA PrefixOfConcat ==
  ASSUME NEW X, NEW a \in Seq(X), NEW b \in Seq(X), NEW c \in Seq(X), IsPrefix(a, b)
  PROVE  IsPrefix(a, b \o c)
<1>1. Len(a) \in Nat /\ Len(b) \in Nat /\ Len(a) <= Len(b)
  BY DEF IsPrefix
<1>2. b \o c \in Seq(X) /\ Len(b \o c) = Len(b) + Len(c)
  BY ConcatProperties
<1>3. CASE Len(a) = 0
  BY <1>1, <1>2, <1>3, SubSeqEmpty DEF IsPrefix
<1>4. CASE Len(a) > 0
  <2>1. SubSeq(b \o c, 1, Len(a)) = SubSeq(b, 1, Len(a))
    <3>1. 1 \in 1 .. Len(b) /\ Len(a) \in 1 .. Len(b)
      BY <1>1, <1>4
    <3> QED BY <3>1, SubSeqOfConcat1
  <2> QED BY <2>1, <1>1, <1>2 DEF IsPrefix
<1> QED BY <1>1, <1>3, <1>4

\* A sequence is its own prefix.
LEMMA PrefixSelf ==
  ASSUME NEW X, NEW a \in Seq(X)
  PROVE  IsPrefix(a, a)
BY DEF IsPrefix

\* At first the ledger has one entry, which all parties have.
LEMMA InitLedger == Init => LedgerInv
<1> SUFFICES ASSUME Init PROVE LedgerInv
  OBVIOUS
<1> USE DEF Init
<1> DEFINE h == [r \in 0 .. MaxAcs |-> FirstEntry]
<1>1. FirstEntry \in Entries
  BY EmptySeq DEF FirstEntry, Entries
<1>2. MaxAcs \in Nat /\ 0 \in 0 .. MaxAcs
  BY SizeAssumption
<1>3. \A r \in 0 .. MaxAcs : Reached(r) => r = 0
  BY <1>2 DEF Reached, Runs
<1>4. IsLedger(h)
  <2>1. \A j \in Proc : Supported(0, j, h[0].agreed[j])
    BY <1>2 DEF Supported, FirstEntry
  <2>2. \A s \in 0 .. 0 : IsPrefix(h[s].queue, h[0].queue)
    <3>1. <<>> \in Seq(Item)
      BY EmptySeq
    <3>2. IsPrefix(<<>>, <<>>)
      BY <3>1, PrefixSelf
    <3> QED BY <3>2, <1>2 DEF FirstEntry
  <2>3. \A r \in Runs : subset[r] = None
    OBVIOUS
  <2>5. InOrder(h[0].queue, h[0].next)
    <3>1. h[0].queue = <<>> /\ h[0].next = [j \in Proc |-> 0]
      BY <1>2 DEF FirstEntry
    <3>2. \A j : Earlier(<<>>, 0 + 1, j) = {}
      BY DEF Earlier
    <3>3. Len(<<>>) = 0 /\ DOMAIN <<>> = {}
      OBVIOUS
    <3> HIDE DEF h
    <3> QED BY <3>1, <3>2, <3>3, FS_EmptySet DEF InOrder
  <2>4. \A r \in 0 .. MaxAcs : Reached(r) =>
          /\ \A j \in Proc : Supported(r, j, h[r].agreed[j])
          /\ \A s \in 0 .. r : IsPrefix(h[s].queue, h[r].queue)
          /\ InOrder(h[r].queue, h[r].next)
    BY <2>1, <2>2, <2>5, <1>3
  <2> QED BY <2>3, <2>4, <1>1, <1>2 DEF IsLedger
<1>5. ASSUME NEW p \in Honest PROVE Follows(p, h)
  <2>1. run[p] = 0 /\ runner[p] = "sleeping" /\ h[0] = FirstEntry
    BY <1>2
  <2>2. \A r \in Runs : ~(r < run[p])
    BY <2>1 DEF Runs
  <2>3. queue[p] = h[0].queue /\ next_idx[p] = h[0].next
    BY <2>1 DEF FirstEntry
  <2>4. \A j \in Proc : Len(outputs[p][j]) = h[0].agreed[j]
    BY <2>1 DEF FirstEntry
  <2> HIDE DEF h
  <2> QED BY <2>1, <2>2, <2>3, <2>4 DEF Follows
<1> QED BY <1>4, <1>5 DEF LedgerInv

\* Steps that touch neither queue nor counts nor subsets leave the ledger.
LEMMA LedgerStays ==
  ASSUME LedgerInv,
         UNCHANGED <<queue, next_idx, run, subset>>,
         \A p \in Honest, j \in Proc : Len(outputs'[p][j]) = Len(outputs[p][j]),
         \A p \in Honest : runner'[p] = "dead" <=> runner[p] = "dead"
  PROVE  LedgerInv'
<1>1. PICK h : IsLedger(h) /\ \A p \in Honest : Follows(p, h)
  BY DEF LedgerInv
<1>2. IsLedger(h)'
  <2>1. \A r, q : Told(r, q)' <=> Told(r, q)
    BY DEF Told
  <2>2. \A r, j, c : Supported(r, j, c)' <=> Supported(r, j, c)
    BY <2>1 DEF Supported
  <2>3. \A r : Reached(r)' <=> Reached(r)
    BY DEF Reached
  <2>4. subset' = subset
    OBVIOUS
  <2>5. \A r : TakenBack(r)' <=> TakenBack(r)
    BY <2>1 DEF TakenBack
  <2> QED BY <1>1, <2>2, <2>3, <2>4, <2>5 DEF IsLedger
<1>3. \A p \in Honest : Follows(p, h)'
  BY <1>1 DEF Follows
<1> QED BY <1>2, <1>3 DEF LedgerInv

\* The values that arrive have no part in the ledger.
LEMMA RecvValueLedger ==
  ASSUME IInv, NEW p \in Honest, NEW j \in Proc,
         NEW id \in 0 .. Arrives[p][j] - 1, RecvValue(p, j, id)
  PROVE  LedgerInv'
<1>1. outputs \in [Honest -> [Proc -> Seq(Nat \cup {None})]]
  BY DEF IInv, StateInv, Types
<1> DEFINE n == Drained(heap[p][j] \cup {id}, inputs[p][j])
<1>2. outputs' = [outputs EXCEPT ![p][j] = Resolves(outputs[p][j], inputs[p][j], n)]
  BY <1>1 DEF RecvValue
<1>3. Len(Resolves(outputs[p][j], inputs[p][j], n)) = Len(outputs[p][j])
  <2>1. outputs[p][j] \in Seq(Nat \cup {None})
    BY <1>1
  <2>2. DOMAIN Resolves(outputs[p][j], inputs[p][j], n) = 1 .. Len(outputs[p][j])
    BY <2>1 DEF Resolves
  <2> HIDE DEF n
  <2> QED BY <2>1, <2>2 DEF Resolves
<1> HIDE DEF n
<1>4. \A q \in Honest, i \in Proc : Len(outputs'[q][i]) = Len(outputs[q][i])
  BY <1>1, <1>2, <1>3
<1>5. UNCHANGED <<queue, next_idx, run, subset>> /\ runner' = runner
  BY DEF RecvValue
<1> QED BY <1>4, <1>5, LedgerStays DEF IInv

\* Reporting the counts leaves it.
LEMMA StartAcsLedger ==
  ASSUME IInv, NEW p \in Honest, StartAcs(p)
  PROVE  LedgerInv'
<1>1. /\ UNCHANGED <<queue, next_idx, run, subset, outputs>>
      /\ runner' = [runner EXCEPT ![p] = "waiting"] /\ runner[p] = "sleeping"
  BY DEF StartAcs
<1>2. runner \in [Honest -> {"sleeping", "waiting", "dead"}]
  BY DEF IInv, StateInv, Types
<1>3. \A q \in Honest : runner'[q] = "dead" <=> runner[q] = "dead"
  BY <1>1, <1>2
<1> QED BY <1>1, <1>3, LedgerStays DEF IInv

\* The counts of the next entry.
LEMMA NextEntryFields ==
  ASSUME NEW e, NEW view
  PROVE  NextEntry(e, view).agreed = NextAgreed(e.agreed, view)
BY DEF NextEntry

\* The next entry after a subset that lowers no count.
LEMMA NextEntryGrown ==
  ASSUME NEW e, NEW view, Grows(e.agreed, NextAgreed(e.agreed, view))
  PROVE  /\ \A j \in Proc : NextEntry(e, view).next[j]
               = e.next[j] + Returned(Due(e, NextAgreed(e.agreed, view)), j)
         /\ NextEntry(e, view).queue
               = e.queue \o LedgerOutput(e.next, Due(e, NextAgreed(e.agreed, view)))
BY DEF NextEntry

Views == [Proc -> [Proc -> Nat] \cup {None}]

NextSupported ==
    \A r \in Runs, agreed \in [Proc -> Nat] :
        /\ subset \in [Runs -> Views \cup {None}] /\ subset[r] \in Views
        /\ \A j \in Proc : Supported(r, j, agreed[j])
        => \A j \in Proc : Supported(r + 1, j, NextAgreed(agreed, subset[r])[j])

\* Each count of the next entry rests on T + 1 reports: on those that reach it
\* now, or on those that the entry before rested on.
LEMMA SupportedNext == NextSupported
<1> SUFFICES ASSUME NEW r \in Runs, NEW j \in Proc, NEW agreed \in [Proc -> Nat],
                    subset \in [Runs -> Views \cup {None}], subset[r] \in Views,
                    Supported(r, j, agreed[j])
             PROVE  Supported(r + 1, j, NextAgreed(agreed, subset[r])[j])
  BY DEF NextSupported
<1> USE DEF Views
<1>0. None \notin Views
  BY SizeAssumption
<1> DEFINE counts == Filled(agreed, subset[r], j)
           new    == NextAgreed(agreed, subset[r])[j]
<1>1. counts \in [Proc -> Nat] /\ new \in Nat /\ agreed[j] \in Nat
  BY NextAgreedType
<1>2. new = SortedAt(counts, AgreedIndex)
  BY DEF NextAgreed
<1> SUFFICES Supported(r + 1, j, new)
  OBVIOUS
<1>3. CASE new = 0
  BY <1>3 DEF Supported
<1>4. CASE new # 0 /\ new <= agreed[j]
  <2>1. PICK W \in SUBSET Proc :
           /\ Cardinality(W) >= T + 1
           /\ \A i \in W : \E s \in Runs : s < r /\ Told(s, i) /\ subset[s][i][j] >= agreed[j]
    BY <1>1, <1>4 DEF Supported
  <2>2. ASSUME NEW i \in W
        PROVE  \E s \in Runs : s < r + 1 /\ Told(s, i) /\ subset[s][i][j] >= new
    <3>1. PICK s \in Runs : s < r /\ Told(s, i) /\ subset[s][i][j] >= agreed[j]
      BY <2>1
    <3>2. subset[s][i][j] \in Nat
      <4>1. subset[s] \in [Proc -> [Proc -> Nat] \cup {None}] /\ subset[s][i] # None
        BY <3>1 DEF Told
      <4> QED BY <4>1
    <3>4. s \in Int /\ r \in Int
      BY DEF Runs
    <3> HIDE DEF new
    <3>3. s < r + 1 /\ subset[s][i][j] >= new
      BY <3>1, <3>2, <3>4, <1>1, <1>4
    <3> QED BY <3>1, <3>3
  <2> HIDE DEF new
  <2> QED BY <2>1, <2>2 DEF Supported
<1>5. CASE new > agreed[j]
  <2>0. counts \in [Proc -> Int]
    BY <1>1
  <2> HIDE DEF counts, new
  <2>1. PICK W \in SUBSET Proc : Cardinality(W) >= T + 1 /\ \A i \in W : counts[i] >= new
    BY <2>0, <1>2, ReachesIt
  <2>2. ASSUME NEW i \in W
        PROVE  \E s \in Runs : s < r + 1 /\ Told(s, i) /\ subset[s][i][j] >= new
    <3>1. counts[i] >= new /\ counts[i] > agreed[j]
      BY <2>1, <1>1, <1>5
    <3>2. subset[r][i] # None /\ counts[i] = subset[r][i][j]
      <4>1. counts[i] = IF subset[r][i] = None THEN agreed[j] ELSE subset[r][i][j]
        BY DEF counts, Filled
      <4> QED BY <4>1, <3>1, <1>1
    <3>3. r < r + 1
      BY DEF Runs
    <3> QED BY <3>1, <3>2, <3>3, <1>0 DEF Told
  <2> QED BY <2>1, <2>2 DEF Supported
<1> HIDE DEF new
<1> QED BY <1>1, <1>3, <1>4, <1>5

NextGrows ==
    \A r \in Runs, agreed \in [Proc -> Nat] :
        /\ subset \in [Runs -> Views \cup {None}] /\ subset[r] \in Views
        /\ \A j \in Proc : Supported(r, j, agreed[j])
        /\ ReportsGrow /\ ~TakenBack(r)
        => Grows(agreed, NextAgreed(agreed, subset[r]))

\* If no report is taken back in r, T + 1 of them still reach what was agreed,
\* or are missing and count as that: no count is lowered.
LEMMA GrowsNext == NextGrows
<1> SUFFICES ASSUME NEW r \in Runs, NEW agreed \in [Proc -> Nat],
                    subset \in [Runs -> Views \cup {None}], subset[r] \in Views,
                    \A j \in Proc : Supported(r, j, agreed[j]),
                    ReportsGrow, ~TakenBack(r), NEW j \in Proc
             PROVE  agreed[j] <= NextAgreed(agreed, subset[r])[j]
  BY DEF NextGrows, Grows
<1> USE DEF Views
<1>0. subset[r] # None
  BY SizeAssumption
<1> DEFINE counts == Filled(agreed, subset[r], j)
           new    == NextAgreed(agreed, subset[r])[j]
<1>1. counts \in [Proc -> Nat] /\ new \in Nat /\ agreed[j] \in Nat
  BY NextAgreedType
<1>2. new = SortedAt(counts, AgreedIndex)
  BY DEF NextAgreed
<1>3. CASE agreed[j] = 0
  BY <1>1, <1>3
<1>4. CASE agreed[j] # 0
  <2>1. PICK W \in SUBSET Proc :
           /\ Cardinality(W) >= T + 1
           /\ \A i \in W : \E s \in Runs : s < r /\ Told(s, i) /\ subset[s][i][j] >= agreed[j]
    BY <1>4 DEF Supported
  <2>2. ASSUME NEW i \in W PROVE counts[i] >= agreed[j]
    <3>1. counts[i] = IF subset[r][i] = None THEN agreed[j] ELSE subset[r][i][j]
      BY DEF Filled
    <3>2. CASE subset[r][i] = None
      BY <3>1, <3>2, <1>1
    <3>3. CASE subset[r][i] # None
      <4>1. PICK s \in Runs : s < r /\ Told(s, i) /\ subset[s][i][j] >= agreed[j]
        BY <2>1
      <4>2. Told(r, i)
        BY <3>3, <1>0 DEF Told
      <4>4. subset[s][i][j] \in Nat /\ subset[r][i][j] \in Nat
        BY <4>1, <4>2 DEF Told
      <4>3. subset[s][i][j] <= subset[r][i][j]
        <5>1. CASE i \in Honest
          BY <5>1, <4>1, <4>2 DEF ReportsGrow
        <5>2. CASE i \in Faulty
          <6>1. s \in 0 .. r - 1
            BY <4>1 DEF Runs
          <6>2. ~(subset[r][i][j] < subset[s][i][j])
            BY <6>1, <5>2, <4>1, <4>2 DEF TakenBack
          <6> QED BY <6>2, <4>4
        <5> QED BY <5>1, <5>2 DEF Honest
      <4> QED BY <4>1, <4>3, <4>4, <3>1, <3>3, <1>1
    <3> QED BY <3>2, <3>3
  <2>3. counts \in [Proc -> Int] /\ agreed[j] \in Int
    BY <1>1
  <2> HIDE DEF counts
  <2> QED BY <2>1, <2>2, <2>3, <1>2, ReachedByMany
<1> QED BY <1>3, <1>4

\* The decision of a subset makes the next entry of the ledger.
LEMMA DecideAcsLedger ==
  ASSUME IInv, StateInv', NEW r \in Runs, NEW S \in SUBSET Proc,
         NEW lies \in [S \cap Faulty -> Reports], DecideAcs(r, S, lies)
  PROVE  LedgerInv'
<1>1. Types /\ Phases /\ DecidedInOrder /\ StateInv
  BY DEF IInv, StateInv
<1>2. /\ subset'[r] \in Views
      /\ subset'[r] # None
      /\ \A s \in Runs : s # r => subset'[s] = subset[s]
      /\ \A s \in Runs : s < r => subset[s] # None
      /\ \A s \in Runs : s > r => subset[s] = None
  BY <1>1, Decision, Zenon DEF Views
<1>3. subset[r] = None /\ UNCHANGED <<outputs, next_idx, queue, run, runner>>
  BY DEF DecideAcs, Undecided, Quorums
<1>4. PICK h : IsLedger(h) /\ \A p \in Honest : Follows(p, h)
  BY DEF IInv, LedgerInv
<1>a. PICK view \in Views : view = subset'[r]
  BY <1>2
<1> DEFINE entry == NextEntry(h[r], view)
           new   == [h EXCEPT ![r + 1] = entry]
<1>5. /\ r \in 0 .. MaxAcs /\ r + 1 \in 0 .. MaxAcs /\ MaxAcs \in Nat
      /\ \A s \in Runs : s \in 0 .. MaxAcs /\ s + 1 \in 0 .. MaxAcs
  BY SizeAssumption DEF Runs
<1>6. h \in [0 .. MaxAcs -> Entries] /\ h[0] = FirstEntry /\ h[r] \in Entries
  BY <1>4, <1>5 DEF IsLedger
<1>7. entry \in Entries
  BY <1>6, NextEntryType DEF Views
<1>8. /\ new \in [0 .. MaxAcs -> Entries]
      /\ new[r + 1] = entry
      /\ \A s \in 0 .. MaxAcs : s # r + 1 => new[s] = h[s]
  <2> HIDE DEF entry
  <2> QED BY <1>5, <1>6, <1>7
<1> HIDE DEF new
<1>9. new[0] = FirstEntry
  BY <1>5, <1>6, <1>8 DEF Runs
<1>10. \A s \in Runs : subset'[s] # None => new[s + 1] = NextEntry(new[s], subset'[s])
  <2> SUFFICES ASSUME NEW s \in Runs, subset'[s] # None
               PROVE  new[s + 1] = NextEntry(new[s], subset'[s])
    OBVIOUS
  <2>1. CASE s = r
    <3>1. new[r] = h[r]
      BY <1>5, <1>8 DEF Runs
    <3> QED BY <3>1, <2>1, <1>8, <1>a
  <2>2. CASE s # r
    <3>1. subset[s] # None /\ subset'[s] = subset[s] /\ s < r
      BY <2>2, <1>2 DEF Runs
    <3>2. new[s] = h[s] /\ new[s + 1] = h[s + 1]
      BY <3>1, <1>5, <1>8 DEF Runs
    <3> QED BY <3>1, <3>2, <1>4 DEF IsLedger
  <2> QED BY <2>1, <2>2
<1>11. \A s, q : Told(s, q) /\ s \in Runs => s # r /\ Told(s, q)' /\ subset'[s] = subset[s]
  BY <1>2, <1>3 DEF Told
<1>12. \A s \in 0 .. MaxAcs : \A j, c : Supported(s, j, c) => Supported(s, j, c)'
  BY <1>11 DEF Supported
<1>13. Reached(r)
  BY <1>2, <1>5 DEF Reached, Runs
<1>14. \A s \in 0 .. MaxAcs : Reached(s)' => s = r + 1 \/ (Reached(s) /\ s <= r)
  <2> SUFFICES ASSUME NEW s \in 0 .. MaxAcs, Reached(s)', s # r + 1
               PROVE  Reached(s) /\ s <= r
    OBVIOUS
  <2>1. CASE s = 0
    BY <2>1, <1>5 DEF Reached
  <2>2. CASE s # 0
    <3>1. s - 1 \in Runs /\ s - 1 # r /\ subset'[s - 1] # None
      BY <2>2, <1>5 DEF Reached, Runs
    <3>2. subset[s - 1] # None
      BY <3>1, <1>2
    <3>3. s - 1 < r
      BY <3>1, <3>2, <1>2 DEF Runs
    <3> QED BY <3>2, <3>3, <1>5 DEF Reached
  <2> QED BY <2>1, <2>2
<1>15. h[r].agreed \in [Proc -> Nat] /\ h[r].queue \in Seq(Item) /\ h[r].next \in [Proc -> Nat]
  BY <1>6 DEF Entries
<1>16. /\ \A j \in Proc : Supported(r, j, h[r].agreed[j])'
       /\ \A s \in 0 .. r : IsPrefix(h[s].queue, h[r].queue)
       /\ ChunkSize = 1 => InOrder(h[r].queue, h[r].next)
  BY <1>4, <1>5, <1>12, <1>13 DEF IsLedger
<1>17. entry.agreed = NextAgreed(h[r].agreed, view)
  BY NextEntryFields
<1>18. (subset \in [Runs -> Views \cup {None}])' /\ ReportsGrow'
  BY DEF StateInv, Types, Views
<1>19. \A j \in Proc : Supported(r + 1, j, entry.agreed[j])'
  <2>1. NextSupported'
    BY SupportedNext, PTL
  <2>2. \A j \in Proc : Supported(r + 1, j, NextAgreed(h[r].agreed, view)[j])'
    BY <2>1, <1>2, <1>15, <1>16, <1>18, <1>a DEF NextSupported
  <2> HIDE DEF entry
  <2> QED BY <2>2, <1>17
<1>20. ~TakenBack(r)' => Grows(h[r].agreed, entry.agreed)
  <2>1. NextGrows'
    BY GrowsNext, PTL
  <2>2. ~TakenBack(r)' => Grows(h[r].agreed, NextAgreed(h[r].agreed, view))
    BY <2>1, <1>2, <1>15, <1>16, <1>18, <1>a DEF NextGrows
  <2> QED BY <2>2, <1>17
<1>21. \A s \in 0 .. r + 1 : IsPrefix(new[s].queue, entry.queue)
  <2>1. /\ entry.queue \in Seq(Item)
        /\ IsPrefix(h[r].queue, h[r].queue)
        /\ \A s \in 0 .. r : h[s].queue \in Seq(Item)
    BY <1>5, <1>6, <1>7, <1>15, PrefixSelf DEF Entries
  <2>2. CASE entry.queue = h[r].queue
    <3> HIDE DEF entry
    <3> QED BY <2>1, <2>2, <1>5, <1>8, <1>16 DEF Runs
  <2>3. CASE entry.queue # h[r].queue
    <3> DEFINE pending == Due(h[r], NextAgreed(h[r].agreed, view))
               output  == LedgerOutput(h[r].next, pending)
    <3>1. entry.queue = h[r].queue \o output
      BY <2>3 DEF NextEntry
    <3>2. output \in Seq(Item)
      <4>1. NextAgreed(h[r].agreed, view) \in [Proc -> Nat]
        BY <1>15, NextAgreedType DEF Views
      <4>2. pending \in [Proc -> Int]
        BY <4>1, <1>15 DEF Due
      <4> HIDE DEF pending
      <4> QED BY <4>2, <1>15, LedgerOutputType
    <3> HIDE DEF output, entry
    <3>3. \A s \in 0 .. r : IsPrefix(h[s].queue, entry.queue)
      BY <3>1, <3>2, <2>1, <1>15, <1>16, PrefixOfConcat
    <3>4. IsPrefix(entry.queue, entry.queue)
      BY <2>1, PrefixSelf
    <3> QED BY <3>3, <3>4, <1>5, <1>8 DEF Runs
  <2> QED BY <2>2, <2>3
<1>b. ChunkSize = 1 => InOrder(entry.queue, entry.next)
  <2> DEFINE agreed == NextAgreed(h[r].agreed, view)
             pending == Due(h[r], agreed)
  <2>1. pending \in [Proc -> Int]
    <3>1. agreed \in [Proc -> Nat]
      BY <1>15, NextAgreedType DEF Views
    <3> QED BY <3>1, <1>15 DEF Due
  <2>2. CASE Grows(h[r].agreed, agreed)
    <3> DEFINE old   == h[r].next
               after == entry.next
    <3>1. TakesAll(old, pending, after) /\ entry.queue = h[r].queue \o LedgerOutput(old, pending)
      BY <2>2, NextEntryGrown DEF TakesAll
    <3>2. old \in [Proc -> Nat] /\ h[r].queue \in Seq(Item)
      BY <1>15
    <3>3. ChunkSize = 1 => InOrder(h[r].queue, old)
      BY <1>16
    <3> HIDE DEF entry, pending, old, after
    <3>4. ChunkSize = 1 => InOrder(h[r].queue \o LedgerOutput(old, pending), after)
      BY <3>1, <3>2, <3>3, <2>1, InOrderOutput
    <3> QED BY <3>1, <3>4 DEF after
  <2>3. CASE ~Grows(h[r].agreed, agreed)
    <3>1. entry.next = h[r].next /\ entry.queue = h[r].queue
      BY <2>3 DEF NextEntry
    <3> HIDE DEF entry
    <3> QED BY <3>1, <1>16
  <2> QED BY <2>2, <2>3
<1>22. \A s \in 0 .. MaxAcs : Reached(s)' =>
          /\ \A j \in Proc : Supported(s, j, new[s].agreed[j])'
          /\ \A n \in 0 .. s : IsPrefix(new[n].queue, new[s].queue)
          /\ ChunkSize = 1 => InOrder(new[s].queue, new[s].next)
  <2> SUFFICES ASSUME NEW s \in 0 .. MaxAcs, Reached(s)'
               PROVE  /\ \A j \in Proc : Supported(s, j, new[s].agreed[j])'
                      /\ \A n \in 0 .. s : IsPrefix(new[n].queue, new[s].queue)
                      /\ ChunkSize = 1 => InOrder(new[s].queue, new[s].next)
    OBVIOUS
  <2> HIDE DEF entry
  <2>1. CASE s = r + 1
    BY <2>1, <1>8, <1>19, <1>21, <1>b
  <2>2. CASE Reached(s) /\ s <= r
    <3>1. \A n \in 0 .. s : n \in 0 .. MaxAcs /\ n # r + 1
      BY <2>2, <1>5 DEF Runs
    <3>2. \A n \in 0 .. s : new[n] = h[n]
      BY <3>1, <1>8
    <3>3. s \in 0 .. s
      BY <1>5
    <3> QED BY <3>2, <3>3, <2>2, <1>4, <1>12 DEF IsLedger
  <2> QED BY <2>1, <2>2, <1>14
<1>23. \A s \in Runs :
          subset'[s] # None /\ ~TakenBack(s)' => Grows(new[s].agreed, new[s + 1].agreed)
  <2> SUFFICES ASSUME NEW s \in Runs, subset'[s] # None, ~TakenBack(s)'
               PROVE  Grows(new[s].agreed, new[s + 1].agreed)
    OBVIOUS
  <2> HIDE DEF entry
  <2>1. CASE s = r
    <3>1. new[r] = h[r]
      BY <1>5, <1>8 DEF Runs
    <3> QED BY <3>1, <2>1, <1>8, <1>20
  <2>2. CASE s # r
    <3>1. subset[s] # None /\ s < r
      BY <2>2, <1>2 DEF Runs
    <3>2. new[s] = h[s] /\ new[s + 1] = h[s + 1]
      BY <3>1, <1>5, <1>8 DEF Runs
    <3>3. ~TakenBack(s)
      <4>1. \A n \in 0 .. s - 1 : n \in Runs
        BY SizeAssumption DEF Runs
      <4> QED BY <4>1, <1>11 DEF TakenBack
    <3> QED BY <3>1, <3>2, <3>3, <1>4 DEF IsLedger
  <2> QED BY <2>1, <2>2
<1>24. IsLedger(new)'
  BY <1>8, <1>9, <1>10, <1>22, <1>23 DEF IsLedger
<1>25. \A p \in Honest : Follows(p, new)'
  <2> TAKE p \in Honest
  <2>1. run[p] \in 0 .. MaxAcs /\ run[p] <= r
    <3>1. run[p] \in 0 .. MaxAcs
      BY <1>1 DEF Types
    <3> QED BY <3>1, <1>1, <1>3, <1>5 DEF Phases, Runs
  <2>2. new[run[p]] = h[run[p]]
    BY <2>1, <1>5, <1>8 DEF Runs
  <2>3. runner[p] = "dead" => new[run[p] + 1] = h[run[p] + 1]
    <3> SUFFICES ASSUME runner[p] = "dead" PROVE new[run[p] + 1] = h[run[p] + 1]
      OBVIOUS
    <3>1. run[p] \in Runs /\ run[p] # r
      BY <1>1, <1>3 DEF Phases
    <3> QED BY <3>1, <2>1, <1>5, <1>8 DEF Runs
  <2>4. Follows(p, h)
    BY <1>4
  <2>5. \A s \in Runs : s < run[p] => new[s] = h[s] /\ new[s + 1] = h[s + 1]
    BY <2>1, <1>5, <1>8 DEF Runs
  <2> QED BY <2>2, <2>3, <2>4, <2>5, <1>3 DEF Follows
<1> QED BY <1>24, <1>25 DEF LedgerInv

\* A party that processes the subset moves to that entry, or dies if it lowers a
\* count.
LEMMA ProcessAcsLedger ==
  ASSUME IInv, NEW p \in Honest, ProcessAcs(p)
  PROVE  LedgerInv'
<1> DEFINE agreed  == Agreed(p)
           r       == run[p]
           view    == subset[r]
           pending == Pending(p, agreed)
<1>1. StateInv /\ Types
  BY DEF IInv, StateInv
<1>2. /\ r \in Runs /\ runner[p] = "waiting" /\ subset[r] # None
      /\ Lens(p) \in [Proc -> Nat]
      /\ agreed = NextAgreed(Lens(p), view)
      /\ agreed \in [Proc -> Nat]
      /\ PassedUpto(p, N - 1) <=> Grows(Lens(p), agreed)
      /\ UNCHANGED <<heap, inputs, report, subset>>
  BY <1>1, Processing, Zenon
<1>3. outputs' = [outputs EXCEPT ![p] =
         [j \in Proc |-> IF PassedUpto(p, j) THEN Extended(p, j, agreed[j]) ELSE outputs[p][j]]]
  BY <1>1, Processing, Zenon
<1>4. IF PassedUpto(p, N - 1)
      THEN /\ queue' = [queue EXCEPT ![p] = @ \o NewOutput(p, pending)]
           /\ next_idx' = [next_idx EXCEPT ![p] = [j \in Proc |-> @[j] + Returned(pending, j)]]
           /\ run' = [run EXCEPT ![p] = @ + 1]
           /\ runner' = [runner EXCEPT ![p] = "sleeping"]
      ELSE /\ runner' = [runner EXCEPT ![p] = "dead"]
           /\ UNCHANGED <<queue, next_idx, run>>
  BY <1>1, Processing, Zenon
<1>5. PICK h : IsLedger(h) /\ \A q \in Honest : Follows(q, h)
  BY DEF IInv, LedgerInv
<1>6. /\ r \in 0 .. MaxAcs /\ r + 1 \in 0 .. MaxAcs
      /\ h[r] \in Entries /\ h[r + 1] \in Entries
      /\ h[r + 1] = NextEntry(h[r], view)
  <2>1. r \in 0 .. MaxAcs /\ r + 1 \in 0 .. MaxAcs
    BY <1>2, SizeAssumption DEF Runs
  <2> QED BY <2>1, <1>2, <1>5 DEF IsLedger
<1>7. Lens(p) = h[r].agreed
  <2>1. h[r].agreed \in [Proc -> Nat]
    BY <1>6 DEF Entries
  <2>2. \A j \in Proc : Lens(p)[j] = h[r].agreed[j]
    BY <1>2, <1>5 DEF Follows, Lens
  <2> QED BY <2>1, <2>2, <1>2
<1>8. queue[p] = h[r].queue /\ next_idx[p] = h[r].next
  BY <1>5 DEF Follows
<1>9. h[r + 1].agreed = agreed
  <2> HIDE DEF agreed
  <2> QED BY <1>2, <1>6, <1>7, NextEntryFields
<1>10. IsLedger(h)'
  <2>1. \A s, q : Told(s, q)' <=> Told(s, q)
    BY <1>2 DEF Told
  <2>2. \A s, j, c : Supported(s, j, c)' <=> Supported(s, j, c)
    BY <2>1, <1>2 DEF Supported
  <2>3. \A s : Reached(s)' <=> Reached(s)
    BY <1>2 DEF Reached
  <2>4. \A s : TakenBack(s)' <=> TakenBack(s)
    BY <2>1, <1>2 DEF TakenBack
  <2> QED BY <1>2, <1>5, <2>2, <2>3, <2>4 DEF IsLedger
<1>11. \A q \in Honest : q # p => Follows(q, h)'
  <2> SUFFICES ASSUME NEW q \in Honest, q # p PROVE Follows(q, h)'
    OBVIOUS
  <2>1. /\ queue'[q] = queue[q] /\ next_idx'[q] = next_idx[q] /\ run'[q] = run[q]
        /\ runner'[q] = runner[q] /\ outputs'[q] = outputs[q]
    BY <1>1, <1>3, <1>4 DEF Types
  <2> QED BY <2>1, <1>5 DEF Follows
<1>12. ASSUME NEW j \in Proc
       PROVE  /\ PassedUpto(p, j) => Len(outputs'[p][j]) = agreed[j]
              /\ ~PassedUpto(p, j) => Len(outputs'[p][j]) = h[r].agreed[j]
  <2> HIDE DEF agreed
  <2>1. outputs'[p][j] = IF PassedUpto(p, j) THEN Extended(p, j, agreed[j]) ELSE outputs[p][j]
    BY <1>1, <1>3 DEF Types
  <2>2. Len(Extended(p, j, agreed[j])) = agreed[j]
    <3>1. agreed[j] \in Nat
      BY <1>2
    <3>2. /\ outputs[p][j] \in Seq(Nat \cup {None}) /\ inputs[p][j] \in Nat
      BY <1>1 DEF Types
    <3>3. \A k \in 1 .. agreed[j] : k <= Len(outputs[p][j]) => outputs[p][j][k] \in Nat \cup {None}
      BY <3>2
    <3> QED BY <3>1, <3>2, <3>3 DEF Extended
  <2>3. Len(outputs[p][j]) = h[r].agreed[j]
    BY <1>7 DEF Lens
  <2> QED BY <2>1, <2>2, <2>3
<1>13. CASE PassedUpto(p, N - 1)
  <2>1. Grows(h[r].agreed, agreed)
    BY <1>2, <1>7, <1>13
  <2>2. run'[p] = r + 1 /\ runner'[p] = "sleeping"
    BY <1>1, <1>4, <1>13 DEF Types
  <2>3. queue'[p] = queue[p] \o LedgerOutput(next_idx[p], pending)
    BY <1>1, <1>4, <1>13, OutputIsLedgers, ZenonT(60) DEF Types
  <2>4. next_idx'[p] = [j \in Proc |-> next_idx[p][j] + Returned(pending, j)]
    BY <1>1, <1>4, <1>13 DEF Types
  <2>5. pending = Due(h[r], agreed)
    BY <1>8 DEF Pending, Due
  <2>6. /\ agreed = NextAgreed(h[r].agreed, view)
        /\ Grows(h[r].agreed, NextAgreed(h[r].agreed, view))
    <3> HIDE DEF agreed
    <3> QED BY <2>1, <1>2, <1>7
  <2> HIDE DEF pending, agreed
  <2>7. /\ next_idx'[p] = h[r + 1].next
        /\ queue'[p] = h[r + 1].queue
    <3>1. /\ \A j \in Proc : h[r + 1].next[j] = h[r].next[j] + Returned(pending, j)
          /\ h[r + 1].queue = h[r].queue \o LedgerOutput(h[r].next, pending)
      <4> HIDE DEF view, r
      <4>1. pending = Due(h[r], NextAgreed(h[r].agreed, view))
        BY <2>5, <2>6
      <4>2. /\ \A j \in Proc : NextEntry(h[r], view).next[j] = h[r].next[j]
                   + Returned(Due(h[r], NextAgreed(h[r].agreed, view)), j)
            /\ NextEntry(h[r], view).queue = h[r].queue
                   \o LedgerOutput(h[r].next, Due(h[r], NextAgreed(h[r].agreed, view)))
        BY <2>6, NextEntryGrown
      <4> QED BY <4>1, <4>2, <1>6
    <3>2. h[r + 1].next \in [Proc -> Nat]
      BY <1>6 DEF Entries
    <3>3. \A j \in Proc : next_idx'[p][j] = h[r + 1].next[j]
      BY <3>1, <2>4, <1>8
    <3>4. next_idx'[p] = h[r + 1].next
      BY <3>2, <3>3, <2>4
    <3> QED BY <3>1, <3>4, <2>3, <1>8
  <2>8. \A j \in Proc : Len(outputs'[p][j]) = h[r + 1].agreed[j]
    <3>1. \A j \in Proc : 0 .. j \subseteq 0 .. N - 1
      BY Parties DEF Proc
    <3>2. \A j \in Proc : PassedUpto(p, j)
      BY <3>1, <1>13 DEF PassedUpto
    <3> QED BY <3>2, <1>9, <1>12
  <2>10. \A s \in Runs : s < r + 1 => Grows(h[s].agreed, h[s + 1].agreed)
    <3>1. \A s \in Runs : s < r + 1 => s < r \/ s = r
      BY <1>2 DEF Runs
    <3>2. \A s \in Runs : s < r => Grows(h[s].agreed, h[s + 1].agreed)
      BY <1>5 DEF Follows
    <3> QED BY <3>1, <3>2, <2>1, <1>9
  <2>9. Follows(p, h)'
    BY <2>2, <2>7, <2>8, <2>10 DEF Follows
  <2> QED BY <2>9, <1>10, <1>11 DEF LedgerInv
<1>14. CASE ~PassedUpto(p, N - 1)
  <2>1. /\ UNCHANGED <<queue, next_idx, run>>
        /\ runner'[p] = "dead"
    BY <1>1, <1>4, <1>14 DEF Types
  <2>3. ~Grows(h[r].agreed, h[r + 1].agreed)
    BY <1>2, <1>7, <1>9, <1>14
  <2>4. \A s \in Runs : s < r => Grows(h[s].agreed, h[s + 1].agreed)
    BY <1>5 DEF Follows
  <2>2. Follows(p, h)'
    BY <2>1, <2>3, <2>4, <1>8, <1>9, <1>12 DEF Follows
  <2> QED BY <2>2, <1>10, <1>11 DEF LedgerInv
<1> QED BY <1>13, <1>14

\* Every step keeps the invariant.
LEMMA InvariantStep == IInv /\ [Next]_vars => IInv'
<1> SUFFICES ASSUME IInv, [Next]_vars PROVE IInv'
  OBVIOUS
<1>0. StateInv'
  BY StateStep DEF IInv
<1>1. ASSUME NEW p \in Honest, NEW j \in Proc, NEW id \in 0 .. Arrives[p][j] - 1,
             RecvValue(p, j, id)
      PROVE  IInv'
  BY <1>0, <1>1, RecvValueLedger DEF IInv
<1>2. ASSUME NEW p \in Honest, StartAcs(p)
      PROVE  IInv'
  BY <1>0, <1>2, StartAcsLedger DEF IInv
<1>3. ASSUME NEW r \in Runs, NEW S \in SUBSET Proc, NEW lies \in [S \cap Faulty -> Reports],
             DecideAcs(r, S, lies)
      PROVE  IInv'
  BY <1>0, <1>3, DecideAcsLedger DEF IInv
<1>4. ASSUME NEW p \in Honest, ProcessAcs(p)
      PROVE  IInv'
  BY <1>0, <1>4, ProcessAcsLedger DEF IInv
<1>5. CASE UNCHANGED vars
  <2>1. LedgerInv'
    BY <1>5, LedgerStays DEF IInv, vars
  <2> QED BY <2>1, <1>0 DEF IInv
<1> QED BY <1>1, <1>2, <1>3, <1>4, <1>5 DEF Next, Undecided, Quorums

-----------------------------------------------------------------------------
(* The theorems.                                                           *)

\* The inductive invariant holds: states have their types, reports are true, and
\* there is one ledger that every party follows.
THEOREM InvariantHolds == Spec => []IInv
<1>1. Init => IInv
  BY InitState, InitLedger DEF IInv
<1> QED BY <1>1, InvariantStep, PTL DEF Spec

\* Values keep their shapes, and next_idx_to_return never passes what is agreed.
THEOREM TypeCorrect == Spec => []TypeOK
<1>1. IInv => TypeOK
  BY DEF IInv, StateInv
<1> QED BY <1>1, InvariantHolds, PTL

\* A future has its value exactly if the value is here, in whichever order
\* _recv_loop and _process_acs_output come.
THEOREM ResolvedHolds == Spec => []Resolved
<1>1. IInv => Resolved
  BY DEF IInv, StateInv
<1> QED BY <1>1, InvariantHolds, PTL

\* The output queues of honest parties are prefixes of each other, whatever
\* faulty parties report and whatever has arrived where: entries of one ledger.
THEOREM SameOrderHolds == Spec => []SameOrder
<1>1. IInv => SameOrder
  <2> SUFFICES ASSUME IInv, NEW p \in Honest, NEW q \in Honest
               PROVE  IsPrefix(queue[p], queue[q]) \/ IsPrefix(queue[q], queue[p])
    BY DEF SameOrder
  <2>1. PICK h : IsLedger(h) /\ \A i \in Honest : Follows(i, h)
    BY DEF IInv, LedgerInv
  <2>2. ASSUME NEW i \in Honest
        PROVE  run[i] \in 0 .. MaxAcs /\ Reached(run[i]) /\ queue[i] = h[run[i]].queue
    <3>1. run[i] \in 0 .. MaxAcs /\ MaxAcs \in Nat
      BY SizeAssumption DEF IInv, StateInv, Types
    <3>2. run[i] # 0 => run[i] - 1 \in Runs /\ run[i] - 1 < run[i]
      BY <3>1 DEF Runs
    <3> QED BY <3>1, <3>2, <2>1 DEF IInv, StateInv, Phases, Reached, Follows
  <2>3. run[p] \in 0 .. run[q] \/ run[q] \in 0 .. run[p]
    BY <2>2
  <2> QED BY <2>1, <2>2, <2>3 DEF IsLedger
<1> QED BY <1>1, InvariantHolds, PTL

\* With chunks of one value no value is put in a queue twice or left out, and those
\* of a dealer come in their order, over any number of batches and subsets.
THEOREM EachOnceHolds == Spec => []EachOnce
<1>1. IInv => EachOnce
  <2> SUFFICES ASSUME IInv, ChunkSize = 1, NEW p \in Honest
               PROVE  \A n \in DOMAIN queue[p] :
                         LET v == queue[p][n]
                         IN  v # Delimiter => v[2] = Cardinality(Earlier(queue[p], n, v[1]))
    BY DEF EachOnce, AllOnce
  <2>1. PICK h : IsLedger(h) /\ \A i \in Honest : Follows(i, h)
    BY DEF IInv, LedgerInv
  <2>2. run[p] \in 0 .. MaxAcs /\ Reached(run[p])
    <3>1. run[p] \in 0 .. MaxAcs /\ MaxAcs \in Nat
      BY SizeAssumption DEF IInv, StateInv, Types
    <3>2. run[p] # 0 => run[p] - 1 \in Runs /\ run[p] - 1 < run[p]
      BY <3>1 DEF Runs
    <3> QED BY <3>1, <3>2 DEF IInv, StateInv, Phases, Reached
  <2>3. InOrder(h[run[p]].queue, h[run[p]].next)
    BY <2>1, <2>2 DEF IsLedger
  <2>4. queue[p] = h[run[p]].queue
    BY <2>1 DEF Follows
  <2> QED BY <2>3, <2>4 DEF InOrder
<1> QED BY <1>1, InvariantHolds, PTL

\* Every value that is agreed on has reached an honest party: T + 1 reports stand
\* behind it.
THEOREM BackedHolds == Spec => []Backed
<1>1. IInv => Backed
  <2> SUFFICES ASSUME IInv, NEW p \in Honest, NEW j \in Proc, outputs[p][j] # <<>>
               PROVE  \E q \in Honest : inputs[q][j] >= Len(outputs[p][j])
    BY DEF Backed
  <2>1. Types /\ Phases /\ ReportsTrue
    BY DEF IInv, StateInv
  <2>2. PICK h : IsLedger(h) /\ \A i \in Honest : Follows(i, h)
    BY DEF IInv, LedgerInv
  <2> DEFINE count == Len(outputs[p][j])
  <2>3. count \in Nat /\ count # 0
    BY <2>1 DEF Types
  <2>4. run[p] \in 0 .. MaxAcs /\ MaxAcs \in Nat /\ (run[p] # 0 => run[p] - 1 \in Runs)
    <3>1. run[p] \in 0 .. MaxAcs /\ MaxAcs \in Nat
      BY <2>1, SizeAssumption DEF Types
    <3> QED BY <3>1 DEF Runs
  <2>5. \E r \in 0 .. MaxAcs : Supported(r, j, count)
    <3>1. CASE count = h[run[p]].agreed[j]
      <4>1. Reached(run[p])
        BY <2>1, <2>4 DEF Phases, Reached
      <4> QED BY <4>1, <3>1, <2>2, <2>4 DEF IsLedger
    <3>2. CASE runner[p] = "dead" /\ count = h[run[p] + 1].agreed[j]
      <4>1. run[p] \in Runs /\ subset[run[p]] # None
        BY <3>2, <2>1 DEF Phases
      <4>2. run[p] + 1 \in 0 .. MaxAcs /\ (run[p] + 1) - 1 = run[p]
        BY <4>1, <2>4 DEF Runs
      <4>3. Reached(run[p] + 1)
        BY <4>1, <4>2 DEF Reached
      <4> QED BY <4>2, <4>3, <3>2, <2>2 DEF IsLedger
    <3> QED BY <3>1, <3>2, <2>2 DEF Follows
  <2> HIDE DEF count
  <2>6. PICK W \in SUBSET Proc :
           /\ Cardinality(W) >= T + 1
           /\ \A i \in W : \E s \in Runs : Told(s, i) /\ subset[s][i][j] >= count
    BY <2>3, <2>5 DEF Supported
  <2>7. PICK q \in W : q \in Honest
    <3>1. Cardinality(W) > T
      <4>1. Cardinality(W) \in Nat
        BY Parties, FS_Subset, FS_CardinalityType
      <4> QED BY <4>1, <2>6, SizeAssumption
    <3> QED BY <3>1, HonestMember
  <2>8. PICK s \in Runs : Told(s, q) /\ subset[s][q][j] >= count
    BY <2>6
  <2>9. subset[s][q][j] <= inputs[q][j]
    BY <2>1, <2>7, <2>8 DEF ReportsTrue
  <2>10. subset[s][q][j] \in Nat /\ inputs[q][j] \in Nat
    <3>1. subset[s] \in [Proc -> [Proc -> Nat] \cup {None}] /\ subset[s][q] # None /\ q \in Proc
      BY <2>1, <2>8 DEF Types, Told
    <3> QED BY <3>1, <2>1, <2>7 DEF Types
  <2> QED BY <2>3, <2>7, <2>8, <2>9, <2>10 DEF count
<1> QED BY <1>1, InvariantHolds, PTL

\* Honest parties that no assertion has stopped agree on the counts of each
\* dealer after equally many subsets, whatever faulty parties report: acs_outputs
\* is filled in alike.
THEOREM SameAgreedHolds == Spec => []SameAgreed
<1>1. IInv => SameAgreed
  BY DEF IInv, LedgerInv, Follows, SameAgreed
<1> QED BY <1>1, InvariantHolds, PTL

\* Whatever faulty parties report: where the assertion of _process_acs_output fails,
\* one of them has taken a report back, and then no honest party gets any further.
THEOREM StopsBlamedHolds == Spec => []StopsBlamed
<1>1. IInv => StopsBlamed
  <2> SUFFICES ASSUME IInv, NEW p \in Honest, runner[p] = "dead"
               PROVE  TakenBack(run[p]) /\ \A q \in Honest : run[q] <= run[p]
    BY DEF StopsBlamed
  <2>1. PICK h : IsLedger(h) /\ \A i \in Honest : Follows(i, h)
    BY DEF IInv, LedgerInv
  <2>2. run[p] \in Runs /\ subset[run[p]] # None
    BY DEF IInv, StateInv, Phases
  <2>3. ~Grows(h[run[p]].agreed, h[run[p] + 1].agreed)
    BY <2>1 DEF Follows
  <2>4. TakenBack(run[p])
    BY <2>1, <2>2, <2>3 DEF IsLedger
  <2>5. ASSUME NEW q \in Honest PROVE run[q] <= run[p]
    <3>1. ~(run[p] < run[q])
      BY <2>1, <2>2, <2>3 DEF Follows
    <3>2. run[p] \in 0 .. MaxAcs /\ run[q] \in 0 .. MaxAcs /\ MaxAcs \in Nat
      BY SizeAssumption DEF IInv, StateInv, Types
    <3> QED BY <3>1, <3>2
  <2> QED BY <2>4, <2>5
<1> QED BY <1>1, InvariantHolds, PTL
=============================================================================
