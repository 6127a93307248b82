------------------------- MODULE NativeCallsProofs -------------------------
(***************************************************************************)
(* The cache of transform matrices under parallel regions: MatrixLive for  *)
(* any calls, moduli, roots and numbers of threads.  Nothing is assumed of *)
(* the arithmetic: the matrix in the cache is the one FftVmMatrix defines, *)
(* whatever that is.                                                       *)
(***************************************************************************)
EXTENDS NativeCalls, WellFoundedInduction, TLAPS

\* Every matrix in the cache c is that of its size and root, modulo the modulus of
\* the cache.
Right(c) == \A key \in DOMAIN c.matrices :
               c.matrices[key] = FftVmMatrix(key[2], key[1], c.modulus)

\* A region belongs to a call that has no result yet, and no other call is served.
OneCall == /\ call = None => result = None
           /\ region # None => call # None /\ result = None

ModulusShape == modulus = [t \in Threads |-> modulus[t]]
ThreadsShape == /\ threads.omp \in Threads
                /\ threads = [omp |-> threads.omp, ntl |-> threads.ntl]
RegionShape  == region # None =>
                   /\ {"p", "omega", "pc"} \subseteq DOMAIN region
                   /\ DOMAIN region.pc \subseteq Threads

Key(t) == VmKey(RegionRoot(t), call.n, region.p)

\* A thread has the modulus of the region once it has begun, and the matrix of the
\* item it works on is in the cache.
ThreadsReady ==
    region # None => \A t \in DOMAIN region.pc :
        /\ region.pc[t] # "init" => modulus[t] = region.p
        /\ region.pc[t] = "item" /\ call.n >= FFT_VAN_THRESHOLD =>
              cache.modulus = region.p /\ Key(t) \in DOMAIN cache.matrices

CacheInv == /\ Right(cache)
            /\ OneCall
            /\ ModulusShape /\ ThreadsShape /\ RegionShape
            /\ ThreadsReady

-----------------------------------------------------------------------------
(* Lookups in the cache.                                                   *)

LEMMA LookupRight ==
    ASSUME NEW c, NEW w, NEW n, NEW p, Right(c)
    PROVE  Right(FftLookup(c, w, n, p))
<1> DEFINE root == VmKey(w, n, p)[2]
           kept == IF p # c.modulus THEN <<>> ELSE c.matrices
           new  == FftLookup(c, w, n, p)
<1>1. CASE ~(n >= FFT_VAN_THRESHOLD)
  BY <1>1 DEF FftLookup
<1>2. CASE n >= FFT_VAN_THRESHOLD
  <2>1. new = [modulus |-> p, matrices |-> WithMatrix(kept, root, FFT_VAN_THRESHOLD, p)]
    BY <1>2 DEF FftLookup, GetMatrix
  <2>2. \A key \in DOMAIN kept : kept[key] = FftVmMatrix(key[2], key[1], p)
    BY DEF Right
  <2> HIDE DEF kept, root, new
  <2>3. ASSUME NEW key \in DOMAIN new.matrices
        PROVE  new.matrices[key] = FftVmMatrix(key[2], key[1], p)
    BY <2>1, <2>2, <2>3 DEF WithMatrix
  <2> QED BY <2>1, <2>3 DEF Right, new
<1> QED BY <1>1, <1>2

\* A lookup leaves the entry in the cache, and those of the same modulus.
LEMMA LookupFound ==
    ASSUME NEW c, NEW w, NEW n, NEW p, n >= FFT_VAN_THRESHOLD
    PROVE  /\ FftLookup(c, w, n, p).modulus = p
           /\ VmKey(w, n, p) \in DOMAIN FftLookup(c, w, n, p).matrices
BY DEF FftLookup, GetMatrix, WithMatrix, VmKey

LEMMA LookupKeeps ==
    ASSUME NEW c, NEW w, NEW n, NEW p, NEW k \in DOMAIN c.matrices, c.modulus = p
    PROVE  /\ FftLookup(c, w, n, p).modulus = p
           /\ k \in DOMAIN FftLookup(c, w, n, p).matrices
BY DEF FftLookup, GetMatrix, WithMatrix

LEMMA DecodeCacheRight ==
    ASSUME NEW c, NEW w, NEW n, NEW p, Right(c)
    PROVE  Right(FntDecodeCache(c, w, n, p))
BY LookupRight DEF FntDecodeCache

-----------------------------------------------------------------------------
(* The invariant.                                                          *)

LEMMA CacheInvInit == Init => CacheInv
BY ThreadsAssumption DEF Init, CacheInv, Right, NoCache, OneCall, ModulusShape, ThreadsShape,
   RegionShape, ThreadsReady, Threads

\* A call is served in one step: nothing runs in parallel.
LEMMA ServedKeeps ==
    ASSUME CacheInv, NEW c \in Calls, call = None, call' = c, region' = region,
           Right(cache'), ModulusShape', ThreadsShape'
    PROVE  CacheInv'
<1>1. region = None
  BY DEF CacheInv, OneCall
<1> QED BY <1>1, CallsAssumption DEF CacheInv, OneCall, RegionShape, ThreadsReady

LEMMA AnswerKeeps ==
    ASSUME CacheInv, NEW fn, NEW c \in Idle(fn), NEW p, NEW out, Answer(c, p, out), Right(cache')
    PROVE  CacheInv'
<1>1. ModulusShape' /\ ThreadsShape'
  BY DEF Answer, CacheInv, ModulusShape, ThreadsShape
<1> QED BY <1>1, ServedKeeps DEF Answer, Idle

LEMMA AnswerAtOnceKeeps ==
    ASSUME CacheInv, NEW fn, NEW c \in Idle(fn), NEW out, AnswerAtOnce(c, out)
    PROVE  CacheInv'
<1>1. ModulusShape' /\ ThreadsShape' /\ Right(cache')
  BY DEF AnswerAtOnce, CacheInv, ModulusShape, ThreadsShape
<1> QED BY <1>1, ServedKeeps DEF AnswerAtOnce, Idle

\* All threads of a new region are before its first item.
LEMMA StartRegionKeeps ==
    ASSUME CacheInv, NEW fn, NEW c \in Idle(fn), NEW p, NEW omega, NEW items, NEW shared,
           StartRegion(c, p, omega, items, shared), Right(cache')
    PROVE  CacheInv'
<1>1. result' = None /\ call' # None
  BY CallsAssumption DEF StartRegion, Idle, CacheInv, OneCall
<1>2. ModulusShape' /\ ThreadsShape'
  BY DEF StartRegion, CacheInv, ModulusShape, ThreadsShape
<1>3. /\ {"p", "omega", "pc"} \subseteq DOMAIN region'
      /\ region'.pc = [t \in 1 .. threads.omp |-> "init"]
  BY DEF StartRegion
<1>4. 1 .. threads.omp \subseteq Threads
  BY ThreadsAssumption DEF CacheInv, ThreadsShape, Threads
<1>5. RegionShape'
  BY <1>3, <1>4 DEF RegionShape
<1>6. ThreadsReady'
  BY <1>3 DEF ThreadsReady
<1> QED BY <1>1, <1>2, <1>5, <1>6 DEF CacheInv, OneCall

\* A step of thread t of the region, which takes it to s.
Moves(t, s) == /\ DOMAIN region' = DOMAIN region
               /\ region'.p = region.p /\ region'.omega = region.omega
               /\ region'.pc = [region.pc EXCEPT ![t] = s]

\* What it leaves alone.
LEMMA RegionStays ==
    ASSUME CacheInv, region # None, NEW t \in DOMAIN region.pc, NEW s,
           Moves(t, s), UNCHANGED <<threads, call, result>>,
           Right(cache'), ModulusShape'
    PROVE  /\ Right(cache') /\ OneCall' /\ ModulusShape' /\ ThreadsShape' /\ RegionShape'
           /\ region'.p = region.p /\ region'.omega = region.omega
           /\ DOMAIN region'.pc = DOMAIN region.pc
           /\ region'.pc[t] = s
           /\ \A u \in DOMAIN region.pc : u # t => region'.pc[u] = region.pc[u]
<1>1. {"p", "omega", "pc"} \subseteq DOMAIN region /\ DOMAIN region.pc \subseteq Threads
  BY DEF CacheInv, RegionShape
<1>2. OneCall' /\ ThreadsShape'
  BY DEF CacheInv, OneCall, ThreadsShape
<1>3. RegionShape'
  BY <1>1 DEF RegionShape, Moves
<1> QED BY <1>1, <1>2, <1>3 DEF Moves

\* The thread takes the modulus of the region; no other one sees it.
LEMMA ThreadInitKeeps ==
    ASSUME CacheInv, region # None, NEW t \in DOMAIN region.pc, ThreadInit(t)
    PROVE  CacheInv'
<1>1. /\ Moves(t, "next")
      /\ modulus' = [modulus EXCEPT ![t] = region.p]
      /\ UNCHANGED <<cache, threads, call, result>>
      /\ region.pc[t] = "init"
  BY DEF ThreadInit, Moves, CacheInv, RegionShape
<1>2. t \in Threads
  BY DEF CacheInv, RegionShape
<1>3. /\ modulus'[t] = region.p /\ ModulusShape'
      /\ \A u \in DOMAIN region.pc : u # t => modulus'[u] = modulus[u]
  BY <1>1, <1>2 DEF CacheInv, ModulusShape
<1>4. Right(cache')
  BY <1>1 DEF CacheInv
<1>5. /\ Right(cache') /\ OneCall' /\ ModulusShape' /\ ThreadsShape' /\ RegionShape'
      /\ region'.p = region.p /\ region'.omega = region.omega
      /\ DOMAIN region'.pc = DOMAIN region.pc
      /\ region'.pc[t] = "next"
      /\ \A u \in DOMAIN region.pc : u # t => region'.pc[u] = region.pc[u]
  BY <1>1, <1>3, <1>4, RegionStays
<1>6. ASSUME NEW u \in DOMAIN region.pc, u # t
      PROVE  Key(u)' = Key(u)
  BY <1>1, <1>3, <1>5, <1>6 DEF Key, RegionRoot
<1>7. ThreadsReady'
  BY <1>1, <1>3, <1>5, <1>6 DEF CacheInv, ThreadsReady
<1> QED BY <1>5, <1>7 DEF CacheInv

\* The matrix is looked up under the modulus of the region, so that no entry goes
\* that another thread uses.
LEMMA ThreadLookupKeeps ==
    ASSUME CacheInv, region # None, NEW t \in DOMAIN region.pc, ThreadLookup(t)
    PROVE  CacheInv'
<1>1. /\ Moves(t, "item")
      /\ cache' = FftLookup(cache, RegionRoot(t), call.n, modulus[t])
      /\ UNCHANGED <<modulus, threads, call, result>>
      /\ region.pc[t] = "next"
  BY DEF ThreadLookup, Moves, CacheInv, RegionShape
<1>2. modulus[t] = region.p
  BY <1>1 DEF CacheInv, ThreadsReady
<1>3. Right(cache') /\ ModulusShape'
  BY <1>1, LookupRight DEF CacheInv, ModulusShape
<1>4. /\ Right(cache') /\ OneCall' /\ ModulusShape' /\ ThreadsShape' /\ RegionShape'
      /\ region'.p = region.p /\ region'.omega = region.omega
      /\ DOMAIN region'.pc = DOMAIN region.pc
      /\ region'.pc[t] = "item"
      /\ \A u \in DOMAIN region.pc : u # t => region'.pc[u] = region.pc[u]
  BY <1>1, <1>3, RegionStays
<1>5. ASSUME NEW u \in DOMAIN region.pc
      PROVE  Key(u)' = Key(u)
  BY <1>1, <1>4 DEF Key, RegionRoot
<1>6. call.n >= FFT_VAN_THRESHOLD =>
          cache'.modulus = region.p /\ Key(t) \in DOMAIN cache'.matrices
  BY <1>1, <1>2, LookupFound DEF Key
<1>7. ASSUME NEW k \in DOMAIN cache.matrices, cache.modulus = region.p
      PROVE  cache'.modulus = region.p /\ k \in DOMAIN cache'.matrices
  BY <1>1, <1>2, <1>7, LookupKeeps
<1>8. ThreadsReady'
  <2> SUFFICES ASSUME NEW u \in DOMAIN region.pc
               PROVE  /\ region'.pc[u] # "init" => modulus[u] = region.p
                      /\ region'.pc[u] = "item" /\ call.n >= FFT_VAN_THRESHOLD =>
                            cache'.modulus = region.p /\ Key(u) \in DOMAIN cache'.matrices
    BY <1>1, <1>4, <1>5 DEF ThreadsReady
  <2>1. CASE u = t
    BY <2>1, <1>2, <1>6
  <2>2. CASE u # t
    BY <2>2, <1>4, <1>7 DEF CacheInv, ThreadsReady
  <2> QED BY <2>1, <2>2
<1> QED BY <1>4, <1>8 DEF CacheInv

LEMMA ThreadItemKeeps ==
    ASSUME CacheInv, region # None, NEW t \in DOMAIN region.pc, ThreadItem(t)
    PROVE  CacheInv'
<1>1. /\ Moves(t, "next")
      /\ UNCHANGED <<modulus, cache, threads, call, result>>
      /\ region.pc[t] = "item"
  BY DEF ThreadItem, Moves, CacheInv, RegionShape
<1>2. Right(cache') /\ ModulusShape'
  BY <1>1 DEF CacheInv, ModulusShape
<1>3. /\ Right(cache') /\ OneCall' /\ ModulusShape' /\ ThreadsShape' /\ RegionShape'
      /\ region'.p = region.p /\ region'.omega = region.omega
      /\ DOMAIN region'.pc = DOMAIN region.pc
      /\ region'.pc[t] = "next"
      /\ \A u \in DOMAIN region.pc : u # t => region'.pc[u] = region.pc[u]
  BY <1>1, <1>2, RegionStays
<1>4. ASSUME NEW u \in DOMAIN region.pc
      PROVE  Key(u)' = Key(u)
  BY <1>1, <1>3 DEF Key, RegionRoot
<1>5. ThreadsReady'
  BY <1>1, <1>3, <1>4 DEF CacheInv, ThreadsReady
<1> QED BY <1>3, <1>5 DEF CacheInv

LEMMA RegionStepKeeps == ASSUME CacheInv, RegionStep PROVE CacheInv'
BY ThreadInitKeeps, ThreadLookupKeeps, ThreadItemKeeps DEF RegionStep

\* The calls that look a matrix up, alone or to open a region.
LEMMA FftCallsKeep ==
    ASSUME CacheInv,
           FftCall \/ PartialFft \/ FftInterpolate \/ FftBatchEvaluate \/ FftBatchInterpolate
    PROVE  CacheInv'
<1>0. Right(cache)
  BY DEF CacheInv
<1>1. CASE FftCall
  BY <1>0, <1>1, LookupRight, AnswerKeeps DEF FftCall
<1>2. CASE PartialFft
  BY <1>0, <1>2, LookupRight, AnswerKeeps DEF PartialFft
<1>3. CASE FftInterpolate
  BY <1>0, <1>3, DecodeCacheRight, AnswerKeeps DEF FftInterpolate
<1>4. CASE FftBatchEvaluate
  BY <1>0, <1>4, AnswerKeeps, StartRegionKeeps DEF FftBatchEvaluate
<1>5. CASE FftBatchInterpolate
  BY <1>0, <1>5, LookupRight, AnswerKeeps, StartRegionKeeps DEF FftBatchInterpolate
<1> QED BY <1>1, <1>2, <1>3, <1>4, <1>5

\* The calls that leave the cache alone, but for Gao's decoder at powers of a root.
LEMMA OtherCallsKeep ==
    ASSUME CacheInv,
           \/ LagrangeInterpolate \/ Evaluate \/ VandermondeInverseCall
           \/ VandermondeBatchInterpolate \/ VandermondeBatchEvaluate
           \/ GaoInterpolateCall \/ SqrtMod \/ AvailableNTLThreads \/ GetMaxThreads \/ Solve
    PROVE  CacheInv'
<1>0. Right(cache)
  BY DEF CacheInv
<1>1. CASE LagrangeInterpolate
  BY <1>0, <1>1, AnswerKeeps, AnswerAtOnceKeeps DEF LagrangeInterpolate
<1>2. CASE Evaluate
  BY <1>0, <1>2, AnswerKeeps DEF Evaluate
<1>3. CASE VandermondeInverseCall
  BY <1>0, <1>3, AnswerKeeps DEF VandermondeInverseCall
<1>4. CASE VandermondeBatchInterpolate
  BY <1>0, <1>4, AnswerKeeps DEF VandermondeBatchInterpolate
<1>5. CASE VandermondeBatchEvaluate
  BY <1>0, <1>5, AnswerKeeps, AnswerAtOnceKeeps DEF VandermondeBatchEvaluate
<1>6. CASE GaoInterpolateCall
  BY <1>0, <1>6, DecodeCacheRight, AnswerKeeps, AnswerAtOnceKeeps DEF GaoInterpolateCall
<1>7. CASE SqrtMod \/ AvailableNTLThreads \/ GetMaxThreads \/ Solve
  BY <1>7, AnswerAtOnceKeeps DEF SqrtMod, AvailableNTLThreads, GetMaxThreads, Solve
<1> QED BY <1>1, <1>2, <1>3, <1>4, <1>5, <1>6, <1>7

LEMMA ThreadCallsKeep ==
    ASSUME CacheInv, SetNTLNumThreads \/ SetNumThreads
    PROVE  CacheInv'
<1>1. Right(cache)' /\ ModulusShape' /\ region' = region
  BY DEF SetNTLNumThreads, SetNumThreads, CacheInv, ModulusShape
<1>2. CASE SetNTLNumThreads
  <2>1. ThreadsShape'
    BY <1>2 DEF SetNTLNumThreads, CacheInv, ThreadsShape
  <2> QED BY <1>1, <1>2, <2>1, ServedKeeps DEF SetNTLNumThreads, Idle
<1>3. CASE SetNumThreads
  <2>1. ThreadsShape'
    BY <1>3, CallsAssumption DEF SetNumThreads, ThreadsShape, Idle
  <2> QED BY <1>1, <1>3, <2>1, ServedKeeps DEF SetNumThreads, Idle
<1> QED BY <1>2, <1>3

LEMMA EndsKeep ==
    ASSUME CacheInv, BatchResult \/ TakeResult
    PROVE  CacheInv'
<1>1. CASE BatchResult
  BY <1>1 DEF BatchResult, CacheInv, OneCall, ModulusShape, ThreadsShape, RegionShape, ThreadsReady
<1>2. CASE TakeResult
  BY <1>2 DEF TakeResult, CacheInv, OneCall, ModulusShape, ThreadsShape, RegionShape, ThreadsReady
<1> QED BY <1>1, <1>2

LEMMA CacheInvStep == CacheInv /\ [NativeNext]_vars => CacheInv'
<1> SUFFICES ASSUME CacheInv, [NativeNext]_vars PROVE CacheInv'
  OBVIOUS
<1>1. CASE NativeNext
  BY <1>1, RegionStepKeeps, FftCallsKeep, OtherCallsKeep, ThreadCallsKeep, EndsKeep
     DEF NativeNext, Next
<1>2. CASE UNCHANGED vars
  BY <1>2 DEF vars, CacheInv, OneCall, ModulusShape, ThreadsShape, RegionShape, ThreadsReady,
     Key, RegionRoot
<1> QED BY <1>1, <1>2

-----------------------------------------------------------------------------
(* CacheInvariant: the cache holds right matrices of one modulus, one call *)
(* is served at a time, and the threads of a region have its modulus.      *)
THEOREM CacheInvariant == NativeSpec => []CacheInv
BY CacheInvInit, CacheInvStep, PTL DEF NativeSpec

(* MatrixLiveHolds: in any sequence of calls, with any moduli, roots and   *)
(* numbers of threads, the reference that a thread has looked up leads to  *)
(* the matrix of its root while it transforms an item.                     *)
THEOREM MatrixLiveHolds == NativeSpec => []MatrixLive
<1>1. CacheInv => MatrixLive
  <2> SUFFICES ASSUME CacheInv, region # None, call.n >= FFT_VAN_THRESHOLD,
                      NEW t \in DOMAIN region.pc, region.pc[t] = "item"
               PROVE  LET key == VmKey(RegionRoot(t), call.n, region.p)
                      IN  /\ modulus[t] = region.p /\ cache.modulus = region.p
                          /\ key \in DOMAIN cache.matrices
                          /\ cache.matrices[key] = FftVmMatrix(key[2], key[1], region.p)
    BY DEF MatrixLive
  <2>1. modulus[t] = region.p /\ cache.modulus = region.p /\ Key(t) \in DOMAIN cache.matrices
    BY DEF CacheInv, ThreadsReady
  <2>2. cache.matrices[Key(t)] = FftVmMatrix(Key(t)[2], Key(t)[1], region.p)
    BY <2>1 DEF CacheInv, Right
  <2> QED BY <2>1, <2>2 DEF Key
<1> QED BY <1>1, CacheInvariant, PTL

-----------------------------------------------------------------------------
(* What a transform gets out of the cache.                                 *)

Matrix(w, n, p) == IF n >= FFT_VAN_THRESHOLD
                   THEN FftVmMatrix(VmKey(w, n, p)[2], FFT_VAN_THRESHOLD, p) ELSE NoMatrix

LEMMA VmRight ==
    ASSUME NEW c, NEW w, NEW n, NEW p, Right(c),
           n >= FFT_VAN_THRESHOLD => c.modulus = p /\ VmKey(w, n, p) \in DOMAIN c.matrices
    PROVE  VmOf(c, w, n, p) = Matrix(w, n, p)
<1>1. VmKey(w, n, p)[1] = FFT_VAN_THRESHOLD
  BY DEF VmKey
<1> QED BY <1>1 DEF VmOf, Matrix, Right

LEMMA LookupVm ==
    ASSUME NEW c, NEW w, NEW n, NEW p, Right(c)
    PROVE  VmOf(FftLookup(c, w, n, p), w, n, p) = Matrix(w, n, p)
BY VmRight, LookupRight, LookupFound

\* Both lookups of an interpolation: the second one does not drop the first entry.
LEMMA DecodeVm ==
    ASSUME NEW c, NEW w, NEW n, NEW p, Right(c)
    PROVE  /\ VmOf(FntDecodeCache(c, w, n, p), w, n, p) = Matrix(w, n, p)
           /\ VmOf(FntDecodeCache(c, w, n, p), Inv(w, p), n, p) = Matrix(Inv(w, p), n, p)
<1> DEFINE once == FftLookup(c, w, n, p)
           both == FftLookup(once, Inv(w, p), n, p)
<1>1. both = FntDecodeCache(c, w, n, p)
  BY DEF FntDecodeCache
<1>2. Right(once) /\ Right(both)
  BY LookupRight
<1>3. n >= FFT_VAN_THRESHOLD => both.modulus = p /\ VmKey(w, n, p) \in DOMAIN both.matrices
  BY LookupFound, LookupKeeps
<1>4. n >= FFT_VAN_THRESHOLD => both.modulus = p /\ VmKey(Inv(w, p), n, p) \in DOMAIN both.matrices
  BY LookupFound
<1> HIDE DEF both
<1>5. VmOf(both, w, n, p) = Matrix(w, n, p)
  BY <1>2, <1>3, VmRight
<1>6. VmOf(both, Inv(w, p), n, p) = Matrix(Inv(w, p), n, p)
  BY <1>2, <1>4, VmRight
<1> QED BY <1>1, <1>5, <1>6

LEMMA NoCacheRight == Right(NoCache)
BY DEF Right, NoCache

-----------------------------------------------------------------------------
(* The shares of the threads cover the batch.                              *)

\* The order of the natural numbers is well-founded.
LEMMA NatLessWF == IsWellFoundedOn({ss \in Nat \X Nat : ss[1] < ss[2]}, Nat)
BY NatLessThanWellFounded DEF OpToRel

\* Every set of natural numbers but the empty one has a least member.
LEMMA LeastNumber ==
    ASSUME NEW S, S \subseteq Nat, S # {}
    PROVE  \E m \in S : \A x \in S : m <= x
<1> DEFINE Less == {ss \in Nat \X Nat : ss[1] < ss[2]}
<1>1. PICK m \in S : \A x \in S : ~(<<x, m>> \in Less)
  <2>1. IsWellFoundedOn(Less, Nat)
    BY NatLessWF
  <2> HIDE DEF Less
  <2> QED BY <2>1, WFMin
<1>2. ASSUME NEW x \in S PROVE m <= x
  <2>1. x \in Nat /\ m \in Nat /\ ~(<<x, m>> \in Less)
    BY <1>1
  <2> QED BY <2>1
<1> QED BY <1>2

LEMMA MinOfTwo ==
    ASSUME NEW a \in Int, NEW b \in Int
    PROVE  Min({a, b}) = IF a <= b THEN a ELSE b
<1>1. PICK x \in {a, b} : \A y \in {a, b} : x <= y
  OBVIOUS
<1>2. Min({a, b}) \in {a, b} /\ \A y \in {a, b} : Min({a, b}) <= y
  BY <1>1 DEF Min
<1> QED BY <1>2

\* The items before those of thread s, of q for each thread and one more for the
\* first r.
Before(s, q, r) == (s - 1) * q + Min({s - 1, r})

LEMMA BeforeNat ==
    ASSUME NEW items \in Nat, NEW n \in Nat \ {0}, NEW s \in 1 .. n + 1
    PROVE  LET q == items \div n
               r == items % n
           IN  /\ Before(s, q, r) = (s - 1) * q + (IF s - 1 <= r THEN s - 1 ELSE r)
               /\ Before(s, q, r) \in Nat
<1> DEFINE q == items \div n
           r == items % n
<1>1. q \in Nat /\ r \in 0 .. n - 1
  OBVIOUS
<1>2. Min({s - 1, r}) = IF s - 1 <= r THEN s - 1 ELSE r
  BY <1>1, MinOfTwo
<1>3. (s - 1) * q \in Nat
  BY <1>1
<1> HIDE DEF q, r
<1>4. /\ Before(s, q, r) = (s - 1) * q + (IF s - 1 <= r THEN s - 1 ELSE r)
      /\ Before(s, q, r) \in Nat
  BY <1>1, <1>2, <1>3 DEF Before
<1> QED BY <1>4 DEF q, r

LEMMA OneMore ==
    ASSUME NEW t \in Int, NEW q \in Int
    PROVE  t * q = (t - 1) * q + q
OBVIOUS

LEMMA ShareIsSeq ==
    ASSUME NEW items \in Nat, NEW n \in Nat \ {0}, NEW t \in 1 .. n
    PROVE  Share(t, items, n) \in Seq(Nat)
<1> DEFINE q == items \div n
           r == items % n
           a == Before(t, q, r)
           b == Before(t + 1, q, r)
<1>1. /\ a \in Nat
      /\ a = (t - 1) * q + (IF t - 1 <= r THEN t - 1 ELSE r)
  <2>1. t \in 1 .. n + 1
    OBVIOUS
  <2> QED BY <2>1, BeforeNat
<1>2. /\ b \in Nat
      /\ b = t * q + (IF t <= r THEN t ELSE r)
  <2>1. t + 1 \in 1 .. n + 1 /\ (t + 1) - 1 = t
    OBVIOUS
  <2>2. /\ b \in Nat
        /\ b = ((t + 1) - 1) * q + (IF (t + 1) - 1 <= r THEN (t + 1) - 1 ELSE r)
    BY <2>1, BeforeNat
  <2> HIDE DEF b, q, r
  <2> QED BY <2>1, <2>2
<1>3. q \in Nat /\ r \in 0 .. n - 1
  OBVIOUS
<1>4. Share(t, items, n) = [k \in 1 .. b - a |-> a + k]
  BY DEF Share, Before
<1> HIDE DEF a, b, q, r
<1>5. t * q = (t - 1) * q + q
  BY <1>3, OneMore
<1>6. b - a \in Nat
  <2> DEFINE u == (t - 1) * q
  <2>1. u \in Int /\ t * q = u + q
    BY <1>3, <1>5
  <2>2. a = u + (IF t - 1 <= r THEN t - 1 ELSE r)
    BY <1>1
  <2>3. b = (u + q) + (IF t <= r THEN t ELSE r)
    BY <1>2, <2>1
  <2> HIDE DEF u
  <2> QED BY <1>1, <1>2, <1>3, <2>1, <2>2, <2>3
<1> QED BY <1>1, <1>4, <1>6

LEMMA SharesCover ==
    ASSUME NEW items \in Nat, NEW n \in Nat \ {0}, NEW i \in 1 .. items
    PROVE  \E t \in 1 .. n : \E j \in DOMAIN Share(t, items, n) : Share(t, items, n)[j] = i
<1> DEFINE q == items \div n
           r == items % n
           Reach == {s \in Nat : s + 1 \in 1 .. n + 1 /\ i <= Before(s + 1, q, r)}
<1>1. q \in Nat /\ r \in 0 .. n - 1 /\ items = n * q + r
  OBVIOUS
<1>2. ASSUME NEW s \in 1 .. n + 1
      PROVE  /\ Before(s, q, r) = (s - 1) * q + (IF s - 1 <= r THEN s - 1 ELSE r)
             /\ Before(s, q, r) \in Nat
  BY BeforeNat
<1>3. Before(1, q, r) = 0
  <2>1. Before(1, q, r) = 0 * q + (IF 0 <= r THEN 0 ELSE r)
    BY <1>2
  <2> QED BY <2>1, <1>1
<1>4. Before(n + 1, q, r) = items
  <2>1. Before(n + 1, q, r) = n * q + (IF n <= r THEN n ELSE r)
    BY <1>2, SMTT(60)
  <2> QED BY <2>1, <1>1
<1>5. n \in Reach /\ 0 \notin Reach /\ Reach \subseteq Nat
  BY <1>3, <1>4
<1>6. PICK t \in Reach : \A s \in Reach : t <= s
  <2> HIDE DEF Reach
  <2> QED BY <1>5, LeastNumber
<1>7. t \in 1 .. n /\ i <= Before(t + 1, q, r) /\ Before(t, q, r) < i
  <2>1. t # 0 /\ t \in Nat /\ t \in 1 .. n /\ i <= Before(t + 1, q, r)
    BY <1>5
  <2>2. t - 1 \in Nat /\ t - 1 \notin Reach
    BY <2>1, <1>6
  <2>3. Before(t, q, r) \in Nat
    BY <2>1, <1>2
  <2> QED BY <2>1, <2>2, <2>3
<1>8. Before(t, q, r) \in Nat /\ Before(t + 1, q, r) \in Nat
  BY <1>2, <1>7
<1>9. Share(t, items, n) = [k \in 1 .. Before(t + 1, q, r) - Before(t, q, r) |-> Before(t, q, r) + k]
  BY DEF Share, Before
<1>10. i - Before(t, q, r) \in 1 .. Before(t + 1, q, r) - Before(t, q, r)
  BY <1>7, <1>8
<1> HIDE DEF Reach
<1> QED BY <1>7, <1>8, <1>9, <1>10

-----------------------------------------------------------------------------
(* Results do not show the history.                                        *)

Field(c)  == IntToZZ(c.modulus)
RootOf(c) == IntToZZp(c.omega, Field(c))

BatchFns == {"fft_batch_evaluate", "fft_batch_interpolate"}

\* The items of a batch, the root at which their transforms look up the matrix, what
\* they share, and the result of item i by itself.
Items(c)     == IF c.fn = "fft_batch_evaluate" THEN BatchCoeffs(c, Field(c)) ELSE BatchValues(c, Field(c))
ItemRoot(c)  == IF c.fn = "fft_batch_evaluate" THEN RootOf(c) ELSE Inv(RootOf(c), Field(c))
Shared(c)    == IF c.fn = "fft_batch_evaluate" THEN None
                ELSE DecodeStep1(c.zs, RootOf(c), c.n, Matrix(RootOf(c), c.n, Field(c)), Field(c))
Alone(c, i)  == Transformed(c, Items(c)[i], RootOf(c), Shared(c),
                            Matrix(ItemRoot(c), c.n, Field(c)), Field(c))

\* The region is that of the call, no thread works on nothing, and each item has its
\* result or is still in some thread's share.
RegionRight ==
    region # None =>
        /\ call \in Calls /\ call.fn \in BatchFns
        /\ DOMAIN region = {"p", "omega", "items", "shared", "pc", "todo", "out"}
        /\ region.p = Field(call) /\ region.omega = RootOf(call)
        /\ region.items = Items(call) /\ region.shared = Shared(call)
        /\ DOMAIN region.out = DOMAIN Items(call)
        /\ DOMAIN region.todo = DOMAIN region.pc
        /\ \A t \in DOMAIN region.pc :
              /\ region.todo[t] \in Seq(Nat)
              /\ region.pc[t] = "item" => region.todo[t] # <<>>
        /\ \A i \in DOMAIN Items(call) :
              \/ region.out[i] = Alone(call, i)
              \/ \E t \in DOMAIN region.pc : \E j \in DOMAIN region.todo[t] : region.todo[t][j] = i

ResultInv == RegionRight /\ HistoryFree

\* The first outcome of a batch is that of its items alone.
LEMMA FirstBatch ==
    ASSUME NEW c, c.fn \in BatchFns
    PROVE  FirstOutcome(c) = Value([i \in DOMAIN Items(c) |-> ToInts(Alone(c, i))])
<1> DEFINE w == RootOf(c)
           p == Field(c)
<1>1. CASE c.fn = "fft_batch_evaluate"
  <2>1. VmOf(FirstCache(c), w, c.n, p) = Matrix(w, c.n, p)
    BY <1>1, NoCacheRight, LookupVm DEF FirstCache, RootOf, Field
  <2>2. FirstOutcome(c) =
          Value([i \in DOMAIN c.coeffs |->
             ToInts(Transformed(c, BatchCoeffs(c, p)[i], w, None, VmOf(FirstCache(c), w, c.n, p), p))])
    BY <1>1 DEF FirstOutcome, RootOf, Field
  <2>3. DOMAIN Items(c) = DOMAIN c.coeffs
    BY <1>1 DEF Items, BatchCoeffs
  <2>4. \A i : Alone(c, i) = Transformed(c, BatchCoeffs(c, p)[i], w, None, Matrix(w, c.n, p), p)
    BY <1>1 DEF Alone, Items, Shared, ItemRoot
  <2> HIDE DEF w, p
  <2> QED BY <2>1, <2>2, <2>3, <2>4
<1>2. CASE c.fn = "fft_batch_interpolate"
  <2> DEFINE step1(vm) == DecodeStep1(c.zs, w, c.n, vm, p)
  <2>1. /\ VmOf(FirstCache(c), w, c.n, p) = Matrix(w, c.n, p)
        /\ VmOf(FirstCache(c), Inv(w, p), c.n, p) = Matrix(Inv(w, p), c.n, p)
    BY <1>2, NoCacheRight, DecodeVm DEF FirstCache, RootOf, Field
  <2>2. FirstOutcome(c) =
          Value([i \in DOMAIN c.ys_list |->
             ToInts(Transformed(c, BatchValues(c, p)[i], w, step1(VmOf(FirstCache(c), w, c.n, p)),
                                VmOf(FirstCache(c), Inv(w, p), c.n, p), p))])
    BY <1>2 DEF FirstOutcome, RootOf, Field
  <2>3. DOMAIN Items(c) = DOMAIN c.ys_list
    BY <1>2 DEF Items, BatchValues
  <2>4. \A i : Alone(c, i) = Transformed(c, BatchValues(c, p)[i], w, step1(Matrix(w, c.n, p)),
                                         Matrix(Inv(w, p), c.n, p), p)
    BY <1>2 DEF Alone, Items, Shared, ItemRoot
  <2> HIDE DEF w, p, step1
  <2> QED BY <2>1, <2>2, <2>3, <2>4
<1> QED BY <1>1, <1>2 DEF BatchFns

LEMMA ResultInvInit == Init => ResultInv
BY DEF Init, ResultInv, RegionRight, HistoryFree

\* A call that is served in one step: no region runs before or after it.
LEMMA ServedRight ==
    ASSUME CacheInv, call = None, region' = region
    PROVE  RegionRight'
BY DEF CacheInv, OneCall, RegionRight

LEMMA FftResult ==
    ASSUME CacheInv, FftCall \/ PartialFft
    PROVE  ResultInv'
<1>1. PICK c \in Calls :
        /\ call = None /\ region' = region /\ call' = c
        /\ cache' = FftLookup(cache, RootOf(c), c.n, Field(c))
        /\ \/ c.fn = "fft" /\ result' = FftOutcome(c, c.n, cache')
           \/ c.fn = "partial_fft" /\ result' = FftOutcome(c, c.k, cache')
  BY DEF FftCall, PartialFft, Idle, Answer, Field, RootOf
<1>2. VmOf(cache', RootOf(c), c.n, Field(c)) = Matrix(RootOf(c), c.n, Field(c))
  BY <1>1, LookupVm DEF CacheInv
<1>3. VmOf(FirstCache(c), RootOf(c), c.n, Field(c)) = Matrix(RootOf(c), c.n, Field(c))
  BY <1>1, NoCacheRight, LookupVm DEF FirstCache, RootOf, Field
<1>4. \A k : FftOutcome(c, k, cache') = FftOutcome(c, k, FirstCache(c))
  BY <1>2, <1>3 DEF FftOutcome, RootOf, Field
<1>5. result' = FirstOutcome(c)
  BY <1>1, <1>4 DEF FirstOutcome
<1> QED BY <1>1, <1>5, ServedRight DEF ResultInv, HistoryFree

LEMMA InterpolateResult ==
    ASSUME CacheInv, FftInterpolate
    PROVE  ResultInv'
<1>1. PICK c \in Calls :
        /\ call = None /\ region' = region /\ call' = c /\ c.fn = "fft_interpolate"
        /\ cache' = FntDecodeCache(cache, RootOf(c), c.n, Field(c))
        /\ result' = InterpolateOutcome(c, cache')
  BY DEF FftInterpolate, Idle, Answer, Field, RootOf
<1> DEFINE w == RootOf(c)
           p == Field(c)
<1>2. /\ VmOf(cache', w, c.n, p) = VmOf(FirstCache(c), w, c.n, p)
      /\ VmOf(cache', Inv(w, p), c.n, p) = VmOf(FirstCache(c), Inv(w, p), c.n, p)
  <2>1. FirstCache(c) = FntDecodeCache(NoCache, w, c.n, p)
    BY <1>1 DEF FirstCache, RootOf, Field
  <2> HIDE DEF w, p
  <2> QED BY <2>1, <1>1, NoCacheRight, DecodeVm DEF CacheInv, w, p
<1>3. InterpolateOutcome(c, cache') = InterpolateOutcome(c, FirstCache(c))
  <2>1. \A zs, ys : FntDecode(zs, ys, w, c.n, cache', p) = FntDecode(zs, ys, w, c.n, FirstCache(c), p)
    BY <1>2 DEF FntDecode
  <2> QED BY <2>1 DEF InterpolateOutcome, RootOf, Field
<1>4. result' = FirstOutcome(c)
  BY <1>1, <1>3 DEF FirstOutcome
<1> QED BY <1>1, <1>4, ServedRight DEF ResultInv, HistoryFree

LEMMA GaoResult ==
    ASSUME CacheInv, GaoInterpolateCall
    PROVE  ResultInv'
<1>1. PICK c \in Calls :
        /\ call = None /\ region' = region /\ call' = c /\ c.fn = "gao_interpolate"
        /\ \/ result'.kind # "value"
           \/ ~c.use_omega_powers
           \/ /\ cache' = FntDecodeCache(cache, RootOf(c), c.order, Field(c))
              /\ result' = GaoOutcome(GaoByOmega(c, cache', Field(c)))
  BY DEF GaoInterpolateCall, Idle, Answer, AnswerAtOnce, Raises, Field, RootOf
<1>2. CASE result'.kind # "value" \/ ~c.use_omega_powers
  BY <1>1, <1>2, ServedRight DEF ResultInv, HistoryFree, CachedFns
<1>3. CASE /\ cache' = FntDecodeCache(cache, RootOf(c), c.order, Field(c))
           /\ result' = GaoOutcome(GaoByOmega(c, cache', Field(c)))
  <2> DEFINE w == RootOf(c)
             p == Field(c)
  <2>1. /\ VmOf(cache', w, c.order, p) = VmOf(FirstCache(c), w, c.order, p)
        /\ VmOf(cache', Inv(w, p), c.order, p) = VmOf(FirstCache(c), Inv(w, p), c.order, p)
    <3>1. FirstCache(c) = FntDecodeCache(NoCache, w, c.order, p)
      BY <1>1 DEF FirstCache, RootOf, Field
    <3> HIDE DEF w, p
    <3> QED BY <3>1, <1>3, NoCacheRight, DecodeVm DEF CacheInv, w, p
  <2>2. \A zs, ys : FntDecode(zs, ys, w, c.order, cache', p)
                      = FntDecode(zs, ys, w, c.order, FirstCache(c), p)
    BY <2>1 DEF FntDecode
  <2>3. GaoByOmega(c, cache', p) = GaoByOmega(c, FirstCache(c), p)
    BY <2>2 DEF GaoByOmega, GaoInterpolateFft, RootOf, Field
  <2>4. result' = FirstOutcome(c)
    BY <1>1, <1>3, <2>3 DEF FirstOutcome, Field
  <2> QED BY <1>1, <2>4, ServedRight DEF ResultInv, HistoryFree
<1> QED BY <1>1, <1>2, <1>3

\* The calls that HistoryFree says nothing of.
LEMMA OtherResults ==
    ASSUME CacheInv,
           \/ LagrangeInterpolate \/ Evaluate \/ VandermondeInverseCall
           \/ VandermondeBatchInterpolate \/ VandermondeBatchEvaluate
           \/ SqrtMod \/ AvailableNTLThreads \/ GetMaxThreads \/ Solve
           \/ SetNTLNumThreads \/ SetNumThreads
    PROVE  ResultInv'
<1>1. /\ call = None /\ region' = region
      /\ call'.fn \notin CachedFns /\ call'.fn # "gao_interpolate"
  <2>1. CASE LagrangeInterpolate \/ Evaluate \/ VandermondeInverseCall
             \/ VandermondeBatchInterpolate \/ VandermondeBatchEvaluate
    BY <2>1 DEF LagrangeInterpolate, Evaluate, VandermondeInverseCall, VandermondeBatchInterpolate,
       VandermondeBatchEvaluate, Idle, Answer, AnswerAtOnce, CachedFns
  <2>2. CASE SqrtMod \/ AvailableNTLThreads \/ GetMaxThreads \/ Solve
             \/ SetNTLNumThreads \/ SetNumThreads
    BY <2>2 DEF SqrtMod, AvailableNTLThreads, GetMaxThreads, Solve, SetNTLNumThreads, SetNumThreads,
       Idle, AnswerAtOnce, CachedFns
  <2> QED BY <2>1, <2>2
<1> QED BY <1>1, ServedRight DEF ResultInv, HistoryFree

\* A new region has every item in some thread's share.
LEMMA StartRight ==
    ASSUME CacheInv, NEW fn \in BatchFns, NEW c \in Idle(fn),
           StartRegion(c, Field(c), RootOf(c), Items(c), Shared(c)),
           DOMAIN Items(c) = 1 .. Len(Items(c)), Len(Items(c)) \in Nat
    PROVE  ResultInv'
<1> DEFINE m == Len(Items(c))
           n == threads.omp
<1>0. m \in Nat /\ DOMAIN Items(c) = 1 .. m
  OBVIOUS
<1>1. /\ c \in Calls /\ c.fn = fn /\ call' = c /\ result' = None
      /\ n \in Nat \ {0}
  BY ThreadsAssumption DEF Idle, StartRegion, CacheInv, OneCall, ThreadsShape, Threads
<1>2. /\ DOMAIN region' = {"p", "omega", "items", "shared", "pc", "todo", "out"}
      /\ region'.p = Field(c) /\ region'.omega = RootOf(c)
      /\ region'.items = Items(c) /\ region'.shared = Shared(c)
      /\ region'.pc = [t \in 1 .. n |-> "init"]
      /\ region'.todo = [t \in 1 .. n |-> Share(t, m, n)]
      /\ DOMAIN region'.out = DOMAIN Items(c)
  BY DEF StartRegion
<1> HIDE DEF m, n
<1>3. ASSUME NEW t \in 1 .. n
      PROVE  Share(t, m, n) \in Seq(Nat)
  BY <1>0, <1>1, <1>3, ShareIsSeq
<1>4. ASSUME NEW i \in DOMAIN Items(c)
      PROVE  \E t \in 1 .. n : \E j \in DOMAIN Share(t, m, n) : Share(t, m, n)[j] = i
  <2>1. i \in 1 .. m
    BY <1>0
  <2> QED BY <1>0, <1>1, <2>1, SharesCover, ZenonT(60)
<1>5. DOMAIN region'.pc = 1 .. n /\ DOMAIN region'.todo = 1 .. n
  BY <1>2
<1>6. \A t \in 1 .. n : region'.pc[t] = "init" /\ region'.todo[t] = Share(t, m, n)
  BY <1>2
<1>7. \A t \in DOMAIN region'.pc :
         /\ region'.todo[t] \in Seq(Nat)
         /\ region'.pc[t] = "item" => region'.todo[t] # <<>>
  BY <1>3, <1>5, <1>6
<1>8. \A i \in DOMAIN Items(c) :
         \E t \in DOMAIN region'.pc : \E j \in DOMAIN region'.todo[t] : region'.todo[t][j] = i
  <2> SUFFICES ASSUME NEW i \in DOMAIN Items(c)
               PROVE  \E t \in DOMAIN region'.pc : \E j \in DOMAIN region'.todo[t] : region'.todo[t][j] = i
    OBVIOUS
  <2>1. PICK t \in 1 .. n : \E j \in DOMAIN Share(t, m, n) : Share(t, m, n)[j] = i
    BY <1>4
  <2> QED BY <2>1, <1>5, <1>6
<1>9. RegionRight'
  BY <1>1, <1>2, <1>5, <1>7, <1>8 DEF RegionRight
<1> QED BY <1>1, <1>9 DEF ResultInv, HistoryFree

\* A thread begins, or looks its matrix up: the items stay where they are.
LEMMA BetweenItems ==
    ASSUME CacheInv, RegionRight, RegionStep,
           NEW t \in DOMAIN region.pc, ThreadInit(t) \/ ThreadLookup(t)
    PROVE  ResultInv'
<1>0. region # None
  BY DEF RegionStep
<1>1. PICK s : /\ region' = [region EXCEPT !.pc[t] = s]
               /\ s = "item" => region.todo[t] # <<>>
               /\ UNCHANGED <<call, result>>
  <2>1. CASE ThreadInit(t)
    BY <2>1 DEF ThreadInit
  <2>2. CASE ThreadLookup(t)
    BY <2>2 DEF ThreadLookup
  <2> QED BY <2>1, <2>2
<1>2. DOMAIN region = {"p", "omega", "items", "shared", "pc", "todo", "out"}
  BY <1>0 DEF RegionRight
<1>3. /\ DOMAIN region' = DOMAIN region
      /\ region'.p = region.p /\ region'.omega = region.omega
      /\ region'.items = region.items /\ region'.shared = region.shared
      /\ region'.todo = region.todo /\ region'.out = region.out
      /\ region'.pc = [region.pc EXCEPT ![t] = s]
  BY <1>1, <1>2
<1>4. /\ DOMAIN region'.pc = DOMAIN region.pc
      /\ \A u \in DOMAIN region.pc : region'.pc[u] = "item" => region.todo[u] # <<>>
  BY <1>0, <1>1, <1>3 DEF RegionRight
<1>5. RegionRight'
  BY <1>0, <1>1, <1>3, <1>4 DEF RegionRight
<1>6. result' = None
  BY <1>0, <1>1 DEF CacheInv, OneCall
<1> QED BY <1>5, <1>6 DEF ResultInv, HistoryFree

\* The matrix that a thread uses, whatever the others have looked up meanwhile.
LEMMA ItemAlone ==
    ASSUME CacheInv, RegionRight, region # None,
           NEW t \in DOMAIN region.pc, region.pc[t] = "item", NEW i
    PROVE  ItemResult(t, region.items[i]) = Alone(call, i)
<1>1. modulus[t] = region.p /\ region.p = Field(call) /\ region.omega = RootOf(call)
  BY DEF CacheInv, ThreadsReady, RegionRight
<1>2. RegionRoot(t) = ItemRoot(call)
  BY <1>1 DEF RegionRoot, ItemRoot
<1>3. VmOf(cache, RegionRoot(t), call.n, modulus[t]) = Matrix(RegionRoot(t), call.n, region.p)
  <2>1. Right(cache)
    BY DEF CacheInv
  <2>2. call.n >= FFT_VAN_THRESHOLD =>
           cache.modulus = region.p /\ VmKey(RegionRoot(t), call.n, region.p) \in DOMAIN cache.matrices
    BY DEF CacheInv, ThreadsReady, Key
  <2> QED BY <1>1, <2>1, <2>2, VmRight
<1>4. region.items = Items(call) /\ region.shared = Shared(call)
  BY DEF RegionRight
<1> QED BY <1>1, <1>2, <1>3, <1>4 DEF ItemResult, Alone

LEMMA TailOf ==
    ASSUME NEW s \in Seq(Nat), s # <<>>
    PROVE  /\ Tail(s) \in Seq(Nat)
           /\ \A j \in 2 .. Len(s) : j - 1 \in DOMAIN Tail(s) /\ Tail(s)[j - 1] = s[j]
<1>1. Tail(s) \in Seq(Nat) /\ Len(Tail(s)) = Len(s) - 1
  OBVIOUS
<1>2. ASSUME NEW j \in 2 .. Len(s)
      PROVE  j - 1 \in DOMAIN Tail(s) /\ Tail(s)[j - 1] = s[j]
  <2>1. j - 1 \in 1 .. Len(Tail(s)) /\ (j - 1) + 1 = j
    BY <1>1
  <2>2. Tail(s)[j - 1] = s[(j - 1) + 1]
    BY <2>1
  <2> QED BY <1>1, <2>1, <2>2
<1> QED BY <1>1, <1>2

LEMMA ItemDone ==
    ASSUME CacheInv, RegionRight, region # None, NEW t \in DOMAIN region.pc, ThreadItem(t)
    PROVE  ResultInv'
<1> DEFINE todo == region.todo[t]
           i == Head(todo)
<1>1. /\ region.pc[t] = "item" /\ UNCHANGED <<call, result>>
      /\ region' = [region EXCEPT !.pc[t] = "next", !.todo[t] = Tail(@),
                                  !.out[i] = ItemResult(t, region.items[i])]
  BY DEF ThreadItem
<1>2. ItemResult(t, region.items[i]) = Alone(call, i)
  BY <1>1, ItemAlone
<1>3. DOMAIN region = {"p", "omega", "items", "shared", "pc", "todo", "out"}
  BY DEF RegionRight
<1>4. /\ DOMAIN region' = DOMAIN region
      /\ region'.p = region.p /\ region'.omega = region.omega
      /\ region'.items = region.items /\ region'.shared = region.shared
      /\ region'.pc = [region.pc EXCEPT ![t] = "next"]
      /\ region'.todo = [region.todo EXCEPT ![t] = Tail(todo)]
      /\ region'.out = [region.out EXCEPT ![i] = Alone(call, i)]
  BY <1>1, <1>2, <1>3
<1>5. todo \in Seq(Nat) /\ todo # <<>> /\ t \in DOMAIN region.todo
  BY <1>1 DEF RegionRight
<1>6. /\ DOMAIN region'.pc = DOMAIN region.pc /\ DOMAIN region'.todo = DOMAIN region.todo
      /\ DOMAIN region'.out = DOMAIN region.out
      /\ region'.pc[t] = "next" /\ region'.todo[t] = Tail(todo)
      /\ \A u \in DOMAIN region.pc : u # t =>
            region'.pc[u] = region.pc[u] /\ region'.todo[u] = region.todo[u]
      /\ \A k \in DOMAIN region.out :
            region'.out[k] = IF k = i THEN Alone(call, i) ELSE region.out[k]
  BY <1>4, <1>5
<1>7. ASSUME NEW u \in DOMAIN region.pc
      PROVE  /\ region'.todo[u] \in Seq(Nat)
             /\ region'.pc[u] = "item" => region'.todo[u] # <<>>
  <2>1. CASE u = t
    <3>1. Tail(todo) \in Seq(Nat)
      BY <1>5, TailOf
    <3>2. region'.todo[u] = Tail(todo) /\ region'.pc[u] = "next"
      BY <1>6, <2>1
    <3> QED BY <3>1, <3>2
  <2>2. CASE u # t
    BY <1>6, <2>2 DEF RegionRight
  <2> QED BY <2>1, <2>2
<1>8. ASSUME NEW k \in DOMAIN Items(call)
      PROVE  \/ region'.out[k] = Alone(call, k)
             \/ \E u \in DOMAIN region.pc : \E j \in DOMAIN region'.todo[u] : region'.todo[u][j] = k
  <2>0. k \in DOMAIN region.out
    BY DEF RegionRight
  <2>1. CASE region.out[k] = Alone(call, k)
    BY <1>6, <2>0, <2>1
  <2>2. ASSUME NEW u \in DOMAIN region.pc, NEW j \in DOMAIN region.todo[u], region.todo[u][j] = k
        PROVE  \/ region'.out[k] = Alone(call, k)
               \/ \E v \in DOMAIN region.pc : \E l \in DOMAIN region'.todo[v] : region'.todo[v][l] = k
    <3>1. CASE u # t
      BY <1>6, <2>2, <3>1
    <3>2. CASE u = t /\ j = 1
      <4>1. k = i
        BY <1>5, <2>2, <3>2
      <4> QED BY <1>6, <2>0, <4>1
    <3>3. CASE u = t /\ j # 1
      <4>1. j \in 2 .. Len(todo)
        BY <1>5, <3>3
      <4>2. j - 1 \in DOMAIN Tail(todo) /\ Tail(todo)[j - 1] = todo[j]
        BY <1>5, <4>1, TailOf
      <4> HIDE DEF todo
      <4> QED BY <1>6, <2>2, <3>3, <4>2, ZenonT(60) DEF todo
    <3> QED BY <3>1, <3>2, <3>3
  <2> QED BY <2>1, <2>2 DEF RegionRight
<1>9. RegionRight'
  BY <1>1, <1>4, <1>6, <1>7, <1>8, ZenonT(60) DEF RegionRight
<1>10. result' = None
  BY <1>1 DEF CacheInv, OneCall
<1> QED BY <1>9, <1>10 DEF ResultInv, HistoryFree

\* When the threads are through, no item is left: each has its result.
LEMMA BatchRight ==
    ASSUME CacheInv, ResultInv, BatchResult
    PROVE  ResultInv'
<1>1. /\ region # None /\ RegionOver /\ region' = None /\ call' = call
      /\ result' = Value([i \in DOMAIN region.out |-> ToInts(region.out[i])])
  BY DEF BatchResult
<1>2. call.fn \in BatchFns /\ DOMAIN region.out = DOMAIN Items(call)
  BY <1>1 DEF ResultInv, RegionRight
<1>3. ASSUME NEW i \in DOMAIN Items(call)
      PROVE  region.out[i] = Alone(call, i)
  <2>1. \A t \in DOMAIN region.pc : region.todo[t] = <<>>
    BY <1>1 DEF RegionOver
  <2> QED BY <1>1, <2>1 DEF ResultInv, RegionRight
<1>4. result' = FirstOutcome(call)
  BY <1>1, <1>2, <1>3, FirstBatch
<1> QED BY <1>1, <1>4 DEF ResultInv, RegionRight, HistoryFree

LEMMA BatchItems ==
    ASSUME NEW c \in Calls, c.fn \in BatchFns
    PROVE  Len(Items(c)) \in Nat /\ DOMAIN Items(c) = 1 .. Len(Items(c))
<1>1. CASE c.fn = "fft_batch_evaluate"
  <2>1. c.coeffs \in Seq(Seq(Object))
    BY <1>1, CallsAssumption
  <2>2. DOMAIN Items(c) = 1 .. Len(c.coeffs) /\ Len(c.coeffs) \in Nat
    BY <1>1, <2>1 DEF Items, BatchCoeffs
  <2> QED BY <2>2
<1>2. CASE c.fn = "fft_batch_interpolate"
  <2>1. c.ys_list \in Seq(Seq(Object))
    BY <1>2, CallsAssumption
  <2>2. DOMAIN Items(c) = 1 .. Len(c.ys_list) /\ Len(c.ys_list) \in Nat
    BY <1>2, <2>1 DEF Items, BatchValues
  <2> QED BY <2>2
<1> QED BY <1>1, <1>2 DEF BatchFns

LEMMA BatchStart ==
    ASSUME CacheInv, FftBatchEvaluate \/ FftBatchInterpolate
    PROVE  ResultInv'
<1>1. PICK c \in Calls :
        /\ call = None /\ c.fn \in BatchFns
        /\ \/ region' = region /\ call' = c /\ result'.kind # "value"
           \/ StartRegion(c, Field(c), RootOf(c), Items(c), Shared(c))
  <2>1. CASE FftBatchEvaluate
    BY <2>1 DEF FftBatchEvaluate, BatchFns, Answer, Raises, Idle, Field, RootOf, Items, Shared
  <2>2. CASE FftBatchInterpolate
    <3>1. PICK c \in Idle("fft_batch_interpolate") :
            /\ cache' = FftLookup(cache, RootOf(c), c.n, Field(c))
            /\ \/ region' = region /\ call' = c /\ result'.kind # "value"
               \/ StartRegion(c, Field(c), RootOf(c), BatchValues(c, Field(c)),
                              DecodeStep1(c.zs, RootOf(c), c.n, VmOf(cache', RootOf(c), c.n, Field(c)), Field(c)))
      BY <2>2 DEF FftBatchInterpolate, Answer, Raises, Aborts, Field, RootOf
    <3>2. VmOf(cache', RootOf(c), c.n, Field(c)) = Matrix(RootOf(c), c.n, Field(c))
      BY <3>1, LookupVm DEF CacheInv
    <3>3. c.fn = "fft_batch_interpolate"
      BY DEF Idle
    <3> QED BY <3>1, <3>2, <3>3 DEF BatchFns, Items, Shared, Idle
  <2> QED BY <2>1, <2>2
<1>2. c \in Idle(c.fn)
  BY <1>1 DEF Idle
<1>3. CASE region' = region /\ call' = c /\ result'.kind # "value"
  BY <1>1, <1>3, ServedRight DEF ResultInv, HistoryFree
<1>4. CASE StartRegion(c, Field(c), RootOf(c), Items(c), Shared(c))
  BY <1>1, <1>2, <1>4, BatchItems, StartRight
<1> QED BY <1>1, <1>3, <1>4

LEMMA ResultInvStep == CacheInv /\ ResultInv /\ [NativeNext]_vars => ResultInv'
<1> SUFFICES ASSUME CacheInv, ResultInv, [NativeNext]_vars PROVE ResultInv'
  OBVIOUS
<1>1. CASE RegionStep
  <2>1. PICK t \in DOMAIN region.pc : ThreadInit(t) \/ ThreadLookup(t) \/ ThreadItem(t)
    BY <1>1 DEF RegionStep
  <2> QED BY <1>1, <2>1, BetweenItems, ItemDone DEF RegionStep, ResultInv
<1>2. CASE BatchResult
  BY <1>2, BatchRight
<1>3. CASE TakeResult
  BY <1>3 DEF TakeResult, CacheInv, OneCall, ResultInv, RegionRight, HistoryFree
<1>4. CASE UNCHANGED vars
  BY <1>4 DEF vars, ResultInv, RegionRight, HistoryFree
<1>5. CASE FftCall \/ PartialFft \/ FftInterpolate \/ GaoInterpolateCall
           \/ FftBatchEvaluate \/ FftBatchInterpolate
  BY <1>5, FftResult, InterpolateResult, GaoResult, BatchStart
<1> QED BY <1>1, <1>2, <1>3, <1>4, <1>5, OtherResults DEF NativeNext, Next

(* ResultInvariant: each item of a running batch has the result it has     *)
(* alone or is still in a thread's share, and results are history-free.    *)
THEOREM ResultInvariant == NativeSpec => [](CacheInv /\ ResultInv)
<1>1. Init => CacheInv /\ ResultInv
  BY CacheInvInit, ResultInvInit
<1>2. (CacheInv /\ ResultInv) /\ [NativeNext]_vars => (CacheInv /\ ResultInv)'
  BY CacheInvStep, ResultInvStep
<1> QED BY <1>1, <1>2, PTL DEF NativeSpec

(* HistoryFreeHolds: a call gives what it gives in a new process, item by  *)
(* item, whatever was called before, with whatever moduli and roots, and   *)
(* however the threads of its region interleave.                           *)
THEOREM HistoryFreeHolds == NativeSpec => []HistoryFree
<1>1. ResultInv => HistoryFree
  BY DEF ResultInv
<1> QED BY <1>1, ResultInvariant, PTL
=============================================================================
