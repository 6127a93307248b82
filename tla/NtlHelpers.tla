----------------------------- MODULE NtlHelpers -----------------------------
(***************************************************************************)
(* The extension module hbmpc_ntl_helpers of ntl/, as compiled             *)
(* (hbmpc_ntl_helpers.cpp): what Python calls for interpolation,           *)
(* evaluation and decoding over prime fields.                              *)
(*                                                                         *)
(* The module has state that outlives a call: NTL's current modulus, one   *)
(* for each thread; the cache of transform matrices; the numbers of        *)
(* threads.  The batch functions release the interpreter lock and share    *)
(* their items among the threads of an OpenMP region.  All other functions *)
(* are one step.                                                           *)
(*                                                                         *)
(* A call is a record: fn is the name of the function, the other fields    *)
(* are its arguments.  Numbers from Python are objects, see below.         *)
(***************************************************************************)
EXTENDS RsDecode

CONSTANTS
    Calls,       \* the calls that Python may make
    MaxThreads,  \* bound on the number of threads asked for
    None

Object  == [t : {"int", "str", "none"}, v : Int]

Threads == 1 .. MaxThreads
Python  == 1     \* the thread of the interpreter, the master of every region

ASSUME ThreadsAssumption == MaxThreads \in Nat \ {0}
ASSUME CallsAssumption ==
    /\ None \notin Calls
    /\ \A c \in Calls :
          /\ c.fn = "SetNumThreads" => c.n \in Threads
          /\ c.fn = "fft_batch_evaluate" => c.coeffs \in Seq(Seq(Object))
          /\ c.fn = "fft_batch_interpolate" => c.ys_list \in Seq(Seq(Object))

VARIABLES
    modulus,   \* modulus[t]: ZZ_p::modulus() in thread t, 0 before the first init
    cache,     \* _fft_van_modulus and _fft_van_matrices
    threads,   \* threads of a region (omp) and of NTL's pool (ntl)
    region,    \* the running parallel region, or None
    call,      \* the call being served, or None
    result     \* its outcome, or None

vars == <<modulus, cache, threads, region, call, result>>

Init == /\ modulus = [t \in Threads |-> 0]
        /\ cache = NoCache
        /\ threads \in [omp : {MaxThreads}, ntl : {1}]
        /\ region = None
        /\ call = None
        /\ result = None

----------------------------------------------------------------------------
(***************************************************************************)
(* Conversions.  A Python object is an int, a str that spells the number v,*)
(* or None.  The functions that return a C++ object cannot report an       *)
(* exception: Cython writes it to the log and the default value, zero or   *)
(* the empty vector, is used instead.                                      *)
(***************************************************************************)
Int_(v) == [t |-> "int", v |-> v]
Str_(v) == [t |-> "str", v |-> v]
None_   == [t |-> "none", v |-> 0]

Digits(v, b) ==
    LET Of[n \in Nat] == IF n = 0 THEN <<>> ELSE <<n % b>> \o Of[n \div b]
    IN  Of[v]
Number(ds, b) == FoldRight(LAMBDA d, v : d + b * v, ds, 0)

BitLength(v) == Len(Digits(v, 2))

\* x.to_bytes fails for a negative number, x.bit_length for what is not an int.
IntToZZ(x) ==
    IF x.t = "int" /\ x.v >= 0
    THEN Number(SubSeq(Digits(x.v, 256), 1, (BitLength(x.v) + 7) \div 8), 256) ELSE 0

bytesFromZZ(X) == Digits(X, 256)
ZZToInt(X) == Number(bytesFromZZ(X), 256)

IntToZZp(x, p) == IntToZZ(x) % p

ZZpToInt(X) == ZZToInt(X)

\* Reads the number that a str spells.
ccreadstr(x) == x.v

PyObjToZZ(x) == IF x.t = "int" THEN IntToZZ(x) ELSE IF x.t = "none" THEN 0 ELSE ccreadstr(x)

PyListToVec(xs, p) == [i \in DOMAIN xs |-> IntToZZp(xs[i], p)]

\* int(ZZ_to_str(x)): to decimal digits and back
ccrepr(X)  == Digits(X, 10)
ZZToStr(X) == Number(ccrepr(X), 10)

ToInts(v)  == [i \in DOMAIN v |-> ZZpToInt(v[i])]
FromStrs(v) == [i \in DOMAIN v |-> ZZToStr(v[i])]

----------------------------------------------------------------------------
(* Outcomes, and what all functions do with them. *)
Value(v)  == [kind |-> "value", v |-> v]
Raises(e) == [kind |-> "raise", v |-> e]
Aborts    == [kind |-> "abort", v |-> <<>>]   \* NTL ends the process

Idle(fn) == {c \in Calls : call = None /\ c.fn = fn}

\* A function that runs in the interpreter's thread and makes p its modulus.
Answer(c, p, out) ==
    /\ call' = c
    /\ result' = out
    /\ modulus' = [modulus EXCEPT ![Python] = p]
    /\ UNCHANGED <<threads, region>>

\* A function that ends before it has set a modulus.
AnswerAtOnce(c, out) ==
    /\ call' = c
    /\ result' = out
    /\ UNCHANGED <<modulus, cache, threads, region>>

MaxLen(lists) == Max({Len(lists[i]) : i \in DOMAIN lists})

----------------------------------------------------------------------------
(* lagrange_interpolate(x, y, modulus) *)
LagrangePoints(c) == [x |-> [i \in DOMAIN c.x |-> PyObjToZZ(c.x[i])],
                      y |-> [i \in DOMAIN c.x |-> PyObjToZZ(c.y[i])]]

LagrangeResult(c, p) ==
    LET pts == LagrangePoints(c)
        xs  == [i \in DOMAIN pts.x |-> pts.x[i] % p]
    IN  IF Distinct(xs)
        THEN Value(FromStrs(Interpolate(xs, [i \in DOMAIN pts.y |-> pts.y[i] % p], p)))
        ELSE Aborts

LagrangeInterpolate == \E c \in Idle("lagrange_interpolate") :
    IF Len(c.x) # Len(c.y) THEN AnswerAtOnce(c, Raises("AssertionError"))
    ELSE LET p == PyObjToZZ(c.modulus)
         IN  Answer(c, p, LagrangeResult(c, p)) /\ UNCHANGED cache

(* evaluate(polynomial, x, modulus) *)
EvaluatePoly(c, p) == Trim([i \in DOMAIN c.polynomial |-> IntToZZp(c.polynomial[i], p)])

Evaluate == \E c \in Idle("evaluate") :
    LET p == PyObjToZZ(c.modulus)
    IN  /\ Answer(c, p, Value(ZZToStr(PolyEval(EvaluatePoly(c, p), IntToZZp(c.x, p), p))))
        /\ UNCHANGED cache

(* vandermonde_inverse(x, modulus): the empty matrix if there is no inverse. *)
VandermondeInverseCall == \E c \in Idle("vandermonde_inverse") :
    LET p == PyObjToZZ(c.modulus)
    IN  /\ Answer(c, p, Value(VandermondeInverse([i \in DOMAIN c.x |-> PyObjToZZ(c.x[i]) % p], p).inverse))
        /\ UNCHANGED cache

(***************************************************************************)
(* vandermonde_batch_interpolate(x, data_list, modulus): lists shorter     *)
(* than the longest are filled with zeros.                                 *)
(***************************************************************************)
VbiInverse(c, p) == VandermondeInverse([i \in DOMAIN c.x |-> PyObjToZZ(c.x[i]) % p], p)

VbiMatrix(c, p) ==
    [j \in 1 .. MaxLen(c.data_list) |-> [i \in DOMAIN c.data_list |->
        IF j <= Len(c.data_list[i]) THEN IntToZZp(c.data_list[i][j], p) ELSE 0]]

VbiPolynomials(c, r, m, p) ==
    LET reconstructions == MulMat(r, m, Len(c.data_list), p)
    IN  [i \in DOMAIN c.data_list |-> [j \in DOMAIN m |-> ZZpToInt(reconstructions[j][i])]]

VandermondeBatchInterpolate == \E c \in Idle("vandermonde_batch_interpolate") :
    LET p == PyObjToZZ(c.modulus)
        r == VbiInverse(c, p)
        m == VbiMatrix(c, p)
    IN  /\ Answer(c, p, IF ~r.ok THEN Raises("InterpolationError")
                        ELSE IF c.data_list = <<>> THEN Raises("ValueError")
                        ELSE IF Len(m) # Len(c.x) THEN Aborts
                        ELSE Value(VbiPolynomials(c, r.inverse, m, p)))
        /\ UNCHANGED cache

(* vandermonde_batch_evaluate(x, polynomials, modulus) *)
VbePoints(c, p) == VmMatrix(PyListToVec(c.x, p), MaxLen(c.polynomials), p)

VbeMatrix(c, p) ==
    [j \in 1 .. MaxLen(c.polynomials) |-> [i \in DOMAIN c.polynomials |->
        IF j <= Len(c.polynomials[i]) THEN IntToZZp(c.polynomials[i][j], p) ELSE 0]]

VbeValues(c, vm, m, p) ==
    LET res == MulMat(vm, m, Len(c.polynomials), p)
    IN  [j \in DOMAIN c.polynomials |-> [i \in DOMAIN c.x |-> ZZpToInt(res[i][j])]]

VandermondeBatchEvaluate == \E c \in Idle("vandermonde_batch_evaluate") :
    IF c.polynomials = <<>> THEN AnswerAtOnce(c, Raises("ValueError"))
    ELSE LET p == PyObjToZZ(c.modulus)
         IN  /\ Answer(c, p, Value(VbeValues(c, VbePoints(c, p), VbeMatrix(c, p), p)))
             /\ UNCHANGED cache

----------------------------------------------------------------------------
(* fft(coeffs, omega, modulus, n) and partial_fft(coeffs, omega, modulus, n, k), *)
(* with the cache m. *)
FftOutcome(c, k, m) ==
    LET p     == IntToZZ(c.modulus)
        omega == IntToZZp(c.omega, p)
    IN  Value(ToInts(Fft(PyListToVec(c.coeffs, p), omega, c.n, k, VmOf(m, omega, c.n, p), p)))

FftCall == \E c \in Idle("fft") :
    LET p == IntToZZ(c.modulus)
    IN  /\ cache' = FftLookup(cache, IntToZZp(c.omega, p), c.n, p)
        /\ Answer(c, p, FftOutcome(c, c.n, cache'))

PartialFft == \E c \in Idle("partial_fft") :
    LET p == IntToZZ(c.modulus)
    IN  /\ cache' = FftLookup(cache, IntToZZp(c.omega, p), c.n, p)
        /\ Answer(c, p, FftOutcome(c, c.k, cache'))

(***************************************************************************)
(* fft_interpolate(zs, ys, omega, modulus, n)                              *)
(***************************************************************************)
InterpolateOutcome(c, m) ==
    LET p == IntToZZ(c.modulus)
        f == FntDecode(c.zs, PyListToVec(c.ys, p), IntToZZp(c.omega, p), c.n, m, p)
    IN  IF f.ok THEN Value(FromStrs(Coeffs(f.poly, Len(c.zs)))) ELSE Aborts

FftInterpolate == \E c \in Idle("fft_interpolate") :
    LET p == IntToZZ(c.modulus)
    IN  /\ cache' = FntDecodeCache(cache, IntToZZp(c.omega, p), c.n, p)
        /\ Answer(c, p, InterpolateOutcome(c, cache'))

----------------------------------------------------------------------------
(***************************************************************************)
(* The parallel regions.  A region has the items of the batch, the modulus *)
(* and the root of unity of its transforms; out[i] is the result of item i,*)
(* todo[t] the items that the loop has given to thread t (contiguous       *)
(* shares, OpenMP's static schedule), pc[t] the thread's position.         *)
(***************************************************************************)
Share(t, items, n) ==
    LET q == items \div n
        r == items % n
        before(s) == (s - 1) * q + Min({s - 1, r})
    IN  [i \in 1 .. before(t + 1) - before(t) |-> before(t) + i]

StartRegion(c, p, omega, items, shared) ==
    /\ call' = c
    /\ modulus' = [modulus EXCEPT ![Python] = p]
    /\ region' = [p |-> p, omega |-> omega, items |-> items, shared |-> shared,
                  pc   |-> [t \in 1 .. threads.omp |-> "init"],
                  todo |-> [t \in 1 .. threads.omp |-> Share(t, Len(items), threads.omp)],
                  out  |-> [i \in DOMAIN items |-> <<>>]]
    /\ UNCHANGED <<threads, result>>

\* fft_batch_evaluate(coeffs, omega, modulus, n, k): the first polynomial gives the
\* number of coefficients taken from each.
BatchCoeffs(c, p) ==
    [i \in DOMAIN c.coeffs |-> [j \in DOMAIN c.coeffs[1] |-> IntToZZp(c.coeffs[i][j], p)]]

FftBatchEvaluate == \E c \in Idle("fft_batch_evaluate") :
    LET p == IntToZZ(c.modulus)
    IN  /\ UNCHANGED cache
        /\ IF c.coeffs = <<>> \/ \E i \in DOMAIN c.coeffs : Len(c.coeffs[i]) < Len(c.coeffs[1])
           THEN Answer(c, p, Raises("IndexError"))
           ELSE StartRegion(c, p, IntToZZp(c.omega, p), BatchCoeffs(c, p), None)

\* fft_batch_interpolate(zs, ys_list, omega, modulus, n): step 1 once, before the region.
BatchValues(c, p) ==
    [i \in DOMAIN c.ys_list |-> [j \in DOMAIN c.zs |-> IntToZZp(c.ys_list[i][j], p)]]

FftBatchInterpolate == \E c \in Idle("fft_batch_interpolate") :
    LET p     == IntToZZ(c.modulus)
        omega == IntToZZp(c.omega, p)
        step1 == DecodeStep1(c.zs, omega, c.n, VmOf(cache', omega, c.n, p), p)
    IN  /\ cache' = FftLookup(cache, omega, c.n, p)
        /\ IF ~step1.ok THEN Answer(c, p, Aborts)
           ELSE IF \E i \in DOMAIN c.ys_list : Len(c.ys_list[i]) < Len(c.zs)
           THEN Answer(c, p, Raises("IndexError"))
           ELSE StartRegion(c, p, omega, BatchValues(c, p), step1)

\* mutant: step 2 looks the matrix up at omega instead of its inverse
RegionRootForward(t) == region.omega

\* The root at which the transforms of the region look up their matrix.
RegionRoot(t) == IF call.fn = "fft_batch_evaluate" THEN region.omega
                 ELSE Inv(region.omega, modulus[t])

ThreadInit(t) ==
    /\ region.pc[t] = "init"
    /\ modulus' = [modulus EXCEPT ![t] = region.p]
    /\ region' = [region EXCEPT !.pc[t] = "next"]
    /\ UNCHANGED <<cache, threads, call, result>>

\* get_fft_vandermonde_matrix, under its mutex: a reference into the cache is kept.
ThreadLookup(t) ==
    /\ region.pc[t] = "next" /\ region.todo[t] # <<>>
    /\ cache' = FftLookup(cache, RegionRoot(t), call.n, modulus[t])
    /\ region' = [region EXCEPT !.pc[t] = "item"]
    /\ UNCHANGED <<modulus, threads, call, result>>

\* The transform of one item, with the matrix that the reference leads to now.
Transformed(c, item, omega, shared, vm, p) ==
    IF c.fn = "fft_batch_evaluate"
    THEN Fft(item, omega, c.n, c.k, vm, p)
    ELSE DecodeStep2(shared, c.zs, item, omega, c.n, vm, p)

ItemResult(t, item) ==
    Transformed(call, item, region.omega, region.shared,
                VmOf(cache, RegionRoot(t), call.n, modulus[t]), modulus[t])

ThreadItem(t) ==
    /\ region.pc[t] = "item"
    /\ LET i == Head(region.todo[t])
       IN  region' = [region EXCEPT !.pc[t] = "next", !.todo[t] = Tail(@),
                                    !.out[i] = ItemResult(t, region.items[i])]
    /\ UNCHANGED <<modulus, cache, threads, call, result>>

\* The barrier at the end of the region, after which the results are converted.
RegionOver == \A t \in DOMAIN region.pc : region.pc[t] = "next" /\ region.todo[t] = <<>>

BatchResult ==
    /\ region # None /\ RegionOver
    /\ result' = Value([i \in DOMAIN region.out |-> ToInts(region.out[i])])
    /\ region' = None
    /\ UNCHANGED <<modulus, cache, threads, call>>

RegionStep == /\ region # None
              /\ \E t \in DOMAIN region.pc : ThreadInit(t) \/ ThreadLookup(t) \/ ThreadItem(t)

----------------------------------------------------------------------------
(***************************************************************************)
(* gao_interpolate(x, y, k, modulus, z, omega, order, use_omega_powers):   *)
(* the positions whose y is None are dropped first.                        *)
(***************************************************************************)
GaoPresent(c, xs) == SelectSeq([i \in DOMAIN xs |-> i], LAMBDA i : c.y[i].t # "none")

GaoKept(c)  == GaoPresent(c, c.x)
GaoKeptZ(c) == [j \in DOMAIN GaoPresent(c, c.z) |-> c.z[GaoPresent(c, c.z)[j]]]

GaoVectors(c, p) ==
    [x |-> [j \in DOMAIN GaoKept(c) |-> IntToZZp(c.x[GaoKept(c)[j]], p)],
     y |-> [j \in DOMAIN GaoKept(c) |-> IntToZZp(c.y[GaoKept(c)[j]], p)]]

\* The assertions that guard the transform: z and omega given, and for each x that
\* is kept a z that is.
GaoAsserts(c) ==
    c.z # None /\ c.omega # None /\ Len(GaoKeptZ(c)) = Len(GaoKept(c))

GaoPlain(c, p) ==
    LET v == GaoVectors(c, p)
    IN  GaoInterpolate(v.x, v.y, c.k, Len(v.x), p)

GaoByOmega(c, m, p) ==
    LET v == GaoVectors(c, p)
    IN  GaoInterpolateFft(v.x, GaoKeptZ(c), v.y, IntToZZp(c.omega, p), c.k, Len(v.x), c.order, m, p)

GaoOutcome(d) ==
    CASE d.status = "decoded" -> Value(<<FromStrs(d.coeffs), FromStrs(d.errors)>>)
      [] d.status = "failed"  -> Value(<<>>)      \* (None, None)
      [] d.status = "abort"   -> Aborts

GaoInterpolateCall == \E c \in Idle("gao_interpolate") :
    LET p == IntToZZ(c.modulus)
    IN  IF Len(c.x) # Len(c.y)
        THEN AnswerAtOnce(c, Raises("AssertionError"))
        ELSE IF c.z # None /\ Len(c.z) > Len(c.x)
        THEN UNCHANGED cache /\ Answer(c, p, Raises("IndexError"))
        ELSE IF ~c.use_omega_powers
        THEN UNCHANGED cache /\ Answer(c, p, GaoOutcome(GaoPlain(c, p)))
        ELSE IF ~GaoAsserts(c)
        THEN UNCHANGED cache /\ Answer(c, p, Raises("AssertionError"))
        ELSE /\ cache' = FntDecodeCache(cache, IntToZZp(c.omega, p), c.order, p)
             /\ Answer(c, p, GaoOutcome(GaoByOmega(c, cache', p)))

----------------------------------------------------------------------------
(* sqrt_mod(a, n): NTL's SqrRootMod, one of the roots; n is not made the modulus. *)
SqrtMod == \E c \in Idle("sqrt_mod") :
    \E x \in 0 .. IntToZZ(c.modulus) - 1 :
        /\ x * x % IntToZZ(c.modulus) = IntToZZ(c.a) % IntToZZ(c.modulus)
        /\ AnswerAtOnce(c, Value(ZZToStr(x)))

SetNTLNumThreads == \E c \in Idle("SetNTLNumThreads") :
    /\ call' = c /\ result' = Value(<<>>)
    /\ threads' = [threads EXCEPT !.ntl = c.n]
    /\ UNCHANGED <<modulus, cache, region>>

AvailableNTLThreads == \E c \in Idle("AvailableNTLThreads") : AnswerAtOnce(c, Value(threads.ntl))

SetNumThreads == \E c \in Idle("SetNumThreads") :
    /\ call' = c /\ result' = Value(<<>>)
    /\ threads' = [ntl |-> c.n, omp |-> c.n]
    /\ UNCHANGED <<modulus, cache, region>>

GetMaxThreads == \E c \in Idle("GetMaxThreads") : AnswerAtOnce(c, Value(threads.omp))

\* Python has the result and may call again, unless the process has ended.
TakeResult == /\ result # None /\ result.kind # "abort"
              /\ call' = None /\ result' = None
              /\ UNCHANGED <<modulus, cache, threads, region>>

Next == \/ LagrangeInterpolate \/ Evaluate \/ VandermondeInverseCall
        \/ VandermondeBatchInterpolate \/ VandermondeBatchEvaluate
        \/ FftCall \/ PartialFft \/ FftInterpolate
        \/ FftBatchEvaluate \/ FftBatchInterpolate \/ RegionStep \/ BatchResult
        \/ GaoInterpolateCall \/ SqrtMod
        \/ SetNTLNumThreads \/ AvailableNTLThreads \/ SetNumThreads \/ GetMaxThreads
        \/ TakeResult

Spec == Init /\ [][Next]_vars /\ WF_vars(RegionStep \/ BatchResult)

----------------------------------------------------------------------------
(***************************************************************************)
(* What a call promises, said without the algorithms: the values of a      *)
(* polynomial, a polynomial through given points.  It promises it for      *)
(* numbers that it can read: not for negative ones, nor for None, with     *)
(* which it calculates as if they were zero instead of raising.            *)
(***************************************************************************)
Natural(x)  == x.t = "int" /\ x.v >= 0        \* what intToZZ reads
Readable(x) == Natural(x) \/ x.t = "str"      \* what py_obj_to_ZZ reads

InAll(xss) == UNION {Range(xss[i]) : i \in DOMAIN xss}

\* The arguments of a call that are read with intToZZ, and with py_obj_to_ZZ.
ByIntToZZ(c) ==
    CASE c.fn = "evaluate" -> Range(c.polynomial) \cup {c.x}
      [] c.fn = "vandermonde_batch_interpolate" -> InAll(c.data_list)
      [] c.fn = "vandermonde_batch_evaluate" -> InAll(c.polynomials) \cup Range(c.x)
      [] c.fn \in {"fft", "partial_fft"} -> Range(c.coeffs) \cup {c.omega, c.modulus}
      [] c.fn = "fft_batch_evaluate" -> InAll(c.coeffs) \cup {c.omega, c.modulus}
      [] c.fn = "fft_interpolate" -> Range(c.ys) \cup {c.omega, c.modulus}
      [] c.fn = "fft_batch_interpolate" -> InAll(c.ys_list) \cup {c.omega, c.modulus}
      [] c.fn = "gao_interpolate" ->
            Range(c.x) \cup {y \in Range(c.y) : y.t # "none"} \cup {c.modulus}
            \cup ({c.omega} \ {None})
      [] OTHER -> {}

ByPyObjToZZ(c) ==
    CASE c.fn = "lagrange_interpolate" -> Range(c.x) \cup Range(c.y) \cup {c.modulus}
      [] c.fn \in {"vandermonde_inverse", "vandermonde_batch_interpolate"} -> Range(c.x) \cup {c.modulus}
      [] c.fn \in {"evaluate", "vandermonde_batch_evaluate"} -> {c.modulus}
      [] OTHER -> {}

Converts(c) == /\ \A x \in ByIntToZZ(c) : Natural(x)
               /\ \A x \in ByPyObjToZZ(c) : Readable(x)

Numbers(xs) == [i \in DOMAIN xs |-> xs[i].v]

\* f takes the values ys at the points xs, and has no more coefficients than points.
Through(f, xs, ys, p) == /\ Len(f) <= Len(xs)
                         /\ \A i \in DOMAIN xs : PolyEval(f, xs[i], p) = ys[i] % p
                         /\ \A i \in DOMAIN f : f[i] \in 0 .. p - 1

Points(c) == [i \in 1 .. c.n |-> Pow(c.omega.v, i - 1, c.modulus.v)]
PointsAt(c) == [j \in DOMAIN c.zs |-> Points(c)[c.zs[j] + 1]]
Values(f, xs, p) == [i \in DOMAIN xs |-> PolyEval([j \in DOMAIN f |-> f[j] % p], xs[i], p)]

Distinct_(xs, p) == Distinct([i \in DOMAIN xs |-> xs[i] % p])

Interpolates(c, v) ==
    LET p == c.modulus.v IN
    CASE c.fn = "lagrange_interpolate" -> Through(v, Numbers(c.x), Numbers(c.y), p)
      [] c.fn = "fft_interpolate" -> Len(v) = Len(c.zs) /\ Through(v, PointsAt(c), Numbers(c.ys), p)
      [] c.fn = "fft_batch_interpolate" ->
            /\ Len(v) = Len(c.ys_list)
            /\ \A i \in DOMAIN v : Len(v[i]) = Len(c.zs) /\ Through(v[i], PointsAt(c), Numbers(c.ys_list[i]), p)
      [] c.fn = "vandermonde_batch_interpolate" ->
            /\ Len(v) = Len(c.data_list)
            /\ \A i \in DOMAIN v : Through(v[i], Numbers(c.x), Coeffs(Numbers(c.data_list[i]), Len(c.x)), p)
      [] c.fn = "vandermonde_inverse" ->
            IF Distinct_(Numbers(c.x), p)
            THEN MulMat(VmMatrix(Numbers(c.x), Len(c.x), p), v, Len(c.x), p)
                     = [i \in DOMAIN c.x |-> [j \in DOMAIN c.x |-> IF i = j THEN 1 ELSE 0]]
            ELSE v = <<>>

\* Of longer lists a transform of size n uses n coefficients, and a batch as many
\* as its first list has.
Used(xs, n) == Numbers(SubSeq(xs, 1, Min({Len(xs), n})))

Evaluates(c, v) ==
    LET p == c.modulus.v IN
    CASE c.fn = "evaluate" -> v = PolyEval(Numbers(c.polynomial), c.x.v, p)
      [] c.fn = "vandermonde_batch_evaluate" ->
            v = [i \in DOMAIN c.polynomials |-> Values(Numbers(c.polynomials[i]), Numbers(c.x), p)]
      [] c.fn = "fft" -> v = Values(Used(c.coeffs, c.n), Points(c), p)
      [] c.fn = "partial_fft" -> v = SubSeq(Values(Used(c.coeffs, c.n), Points(c), p), 1, c.k)
      [] c.fn = "fft_batch_evaluate" ->
            v = [i \in DOMAIN c.coeffs |->
                    SubSeq(Values(Used(c.coeffs[i], Len(c.coeffs[1])), Points(c), p), 1, c.k)]

EvaluateFns    == {"evaluate", "vandermonde_batch_evaluate", "fft", "partial_fft", "fft_batch_evaluate"}
InterpolateFns == {"lagrange_interpolate", "fft_interpolate", "fft_batch_interpolate",
                   "vandermonde_batch_interpolate", "vandermonde_inverse"}

Answered(fns) == result # None /\ call.fn \in fns

(***************************************************************************)
(* Whatever was called before, with whatever modulus and roots, and        *)
(* however the threads of a region interleave: evaluation gives the values *)
(* of the polynomials and interpolation polynomials through the points,    *)
(* for all arguments that convert.                                         *)
(* (Points that coincide end in InterpolationError or end the process.)    *)
(***************************************************************************)
EvaluatesRight ==
    Answered(EvaluateFns) /\ result.kind = "value" /\ Converts(call) => Evaluates(call, result.v)

InterpolatesRight ==
    Answered(InterpolateFns) /\ Converts(call) =>
        /\ result.kind = "value" => Interpolates(call, result.v)
        /\ result.kind = "abort" =>
              \/ call.fn \in {"fft_interpolate", "fft_batch_interpolate"} /\ ~Distinct(PointsAt(call))
              \/ call.fn = "lagrange_interpolate" /\ ~Distinct_(Numbers(call.x), call.modulus.v)
              \/ /\ call.fn = "vandermonde_batch_interpolate"
                 /\ \A i \in DOMAIN call.data_list : Len(call.data_list[i]) # Len(call.x)

\* NothingSilent: arguments that do not convert give no value (py_obj_to_ZZ: "raise
\* ValueError").  They do: the error is written to the log and 0 is used.
NothingSilent ==
    Answered(EvaluateFns \cup InterpolateFns) /\ ~Converts(call) => result.kind # "value"

(***************************************************************************)
(* gao_interpolate finds the one polynomial of degree below k that at most *)
(* (n - k) / 2 of the n values present contradict, if there is one.  What  *)
(* it returns is always of degree below k, its error polynomial vanishes   *)
(* at exactly the points that contradict it, and these are at most         *)
(* (n - k + 1) / 2: for n - k odd it may return one of several polynomials *)
(* that are equally far, which the caller has to refuse.                   *)
(* (Of fewer than k values nothing is said.)                               *)
(***************************************************************************)
GaoPromise(c, v) ==
    LET p     == c.modulus.v
        at    == {i \in DOMAIN c.x : c.y[i].t # "none"}
        wrong(f) == {i \in at : PolyEval(f, c.x[i].v, p) # c.y[i].v % p}
        near  == {f \in [1 .. c.k -> 0 .. p - 1] : 2 * Cardinality(wrong(f)) <= Cardinality(at) - c.k}
    IN  Cardinality(at) >= c.k =>
            /\ near # {} => v # <<>> /\ near = {v[1]}
            /\ v # <<>> =>
                  /\ Len(v[1]) = c.k
                  /\ 2 * Cardinality(wrong(v[1])) <= Cardinality(at) - c.k + 1
                  /\ Deg(v[2]) = Cardinality(wrong(v[1]))
                  /\ \A i \in at : PolyEval(v[2], c.x[i].v, p) = 0 <=> i \in wrong(v[1])

GaoExact ==
    Answered({"gao_interpolate"}) /\ result.kind = "value" /\ Converts(call) =>
        GaoPromise(call, result.v)

(***************************************************************************)
(* While a thread transforms an item the reference it has looked up leads  *)
(* to an entry of the cache, and to the matrix of its root modulo the      *)
(* modulus of the region: no other thread has dropped or replaced it.      *)
(***************************************************************************)
MatrixLive ==
    region # None /\ call.n >= FFT_VAN_THRESHOLD =>
        \A t \in DOMAIN region.pc : region.pc[t] = "item" =>
            LET key == VmKey(RegionRoot(t), call.n, region.p)
            IN  /\ modulus[t] = region.p /\ cache.modulus = region.p
                /\ key \in DOMAIN cache.matrices
                /\ cache.matrices[key] = FftVmMatrix(key[2], key[1], region.p)

(***************************************************************************)
(* HistoryFree: a call that uses the cache or a parallel region gives what *)
(* it gives as the first call of a process, one item after the other: the  *)
(* calls before it, their moduli and roots, the number of threads and how  *)
(* they interleave do not show.                                            *)
(***************************************************************************)
FirstCache(c) ==
    LET p     == IntToZZ(c.modulus)
        omega == IntToZZp(c.omega, p)
    IN  CASE c.fn \in {"fft", "partial_fft", "fft_batch_evaluate"} -> FftLookup(NoCache, omega, c.n, p)
          [] c.fn \in {"fft_interpolate", "fft_batch_interpolate"} -> FntDecodeCache(NoCache, omega, c.n, p)
          [] c.fn = "gao_interpolate" -> FntDecodeCache(NoCache, omega, c.order, p)

FirstOutcome(c) ==
    LET p     == IntToZZ(c.modulus)
        omega == IntToZZp(c.omega, p)
        m     == FirstCache(c)
        step1 == DecodeStep1(c.zs, omega, c.n, VmOf(m, omega, c.n, p), p)
    IN  CASE c.fn = "fft" -> FftOutcome(c, c.n, m)
          [] c.fn = "partial_fft" -> FftOutcome(c, c.k, m)
          [] c.fn = "fft_interpolate" -> InterpolateOutcome(c, m)
          [] c.fn = "gao_interpolate" -> GaoOutcome(GaoByOmega(c, m, p))
          [] c.fn = "fft_batch_evaluate" ->
                Value([i \in DOMAIN c.coeffs |->
                    ToInts(Transformed(c, BatchCoeffs(c, p)[i], omega, None, VmOf(m, omega, c.n, p), p))])
          [] c.fn = "fft_batch_interpolate" ->
                Value([i \in DOMAIN c.ys_list |->
                    ToInts(Transformed(c, BatchValues(c, p)[i], omega, step1,
                                       VmOf(m, Inv(omega, p), c.n, p), p))])

CachedFns == {"fft", "partial_fft", "fft_interpolate", "fft_batch_evaluate", "fft_batch_interpolate"}

HistoryFree ==
    /\ result # None /\ result.kind = "value"
    /\ call.fn \in CachedFns \/ (call.fn = "gao_interpolate" /\ call.use_omega_powers)
    => result = FirstOutcome(call)
=============================================================================
