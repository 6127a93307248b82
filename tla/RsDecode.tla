------------------------------ MODULE RsDecode ------------------------------
(***************************************************************************)
(* The algorithms of ntl/rsdecode_impl.h: Vandermonde matrices, the fast   *)
(* Fourier transform with its cache of matrices, interpolation at powers   *)
(* of a root of unity, and Gao's decoder.                                  *)
(*                                                                         *)
(* What the code takes from the global state, the modulus of the calling   *)
(* thread and the cached matrices, is an argument here: p and c.           *)
(***************************************************************************)
EXTENDS FieldPoly

CONSTANTS
    FFT_VAN_THRESHOLD,  \* from this size on the transform uses a matrix
    NoMatrix

ASSUME ThresholdAssumption == FFT_VAN_THRESHOLD \in Nat \ {0, 1}

VmMatrix(xs, d, p) == Vec([i \in DOMAIN xs |-> Vec([j \in 1 .. d |-> Pow(xs[i], j - 1, p)])])

FftVmMatrix(omega, n, p) == VmMatrix(Vec([i \in 1 .. n |-> Pow(omega, i - 1, p)]), n, p)

(***************************************************************************)
(* The cache: the modulus of its matrices, and the matrices by size and    *)
(* root.  GetMatrix is the cache after a lookup under the modulus p; the   *)
(* code does it under a mutex and returns a reference to the entry.        *)
(***************************************************************************)
NoCache == [modulus |-> 0, matrices |-> <<>>]

\* An entry that is there is not computed again.
WithMatrix(matrices, omega, n, p) ==
    [key \in DOMAIN matrices \cup {<<n, omega>>} |->
        IF key \in DOMAIN matrices THEN matrices[key] ELSE FftVmMatrix(omega, n, p)]

\* mutant: matrices of the previous modulus are kept
GetMatrixStale(c, omega, n, p) ==
    [modulus  |-> p,
     matrices |-> WithMatrix(c.matrices, omega, n, p)]

GetMatrix(c, omega, n, p) ==
    LET kept == IF p # c.modulus THEN <<>> ELSE c.matrices
    IN  [modulus  |-> p,
         matrices |-> WithMatrix(kept, omega, n, p)]

\* The entry of the cache that a transform of size n at omega uses.
VmKey(omega, n, p) == <<FFT_VAN_THRESHOLD, Pow(omega, n \div FFT_VAN_THRESHOLD, p)>>

FftLookup(c, omega, n, p) ==
    IF n >= FFT_VAN_THRESHOLD THEN GetMatrix(c, VmKey(omega, n, p)[2], FFT_VAN_THRESHOLD, p) ELSE c

VmOf(c, omega, n, p) ==
    IF n >= FFT_VAN_THRESHOLD THEN c.matrices[VmKey(omega, n, p)] ELSE NoMatrix

----------------------------------------------------------------------------
Interpolate(xs, ys, p) == Interpolation(xs, ys, p)

\* The inverse of the Vandermonde matrix and whether there is one.
VandermondeInverse(xs, p) ==
    IF Distinct(xs) THEN [ok |-> TRUE,  inverse |-> VandermondeInv(xs, p)]
                    ELSE [ok |-> FALSE, inverse |-> <<>>]

----------------------------------------------------------------------------
(* The radix-2 transform of a, of which the first m values are wanted. *)
Butterfly(coeffs, root, size, m, vm, p) ==
    LET Transform[a \in Seq(Nat), omega \in Nat, n \in Nat] ==
            IF n = 1 THEN a
            ELSE IF vm # NoMatrix /\ n = FFT_VAN_THRESHOLD THEN MulVec(vm, a, p)
            ELSE LET h  == n \div 2
                     a0 == Transform[Vec([k \in 1 .. h |-> a[2 * k - 1]]), omega * omega % p, h]
                     a1 == Transform[Vec([k \in 1 .. h |-> a[2 * k]]),     omega * omega % p, h]
                     t  == Vec([k \in 1 .. h |-> Pow(omega, k - 1, p) * a1[k] % p])
                 IN  Vec([k \in 1 .. n |->
                             IF k > m THEN a[k]
                             ELSE IF k <= h THEN (a0[k] + t[k]) % p
                             ELSE (a0[k - h] - t[k - h]) % p])
    IN  Transform[coeffs, root, size]

\* The values at omega^0 .. omega^(m-1) of the polynomial with these coefficients,
\* of which those from n on are dropped; vm is the matrix looked up before.
Fft(coeffs, omega, n, m, vm, p) ==
    SubSeq(Butterfly(Coeffs(coeffs, n), omega, n, m, vm, p), 1, m)

----------------------------------------------------------------------------
(***************************************************************************)
(* Interpolation at the points omega^z, z in zs, for n the order of omega: *)
(* step 1 depends on the points only and is done once for a batch.  It     *)
(* fails (ok = FALSE, NTL ends the process) when a point occurs twice.     *)
(***************************************************************************)
DecodeStep1(zs, omega, n, vm, p) ==
    LET A     == BuildFromRoots(Vec([i \in DOMAIN zs |-> Pow(omega, zs[i], p)]), p)
        deriv == Vec([i \in 1 .. Deg(A) |-> i * Coeff(A, i) % p])
        evals == Fft(deriv, omega, n, n, vm, p)
        Ad    == [i \in DOMAIN zs |-> evals[zs[i] + 1]]
    IN  [ok |-> \A i \in DOMAIN zs : Ad[i] # 0,
         A  |-> A,
         Ad |-> Vec([i \in DOMAIN zs |-> Inv(Ad[i], p)])]

\* How many values of the transform of N step 2 asks for.
Step2Evals(zs, n) == IF Len(zs) < n THEN Len(zs) + 1 ELSE n

DecodeStep2(step1, zs, ys, omega, n, vm, p) ==
    LET k  == Len(zs)
        N  == [i \in 1 .. n |->
                  IF \E j \in DOMAIN zs : zs[j] = i - 1
                  THEN LET j == CHOOSE j \in DOMAIN zs : zs[j] = i - 1
                       IN  ys[j] * step1.Ad[j] % p
                  ELSE 0]
        ev == Fft(N, Inv(omega, p), n, Step2Evals(zs, n), vm, p)
        Q  == [i \in 1 .. k |-> (-ev[(i % n) + 1]) % p]
    IN  Coeffs(PolyMul(Trim(Q), step1.A, p), k)

\* Both steps, with the matrices of the cache c; step 2 uses the inverse root.
FntDecodeCache(c, omega, n, p) == FftLookup(FftLookup(c, omega, n, p), Inv(omega, p), n, p)
FntDecode(zs, ys, omega, n, c, p) ==
    LET step1 == DecodeStep1(zs, omega, n, VmOf(c, omega, n, p), p)
    IN  [ok |-> step1.ok,
         poly |-> Trim(DecodeStep2(step1, zs, ys, omega, n, VmOf(c, Inv(omega, p), n, p), p))]

----------------------------------------------------------------------------
(* Euclid's algorithm on r0, r1, stopped at the first remainder below the  *)
(* threshold; t0, t1 are the cofactors of r1.  (The other cofactors, s and *)
(* u in the code, are not used by anyone.)                                 *)
PartialGcdLoop(p0, p1, threshold, p) ==
    LET Loop[r0 \in Seq(Nat), r1 \in Seq(Nat), t0 \in Seq(Nat), t1 \in Seq(Nat)] ==
            LET d  == DivRem(r0, r1, p)
                t2 == PolySub(t0, PolyMul(d.q, t1, p), p)
            IN  IF Deg(d.r) < threshold THEN [r |-> d.r, v |-> t2]
                ELSE Loop[r1, d.r, t1, t2]
    IN  Loop[p0, p1, <<>>, <<1>>]

PartialGcd(p0, p1, threshold, p) ==
    IF Deg(p0) < threshold      THEN [r |-> p0, v |-> <<>>]
    ELSE IF Deg(p1) < threshold THEN [r |-> p1, v |-> <<1>>]
    ELSE PartialGcdLoop(p0, p1, threshold, p)

\* mutant: Euclid's algorithm stops one degree too late
GcdThresholdLow(n, k) == ((n + k) \div 2) - 1

GcdThreshold(n, k) == (n + k) \div 2

GaoAccepts(f1, k) == f1.r = <<>> /\ Deg(f1.q) < k

\* What is left to do once the received values have been interpolated by g1: the
\* k coefficients and the error polynomial, or no success.  status is "abort" when
\* the division has a zero divisor, at which NTL ends the process.
GaoDecode(xs, g1, k, n, p) ==
    LET gcd == PartialGcd(BuildFromRoots(xs, p), g1, GcdThreshold(n, k), p)
        f1  == DivRem(gcd.r, gcd.v, p)
    IN  IF gcd.v = <<>> THEN [status |-> "abort"]
        ELSE IF ~GaoAccepts(f1, k) THEN [status |-> "failed"]
        ELSE [status |-> "decoded", coeffs |-> Coeffs(f1.q, k), errors |-> gcd.v]

GaoInterpolate(xs, ys, k, n, p) ==
    IF Distinct(xs) THEN GaoDecode(xs, Interpolate(xs, ys, p), k, n, p)
                    ELSE [status |-> "abort"]

GaoInterpolateFft(xs, zs, ys, omega, k, n, order, c, p) ==
    LET g1 == FntDecode(zs, ys, omega, order, c, p)
    IN  IF g1.ok THEN GaoDecode(xs, g1.poly, k, n, p) ELSE [status |-> "abort"]
=============================================================================
