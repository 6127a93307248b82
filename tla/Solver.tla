------------------------------- MODULE Solver -------------------------------
(***************************************************************************)
(* The equation solver of AsynchroMix (solver/solver.cpp and the wrapper   *)
(* solver/solver.py): from the power sums s[1] .. s[n] of n unknown field  *)
(* elements to the elements, by Newton's identities and the factors of the *)
(* polynomial that has them as roots.                                      *)
(***************************************************************************)
EXTENDS FieldPoly

CONSTANTS
    MaxSums,   \* the most sums that are accepted; 4097 in the code
    Garbage    \* a string that is no hexadecimal number, or a NULL buffer

RET_INVALID     == 1
RET_INPUT_ERROR == 101

\* mutant: the signs of Newton's identities are lost
NewtonPositive(s, p) ==
    LET c[i \in 1 .. Len(s)] ==
            LET sum == SumUp(<<s[i]>> \o [k \in 1 .. i - 1 |-> c[k] * s[i - k] % p], p)
            IN  sum * Inv(i % p, p) % p
    IN  [i \in DOMAIN s |-> c[i]]

\* coeff[i] for i = 0 .. n - 1 in the code, coeff[i + 1] here.
Newton(s, p) ==
    LET c[i \in 1 .. Len(s)] ==
            LET sum == SumUp(<<s[i]>> \o [k \in 1 .. i - 1 |-> c[k] * s[i - k] % p], p)
            IN  sum * Inv((-i) % p, p) % p
    IN  [i \in DOMAIN s |-> c[i]]

\* The monic polynomial of degree n; coeff[i] belongs to x^(n - i - 1).
NewtonPoly(s, p) ==
    LET n == Len(s) c == Newton(s, p)
    IN  [i \in 1 .. n + 1 |-> IF i = n + 1 THEN 1 ELSE c[n + 1 - i]]

\* How often x - r divides f: the exponent of that factor (flint's factorization).
Multiplicity(f, r, p) ==
    LET Often[h \in Seq(Int)] ==
            IF Deg(h) < 1 \/ PolyEval(h, r, p) # 0 THEN 0
            ELSE 1 + Often[DivRem(h, <<(-r) % p, 1>>, p).q]
    IN  Often[f]

\* The roots in ascending order, each as often as its factor; fewer than the
\* degree if some factor is not linear.
Roots(f, p) ==
    LET Below[r \in 0 .. p] ==
            IF r = 0 THEN <<>>
            ELSE Below[r - 1] \o [i \in 1 .. Multiplicity(f, r - 1, p) |-> r - 1]
    IN  Below[p]

InputError(s, p) == Len(s) < 2 \/ Len(s) > MaxSums \/ p <= Len(s)

SolveImpl(s, p) ==
    IF InputError(s, p) THEN [ret |-> RET_INPUT_ERROR]
    ELSE LET roots == Roots(NewtonPoly(s, p), p)
         IN  IF Len(roots) # Len(s) THEN [ret |-> RET_INVALID]
             ELSE [ret |-> 0, messages |-> roots]

\* solve() of the library: strings and buffers are checked before anything else.
SolveStrings(prime, s, buffers) ==
    IF \/ prime = Garbage
       \/ \E i \in DOMAIN s : s[i] = Garbage
       \/ \E i \in DOMAIN s : buffers[i] = Garbage
    THEN [ret |-> RET_INPUT_ERROR]
    ELSE SolveImpl([i \in DOMAIN s |-> s[i] % prime], prime)

\* solve() of solver.py: a list, None (here "none"), or an exception.
SolvePython(s, p) ==
    LET r == SolveStrings(p, s, s)
    IN  CASE r.ret = 0           -> [kind |-> "list", messages |-> r.messages]
          [] r.ret = RET_INVALID -> [kind |-> "none"]
          [] OTHER               -> [kind |-> "ValueError"]

----------------------------------------------------------------------------
PowerSum(ms, i, p) == SumUp([j \in DOMAIN ms |-> Pow(ms[j], i, p)], p)

\* Every ascending vector that has these power sums.
Solutions(s, p) ==
    {ms \in [DOMAIN s -> 0 .. p - 1] :
        /\ \A i \in 1 .. Len(s) - 1 : ms[i] <= ms[i + 1]
        /\ \A i \in DOMAIN s : PowerSum(ms, i, p) = s[i] % p}
=============================================================================
