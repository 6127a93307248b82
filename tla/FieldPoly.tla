----------------------------- MODULE FieldPoly -----------------------------
(***************************************************************************)
(* Arithmetic modulo a prime p, and what the NTL library does with vectors,*)
(* matrices and polynomials over that field (ZZ_p, vec_ZZ_p, mat_ZZ_p,     *)
(* ZZ_pX).  The library is not part of the repository: these operators are *)
(* what the code of ntl/ uses of it.                                       *)
(*                                                                         *)
(* Vectors are sequences; a polynomial is the sequence of its coefficients,*)
(* lowest first, with no zero at the end, so that the zero polynomial is   *)
(* the empty sequence and Deg is one less than the length.                 *)
(***************************************************************************)
EXTENDS Integers, SequencesExt

\* The vector f itself; appending nothing makes TLC compute each element once.
Vec(f) == f \o <<>>

Pow(a, e, p) ==
    LET P[n \in 0 .. e] ==
            IF n = 0 THEN 1 % p
            ELSE LET h == P[n \div 2]
                 IN  (IF n % 2 = 0 THEN h * h ELSE (h * h % p) * a) % p
    IN  P[e]

\* By Fermat's little theorem; Inv(0, p) is no inverse and never used as one.
Inv(a, p) == Pow(a, p - 2, p)

SumUp(s, p) ==
    LET Sum[n \in 0 .. Len(s)] == IF n = 0 THEN 0 ELSE (Sum[n - 1] + s[n]) % p
    IN  Sum[Len(s)]

Dot(u, v, p) == SumUp([i \in DOMAIN u |-> u[i] * v[i] % p], p)

----------------------------------------------------------------------------
(* mat_ZZ_p: a sequence of rows. *)
MulVec(M, v, p) == Vec([i \in DOMAIN M |-> Dot(M[i], v, p)])
Column(M, j)    == [i \in DOMAIN M |-> M[i][j]]
MulMat(M, B, cols, p) ==
    Vec([i \in DOMAIN M |-> Vec([j \in 1 .. cols |-> Dot(M[i], Column(B, j), p)])])

----------------------------------------------------------------------------
(* ZZ_pX *)
Trim(f) == SubSeq(f, 1, SelectLastInSeq(f, LAMBDA c : c # 0))
Coeff(f, i) == IF 0 <= i /\ i < Len(f) THEN f[i + 1] ELSE 0
Deg(f) == Len(f) - 1

\* The first n coefficients (VectorCopy).
Coeffs(f, n) == Vec([i \in 1 .. n |-> Coeff(f, i - 1)])

\* Horner's rule.
PolyEval(f, x, p) ==
    LET Eval[n \in 0 .. Len(f)] ==
            IF n = 0 THEN 0 ELSE (f[Len(f) + 1 - n] + x * Eval[n - 1]) % p
    IN  Eval[Len(f)]

PolySub(f, g, p) ==
    Trim([i \in 1 .. Max({Len(f), Len(g)}) |-> (Coeff(f, i - 1) - Coeff(g, i - 1)) % p])

PolyMul(f, g, p) ==
    IF f = <<>> \/ g = <<>> THEN <<>>
    ELSE Trim([i \in 1 .. Len(f) + Len(g) - 1 |->
                  SumUp([j \in 1 .. Len(f) |-> f[j] * Coeff(g, i - j) % p], p)])

\* Quotient and remainder, for g # <<>>.
DivRem(f, g, p) ==
    LET Divided[h \in Seq(Int)] ==
            IF Len(h) < Len(g) THEN [q |-> <<>>, r |-> h]
            ELSE LET c    == Coeff(h, Deg(h)) * Inv(Coeff(g, Deg(g)), p) % p
                     lead == [i \in 1 .. Len(h) - Len(g) + 1 |->
                                IF i = Len(h) - Len(g) + 1 THEN c ELSE 0]
                     rest == Divided[PolySub(h, PolyMul(lead, g, p), p)]
                 IN  [q |-> Vec([i \in DOMAIN lead |-> IF i = Len(lead) THEN c ELSE Coeff(rest.q, i - 1)]),
                      r |-> rest.r]
    IN  Divided[f]

BuildFromRoots(xs, p) ==
    LET Product[n \in 0 .. Len(xs)] ==
            IF n = 0 THEN <<1 % p>> ELSE PolyMul(<<(-xs[n]) % p, 1>>, Product[n - 1], p)
    IN  Product[Len(xs)]

Distinct(xs) == \A i, j \in DOMAIN xs : xs[i] = xs[j] => i = j

\* The polynomial that is 1 at xs[j] and 0 at the other points.
Basis(xs, j, p) ==
    LET others == [i \in 1 .. Len(xs) - 1 |-> IF i < j THEN xs[i] ELSE xs[i + 1]]
        f      == BuildFromRoots(others, p)
        c      == Inv(PolyEval(f, xs[j], p), p)
    IN  Vec([i \in DOMAIN f |-> f[i] * c % p])

\* Row i holds the coefficients of x^(i-1) of the basis polynomials: the inverse
\* of the Vandermonde matrix of the points xs, which must be distinct.
VandermondeInv(xs, p) ==
    LET basis == Vec([j \in DOMAIN xs |-> Basis(xs, j, p)])
    IN  Vec([i \in DOMAIN xs |-> Vec([j \in DOMAIN xs |-> Coeff(basis[j], i - 1)])])

\* The polynomial of least degree through the points (xs[i], ys[i]).
Interpolation(xs, ys, p) == Trim(MulVec(VandermondeInv(xs, p), ys, p))
=============================================================================
