--------------------------- MODULE MCNativeCalls ---------------------------
(***************************************************************************)
(* Calls from one Python process with three fields.  17 and 1489 have the  *)
(* root of unity 15 of order 8 in common, so that a cached matrix of one   *)
(* field could be taken for one of the other; numbers modulo 1489 take two *)
(* bytes.  The threshold of the transform is 8 (16 in the code): the       *)
(* orders 4, 8 and 16 are below, at and above it.                          *)
(***************************************************************************)
EXTENDS NativeCalls, FiniteSets

Ints(s)  == [i \in DOMAIN s |-> Int_(s[i])]
IntsAll(ss) == [i \in DOMAIN ss |-> Ints(ss[i])]

\* Of order 4, 8 and 16.
Root == (17 :> (4 :> 4 @@ 8 :> 15 @@ 16 :> 7)) @@ (1489 :> (4 :> 225 @@ 8 :> 15 @@ 16 :> 656))

Fields == {17, 1489}

CFft(p, n, cs) == [fn |-> "fft", coeffs |-> Ints(cs), omega |-> Int_(Root[p][n]), modulus |-> Int_(p), n |-> n]
CPart(p, n, k, cs) == [fn |-> "partial_fft", coeffs |-> Ints(cs), omega |-> Int_(Root[p][n]),
                       modulus |-> Int_(p), n |-> n, k |-> k]
CBatchEval(p, n, k, css) == [fn |-> "fft_batch_evaluate", coeffs |-> IntsAll(css), omega |-> Int_(Root[p][n]),
                             modulus |-> Int_(p), n |-> n, k |-> k]
CInterp(p, n, zs, ys) == [fn |-> "fft_interpolate", zs |-> zs, ys |-> Ints(ys),
                          omega |-> Int_(Root[p][n]), modulus |-> Int_(p), n |-> n]
CBatchInterp(p, n, zs, yss) == [fn |-> "fft_batch_interpolate", zs |-> zs, ys_list |-> IntsAll(yss),
                                omega |-> Int_(Root[p][n]), modulus |-> Int_(p), n |-> n]

FftCalls ==
    UNION {{CFft(p, 4, <<5, 16>>), CFft(p, 8, <<1, 2, 3>>), CFft(p, 16, <<3, 0, 1, 9, 2>>),
            CFft(p, 4, <<1, 2, 3, 4, 5>>),
            CPart(p, 8, 3, <<2, 7>>), CPart(p, 16, 11, <<1, 16, 4>>), CPart(p, 4, 3, <<6, 1>>),
            CInterp(p, 8, <<6, 0, 3>>, <<1, 16, 5>>), CInterp(p, 4, <<0, 1, 2, 3>>, <<9, 9, 1, 3>>),
            CInterp(p, 16, <<15, 8, 7, 1>>, <<11, 2, 0, 4>>),
            CBatchEval(p, 8, 5, <<<<1, 2>>, <<0, 3>>, <<4, 4>>>>),
            CBatchInterp(p, 8, <<2, 5>>, <<<<1, 2>>, <<0, 3>>, <<4, 4>>>>)} : p \in Fields}
    \cup {CInterp(17, 8, <<1, 1>>, <<2, 3>>),
          CBatchEval(17, 4, 3, <<<<1>>, <<2, 5>>>>), CBatchEval(17, 8, 3, <<<<1, 2>>, <<3>>>>),
          CBatchInterp(17, 4, <<3, 0, 1, 2>>, <<<<1, 2, 3, 4>>>>)}

VandermondeCalls ==
    UNION {{[fn |-> "lagrange_interpolate", x |-> <<Int_(3), Str_(1), Int_(0)>>,
              y |-> <<Int_(16), Int_(2), Str_(0)>>, modulus |-> Int_(p)],
            [fn |-> "evaluate", polynomial |-> Ints(<<1, 0, 16, 3>>), x |-> Int_(p - 2), modulus |-> Str_(p)],
            [fn |-> "vandermonde_inverse", x |-> Ints(<<4, 1, 9>>), modulus |-> Int_(p)],
            [fn |-> "vandermonde_batch_interpolate", x |-> Ints(<<1, 2, 3>>),
              data_list |-> IntsAll(<<<<5, 6, 7>>, <<1, 16>>>>), modulus |-> Int_(p)],
            [fn |-> "vandermonde_batch_evaluate", x |-> Ints(<<1, 2, 3, 4>>),
              polynomials |-> IntsAll(<<<<5, 6>>, <<16>>, <<1, 2, 3>>>>), modulus |-> Int_(p)]} : p \in Fields}
    \cup {[fn |-> "lagrange_interpolate", x |-> Ints(<<1, 18>>), y |-> Ints(<<2, 3>>), modulus |-> Int_(17)],
          [fn |-> "lagrange_interpolate", x |-> Ints(<<1>>), y |-> Ints(<<2, 3>>), modulus |-> Int_(17)],
          [fn |-> "lagrange_interpolate", x |-> Ints(<<1, 2>>), y |-> <<Int_(-4), None_>>, modulus |-> Int_(17)],
          [fn |-> "evaluate", polynomial |-> Ints(<<3, -1>>), x |-> Int_(2), modulus |-> Int_(17)],
          [fn |-> "vandermonde_inverse", x |-> Ints(<<2, 19>>), modulus |-> Int_(17)],
          [fn |-> "vandermonde_batch_interpolate", x |-> Ints(<<2, 19>>),
              data_list |-> IntsAll(<<<<5, 6>>>>), modulus |-> Int_(17)],
          [fn |-> "vandermonde_batch_interpolate", x |-> Ints(<<1, 2, 3>>),
              data_list |-> IntsAll(<<<<5, 6>>>>), modulus |-> Int_(17)],
          [fn |-> "vandermonde_batch_evaluate", x |-> Ints(<<1>>), polynomials |-> <<>>, modulus |-> Int_(17)]}

(* Gao's decoder: words with errors and a missing value, at the points     *)
(* 1 .. 6 modulo 7 and at the powers of 15 modulo 17.                      *)
Powers17 == [i \in 1 .. 8 |-> Pow(15, i - 1, 17)]
Received(xs, k, p, bad, missing) ==
    [i \in DOMAIN xs |->
        LET good == IF k = 1 THEN 6 ELSE (3 + 5 * xs[i]) % p
        IN  IF i \in missing THEN None_ ELSE Int_(IF i \in bad THEN (good + 2 * i + 1) % p ELSE good)]
Gao(xs, y, k, p) ==
    [fn |-> "gao_interpolate", x |-> Ints(xs), y |-> y, k |-> k, modulus |-> Int_(p),
     z |-> IF p = 17 THEN [i \in DOMAIN xs |-> i - 1] ELSE None,
     omega |-> IF p = 17 THEN Int_(15) ELSE None, order |-> 8, use_omega_powers |-> p = 17]
Six == <<1, 2, 3, 4, 5, 6>>
GaoCalls ==
    {Gao(Six, Received(Six, k, 7, bad, missing), k, 7) :
        k \in {1, 2}, bad \in {{}, {2, 5}, {1, 4, 6}}, missing \in {{}, {3}}}
    \cup {Gao(Powers17, Received(Powers17, 1, 17, bad, {3}), 1, 17) : bad \in {{1, 4, 6}, {1, 2, 4, 6}}}
    \cup {Gao(Powers17, Received(Powers17, 2, 17, {2, 7}, {3}), 2, 17)}
    \cup {[Gao(Powers17, Received(Powers17, 1, 17, {1, 4}, {8}), 1, 17) EXCEPT !.z = [i \in 1 .. n |-> i - 1]]
              : n \in {6, 7, 9}}
    \cup {[Gao(<<1, 2, 3>>, Ints(<<4, 5, 6>>), 2, 7) EXCEPT !.use_omega_powers = TRUE],
          Gao(<<1, 2, 3>>, Ints(<<4, 5>>), 1, 7), Gao(<<1>>, Ints(<<4>>), 2, 7), Gao(<<1>>, Ints(<<4>>), 3, 7)}

OtherCalls ==
    {[fn |-> "sqrt_mod", a |-> Int_(a), modulus |-> Int_(p)] : a \in {9, 16}, p \in Fields}
    \cup {[fn |-> "SetNTLNumThreads", n |-> 1]}
    \cup {[fn |-> "SetNumThreads", n |-> n] : n \in Threads}
    \cup {[fn |-> "AvailableNTLThreads"], [fn |-> "GetMaxThreads"]}

(* Pairs and triples of sums modulo 5 and 7, and inputs that are refused. *)
CSolve(p, s) == [fn |-> "solve", prime |-> p, sums |-> s, buffers |-> [i \in DOMAIN s |-> 0]]
SolveCalls ==
    {CSolve(5, <<a, b>>) : a \in {0, 3}, b \in 0 .. 4}
    \cup {CSolve(7, <<3, b, c>>) : b \in {1, 3}, c \in {0, 1, 6}}
    \cup {CSolve(5, <<1>>), CSolve(2, <<1, 0>>), CSolve(7, <<1, 2, 3, 4, 5>>),
          CSolve(Garbage, <<1, 2>>), CSolve(5, <<1, Garbage>>),
          [CSolve(5, <<1, 2>>) EXCEPT !.buffers = <<0, Garbage>>]}

AllCalls == FftCalls \cup VandermondeCalls \cup GaoCalls \cup OtherCalls \cup SolveCalls
=============================================================================
