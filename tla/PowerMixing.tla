---------------------------- MODULE PowerMixing ----------------------------
(***************************************************************************)
(* AsynchroMix by power sums (powermixing.py): K secret messages are mixed *)
(* by N nodes.  Phase 1 opens a - b for each message a and a random b with *)
(* shared powers; phase 2 computes at each node shares of the powers of a  *)
(* and adds them up in a file (PowerSums); phase 3 opens the sums          *)
(* (BatchReconstruction), and each node solves for the messages (Solver).  *)
(*                                                                         *)
(* The phases do not overlap, as in async_mixing.  Opening a - b is a      *)
(* service here: it is the protocol of phase 3 once more.                  *)
(***************************************************************************)
EXTENDS PowerSums, BatchReconstruction, Solver

CONSTANTS
    Modulus,
    Batches,   \* the inputs: a[i] and b[i] for each of the K messages
    FaultySets,\* sets of parties that may be faulty together
    Orderly    \* bound: parties that take messages in the order of their senders,
               \* as far as they are there; the others take them in any order

VARIABLES
    batch,     \* the input
    mixed      \* mixed[p]: what solve returns at p, or None

vars == <<filesVars, openVars, batch, mixed>>

\* The evaluation point of a party; parties are numbered from 0.
Point(p) == p + 1

\* One job for each node and message, one file for each node; the chunks hold all sums.
ASSUME NodesAssumption ==
    /\ Proc = 0 .. N - 1 /\ File = Proc
    /\ Job = Proc \X Lines /\ \A q \in Job : FileOf[q] = q[1]
    /\ Chunks * (Degree + 1) >= K
ASSUME InputAssumption ==
    /\ Modulus \in Nat \ {0, 1} /\ Value = 0 .. Modulus - 1
    /\ Batches \subseteq [a : [Lines -> Value], b : [Lines -> Value]]
    /\ \A fs \in FaultySets : /\ fs \subseteq Proc
                             /\ Cardinality(fs \cup {FileOf[q] : q \in MayFail}) <= T

----------------------------------------------------------------------------
\* The share of p of the secret v: a polynomial of degree T with v at zero, whose
\* other coefficients are r.
ShareOf(v, r, p) == PolyEval([j \in 1 .. T + 1 |-> IF j = 1 THEN v ELSE r % Modulus], Point(p), Modulus)

\* The shares of the input x in the file of job <<p, i>>, and a - b as phase 1 has
\* opened it.
ShareOfA(x, p, i)     == ShareOf(x.a[i], 2 * i + 1, p)
ShareOfB(x, p, i, m)  == ShareOf(Pow(x.b[i], m, Modulus), i + m, p)
OpenedAMinusB(x, i)   == (x.a[i] - x.b[i]) % Modulus

\* mutant: the power of b is left out of the diagonal
ComputePowersBare(a, bs, aMinusB) ==
    LET Diag[m \in 0 .. Len(bs)] ==
            IF m = 0 THEN <<1>>
            ELSE [i \in 1 .. m + 1 |-> aMinusB * SumUp(SubSeq(Diag[m - 1], 1, i - 1), Modulus) % Modulus]
    IN  [m \in DOMAIN bs |-> Diag[m][m + 1]]

\* computePowers: from a, a - b and the powers bs of b the powers of a.  The element
\* i + 1 of the m-th diagonal stands for a^i * b^(m - i).
ComputePowers(a, bs, aMinusB) ==
    LET Diag[m \in 0 .. Len(bs)] ==
            IF m = 0 THEN <<1>>
            ELSE Vec([i \in 1 .. m + 1 |->
                    (aMinusB * SumUp(SubSeq(Diag[m - 1], 1, i - 1), Modulus) + bs[m]) % Modulus])
    IN  [m \in DOMAIN bs |-> Diag[m][m + 1]]

Powers(x, p, i) ==
    ComputePowers(ShareOfA(x, p, i), Vec([m \in Lines |-> ShareOfB(x, p, i, m)]), OpenedAMinusB(x, i))

\* The shares that p reads when its jobs have gone into its file as often as count says.
SumShares(x, p, count) ==
    Vec([m \in Lines |->
            SumUp([i \in 1 .. K |-> Times(count[m], <<p, i>>) * Powers(x, p, i)[m] % Modulus], Modulus)])

----------------------------------------------------------------------------
\* chunk_data and the encoder: the values at the point of r of the polynomials whose
\* coefficients are Degree + 1 shares each, the last ones filled up with zeros.
Encode(shares, r) ==
    [b \in Chunk |->
        PolyEval([j \in 1 .. Degree + 1 |-> Coeff(shares, (b - 1) * (Degree + 1) + j - 1)],
                 Point(r), Modulus)]

\* The other way: the coefficients of the polynomials of these words, and of them the
\* first K.
CoeffsOf(c) ==
    LET xs == [j \in 1 .. Degree + 1 |-> j]
    IN  Coeffs(Interpolation(xs, [j \in DOMAIN xs |-> c[j - 1]], Modulus), Degree + 1)

Flatten(w) ==
    LET coeffs == [b \in Chunk |-> CoeffsOf(w[b])]
    IN  [m \in Lines |-> coeffs[((m - 1) \div (Degree + 1)) + 1][((m - 1) % (Degree + 1)) + 1]]

\* The code is that of the polynomials of this degree, and interpolation finds them.
Polynomials == [1 .. Degree + 1 -> Value]
WordOf(f)   == [q \in Proc |-> PolyEval(f, Point(q), Modulus)]
ASSUME PolynomialAssumption ==
    /\ Code = {WordOf(f) : f \in Polynomials}
    /\ \A f \in Polynomials : /\ AtZero[WordOf(f)] = f[1]
                             /\ CoeffsOf(WordOf(f)) = f

Once(p) == [m \in Lines |-> SumOf({q \in Job : FileOf[q] = p})]

\* The words of the shares that all jobs give.
RightWords(x) ==
    LET sent == [q \in Proc |-> SumShares(x, q, Once(q))]
        r1 == [p \in Proc |-> [b \in Chunk |-> [q \in Proc |-> Encode(sent[q], p)[b]]]]
    IN  [r1 |-> r1, r2 |-> [b \in Chunk |-> [p \in Proc |-> AtZero[r1[p][b]]]]]

----------------------------------------------------------------------------
Init == /\ FilesInit
        /\ OpenStart
        /\ batch \in Batches
        /\ faulty \in FaultySets
        /\ misled = {}
        /\ words = RightWords(batch)
        /\ mixed = [p \in Proc |-> None]

\* Phase 2.  A node one of whose processes fails goes on with sums that lack its powers.
Phase2 == /\ \E q \in {q \in Job : ~Ended(q)} :
                \/ /\ StartJob(q) \/ AcquireLock(q) \/ OpenSums(q) \/ WriteLine(q) \/ CloseSums(q)
                   /\ UNCHANGED misled
                \/ FailToLock(q) /\ misled' = misled \cup {FileOf[q]}
          /\ UNCHANGED <<stage, first, second, dec, opened, faulty, words, batch, mixed>>

\* Phase 3 starts when the pool is closed.  Without a file phase3 raises.
OpenSumShares(p) ==
    /\ stage[p] = "idle" /\ AllEnded /\ file[p].exists
    /\ \E shares \in {SumShares(batch, p, file[p].sums)} : Begin(p, [r \in Proc |-> Encode(shares, r)])

Phase3(p) == OpenSumShares(p) /\ UNCHANGED <<filesVars, batch, mixed>>

InTurn(p, q) == p \in Orderly => \A r \in Honest : r < q => \/ Incoming(p, r) = {}
                                                            \/ r \in dec[p].avail \cup dec[p].confirmed

Receive(p, q) == InTurn(p, q) /\ Recv(p, q)

\* A node whose opening has returned a result solves for the messages.
Solved(p) == mixed' = IF opened'[p] \in {None, Raised, Failed} THEN mixed
                      ELSE [mixed EXCEPT ![p] = SolvePython(Flatten(opened'[p]), Modulus)]

OpenStep(p) == /\ RobustUpdate(p) \/ (\E q \in Proc : Receive(p, q))
               /\ Solved(p)
               /\ UNCHANGED <<filesVars, batch>>

Next == Phase2 \/ \E p \in Honest : Phase3(p) \/ OpenStep(p)

(***************************************************************************)
(* The operating system runs the processes and gives the lock to one that  *)
(* waits.  A party that follows the code goes on as long as it can without *)
(* a message of a faulty one: what the others have sent arrives.  (The     *)
(* formula is weak fairness of its steps, with CanStep written out.)       *)
(***************************************************************************)
CanStep(p) ==
    /\ p \in Honest
    /\ \/ stage[p] = "idle" /\ AllEnded /\ file[p].exists
       \/ /\ stage[p] \in {"R1", "R2"}
          /\ \/ dec[p].updating
             \/ \E q \in Honest \ (dec[p].avail \cup dec[p].confirmed) : Incoming(p, q) # {}

Fairness == /\ WF_filesVars(FilesNext)
            /\ \A p \in Proc : <>[]CanStep(p) => []<><<TRUE>>_(<<stage[p], dec[p]>>)

Spec == Init /\ [][Next]_vars /\ Fairness

----------------------------------------------------------------------------
\* r is the list of the messages ms, in ascending order.
IsSortedListOf(r, ms) ==
    /\ r.kind = "list"
    /\ \A i \in 1 .. K - 1 : r.messages[i] <= r.messages[i + 1]
    /\ \A v \in Value : Cardinality({i \in Lines : r.messages[i] = v})
                          = Cardinality({i \in Lines : ms[i] = v})

\* The solver finds any K messages from their power sums (NativeCalls, SolverExact).
ASSUME SolverAssumption ==
    \A ms \in [Lines -> Value] :
        IsSortedListOf(SolvePython([m \in Lines |-> PowerSum(ms, m, Modulus)], Modulus), ms)

(***************************************************************************)
(* What a node returns are the messages, sorted: sums of shares in a file, *)
(* powers from a - b, words of a code and Newton's identities fit together,*)
(* also if the processes of one node fail or one party lies.  No opening   *)
(* returns None.                                                           *)
(***************************************************************************)
RightMessages ==
    \A p \in Honest :
        /\ opened[p] # Failed
        /\ mixed[p] # None => IsSortedListOf(mixed[p], batch.a)

(***************************************************************************)
(* Every node that has a file of sums returns the messages, unless a       *)
(* message of the wrong length has made the opening raise somewhere.       *)
(***************************************************************************)
Finishes == <>(\/ \E p \in Honest : opened[p] = Raised
               \/ \A p \in Honest : mixed[p] # None \/ (AllEnded /\ ~file[p].exists))
=============================================================================
