------------------------- MODULE AvssValueProcessor -------------------------
(***************************************************************************)
(* AvssValueProcessor (avss_value_processor.py) at all honest parties: the *)
(* receive loop that orders the shares of each dealer (utils/sequencer.py) *)
(* and the loop that agrees with the other parties, by one common subset   *)
(* after another, on how many of each dealer's values to hand out.         *)
(*                                                                         *)
(* A value is its position in the dealer's numbering.  The common subset   *)
(* is the service of CommonSubset: the same vector at every honest party,  *)
(* with the reports of at least N - T parties in it.  A party where it     *)
(* raises (CommonSubset!RaisesBlamed) takes no further step here.          *)
(***************************************************************************)
EXTENDS Integers, FiniteSets, SequencesExt

CONSTANTS
    N, T,
    Faulty,       \* the parties that do not run the code
    Arrives,      \* Arrives[p][j]: how many values of dealer j reach p
    ChunkSize,    \* chunk_size
    MaxAcs,       \* how many common subsets are run
    Reports,      \* the vectors of counts a faulty party may report
    None

Proc   == 0 .. N - 1
Honest == Proc \ Faulty
Runs   == 0 .. MaxAcs - 1

ASSUME SizeAssumption ==
    /\ N \in Nat /\ T \in Nat /\ N >= 3 * T + 1
    /\ Faulty \subseteq Proc /\ Cardinality(Faulty) <= T
    /\ Arrives \in [Honest -> [Proc -> Nat]]
    /\ ChunkSize \in Nat \ {0}
    /\ MaxAcs \in Nat /\ Reports \subseteq [Proc -> Nat]
    /\ None \notin Nat \cup (Proc \X Nat) \cup [Proc -> Nat] \cup [Proc -> [Proc -> Nat] \cup {None}]

VARIABLES
    heap,        \* heap[p][j]: values of dealer j the sequencer holds back
    inputs,      \* inputs[p][j]: length of inputs_per_dealer[j]
    outputs,     \* outputs[p][j]: the futures, each with its value or None
    next_idx,    \* next_idx_to_return_per_dealer
    queue,       \* queue[p]: everything ever put in output_queue
    report,      \* report[p]: the counts p has given to an undecided subset
    subset,      \* subset[r]: what common subset r returned
    run,         \* run[p]: acs_counter
    runner       \* "sleeping", "waiting" for the subset, or "dead"

vars == <<heap, inputs, outputs, next_idx, queue, report, subset, run, runner>>

Delimiter == None                      \* BATCH_DELIMITER

Init ==
    /\ heap = [p \in Honest |-> [j \in Proc |-> {}]]
    /\ inputs = [p \in Honest |-> [j \in Proc |-> 0]]
    /\ outputs = [p \in Honest |-> [j \in Proc |-> <<>>]]
    /\ next_idx = [p \in Honest |-> [j \in Proc |-> 0]]
    /\ queue = [p \in Honest |-> <<>>]
    /\ report = [p \in Honest |-> None]
    /\ subset = [r \in Runs |-> None]
    /\ run = [p \in Honest |-> 0]
    /\ runner = [p \in Honest |-> "sleeping"]

-----------------------------------------------------------------------------
\* Sequencer: the count up to which "held" continues from n without a gap.
Drained(held, n) == CHOOSE m \in n .. n + Cardinality(held) :
                        m \notin held /\ n .. m - 1 \subseteq held

ResolvesNone(futures, old, new) == futures   \* mutant: futures are forgotten

\* The futures of a dealer after inputs old .. new - 1 have arrived.
Resolves(futures, old, new) ==
    [k \in DOMAIN futures |->
        IF k > old /\ k <= new THEN k - 1 ELSE futures[k]]

\* _recv_loop takes value id of dealer j: the sequencer buffers it and lets
\* go of all that are next in order; agreed futures get their values.
RecvValue(p, j, id) ==
    /\ id \in 0 .. Arrives[p][j] - 1
    /\ id >= inputs[p][j] /\ id \notin heap[p][j]     \* each is shared once
    /\ LET held == heap[p][j] \cup {id}
           n == Drained(held, inputs[p][j])
       IN  /\ heap' = [heap EXCEPT ![p][j] = {x \in held : x >= n}]
           /\ inputs' = [inputs EXCEPT ![p][j] = n]
           /\ outputs' = [outputs EXCEPT ![p][j] = Resolves(@, inputs[p][j], n)]
    /\ UNCHANGED <<next_idx, queue, report, subset, run, runner>>

-----------------------------------------------------------------------------
\* Element k (from 0) of the sorted counts: k come before it, of equal ones
\* those of smaller index.
Before(x, y) == x[1] < y[1] \/ (x[1] = y[1] /\ x[2] < y[2])

SortedAt(counts, k) ==
    LET ranked == {<<counts[i], i>> : i \in Proc}
    IN  (CHOOSE x \in ranked : Cardinality({y \in ranked : Before(y, x)}) = k)[1]

AgreedIndexLow == N - T        \* mutant: the T-th largest count

\* The index that at least T + 1 parties' counts reach.
AgreedIndex == N - (T + 1)

\* mutant: a party that is not in the subset counts as having seen nothing
AgreedCountZero(p, view, j) ==
    SortedAt([i \in Proc |-> IF view[i] = None THEN 0 ELSE view[i][j]], AgreedIndex)

\* mutant: it counts as having seen what has arrived here
AgreedCountArrived(p, view, j) ==
    SortedAt([i \in Proc |-> IF view[i] = None THEN inputs[p][j] ELSE view[i][j]],
             AgreedIndex)

\* How many values of dealer j are agreed; a party whose report is not in
\* the subset counts as having seen what is agreed already.
AgreedCount(p, view, j) ==
    SortedAt([i \in Proc |-> IF view[i] = None THEN Len(outputs[p][j])
                                               ELSE view[i][j]], AgreedIndex)

\* New futures for the agreed values, resolved if the value is here.
Extended(p, j, agreed) ==
    [k \in 1 .. agreed |->
        IF k <= Len(outputs[p][j]) THEN outputs[p][j][k]
        ELSE IF k <= inputs[p][j] THEN k - 1 ELSE None]

\* _add_to_output_queue: batch i takes one chunk from each dealer that has a
\* further chunk pending.
Pending(p, agreed) == [j \in Proc |-> agreed[j] - next_idx[p][j]]
Batches(pending) == SortedAt(pending, T) \div ChunkSize
InBatch(pending, j, i) == pending[j] \div ChunkSize > i

\* Mutant: each batch starts over at the first pending value.
ChunkFirst(p, j, i) == [k \in 1 .. ChunkSize |-> <<j, next_idx[p][j] + k - 1>>]

Chunk(p, j, i) == [k \in 1 .. ChunkSize |-> <<j, next_idx[p][j] + i + k - 1>>]

\* Mutant: a dealer whose value has not arrived here is left out.
BatchArrived(p, pending, i) ==
    FlattenSeq([x \in 1 .. N |->
        IF InBatch(pending, x - 1, i) /\ inputs[p][x - 1] > next_idx[p][x - 1] + i
        THEN Chunk(p, x - 1, i) ELSE <<>>])
    \o <<Delimiter>>

Batch(p, pending, i) ==
    FlattenSeq([x \in 1 .. N |->
        IF InBatch(pending, x - 1, i) THEN Chunk(p, x - 1, i) ELSE <<>>])
    \o <<Delimiter>>

NewOutput(p, pending) ==
    FlattenSeq([i \in 1 .. Batches(pending) |-> Batch(p, pending, i - 1)])

\* How far next_idx_to_return moves.
Returned(pending, j) ==
    ChunkSize * Cardinality({i \in 0 .. Batches(pending) - 1 :
                                InBatch(pending, j, i)})

-----------------------------------------------------------------------------
\* _run_acs_to_process_values, first half: the counts go to the subset,
\* where a report that comes after the decision changes nothing.
StartAcs(p) ==
    /\ runner[p] = "sleeping"
    /\ run[p] \in Runs
    /\ report' = [report EXCEPT ![p] = IF subset[run[p]] = None THEN inputs[p]
                                                                ELSE None]
    /\ runner' = [runner EXCEPT ![p] = "waiting"]
    /\ UNCHANGED <<heap, inputs, outputs, next_idx, queue, subset, run>>

Undecided == {r \in Runs : subset[r] = None}
Quorums   == {S \in SUBSET Proc : Cardinality(S) >= N - T}

\* Common subset r is decided, with the reports of the parties in S, those
\* of the faulty ones being whatever they like.
DecideAcs(r, S, lies) ==
    /\ r \in Undecided
    /\ S \in Quorums
    /\ \A q \in S \cap Honest : run[q] = r /\ runner[q] = "waiting"
    /\ subset' = [subset EXCEPT ![r] =
                     [q \in Proc |-> IF q \notin S THEN None
                                     ELSE IF q \in Faulty THEN lies[q] ELSE report[q]]]
    /\ report' = [p \in Honest |-> IF run[p] = r THEN None ELSE report[p]]
    /\ UNCHANGED <<heap, inputs, outputs, next_idx, queue, run, runner>>

\* Second half, once the subset is known: _process_acs_output, which asserts
\* for each dealer in turn that the agreed count has not shrunk, and
\* _add_to_output_queue.
ProcessAcs(p) ==
    /\ runner[p] = "waiting"
    /\ subset[run[p]] # None
    /\ LET agreed == [j \in Proc |-> AgreedCount(p, subset[run[p]], j)]
           passed(j) == \A i \in 0 .. j : Len(outputs[p][i]) <= agreed[i]
           outs == [j \in Proc |-> IF passed(j) THEN Extended(p, j, agreed[j])
                                               ELSE outputs[p][j]]
           pending == Pending(p, agreed)
       IN  /\ outputs' = [outputs EXCEPT ![p] = outs]
           /\ IF passed(N - 1)
              THEN /\ queue' = [queue EXCEPT ![p] = @ \o NewOutput(p, pending)]
                   /\ next_idx' = [next_idx EXCEPT ![p] =
                                      [j \in Proc |-> @[j] + Returned(pending, j)]]
                   /\ run' = [run EXCEPT ![p] = @ + 1]
                   /\ runner' = [runner EXCEPT ![p] = "sleeping"]
              ELSE /\ runner' = [runner EXCEPT ![p] = "dead"]
                   /\ UNCHANGED <<queue, next_idx, run>>
    /\ UNCHANGED <<heap, inputs, report, subset>>

Next ==
    \/ \E p \in Honest, j \in Proc : \E id \in 0 .. Arrives[p][j] - 1 :
          RecvValue(p, j, id)
    \/ \E p \in Honest : StartAcs(p)
    \/ \E r \in Undecided, S \in Quorums : \E lies \in [S \cap Faulty -> Reports] :
          DecideAcs(r, S, lies)
    \/ \E p \in Honest : ProcessAcs(p)

Spec == Init /\ [][Next]_vars

-----------------------------------------------------------------------------
\* Shapes and ranges; nothing is handed out that was not agreed.
TypeOK ==
    /\ \A p \in Honest, j \in Proc :
          /\ heap[p][j] \subseteq 0 .. Arrives[p][j] - 1
          /\ inputs[p][j] \in 0 .. Arrives[p][j]
          /\ inputs[p][j] \notin heap[p][j]
          /\ next_idx[p][j] \in 0 .. Len(outputs[p][j])
          /\ \A k \in DOMAIN outputs[p][j] : outputs[p][j][k] \in {None, k - 1}
    /\ run \in [Honest -> 0 .. MaxAcs]
    /\ runner \in [Honest -> {"sleeping", "waiting", "dead"}]

\* SameOrder: the output queues of honest parties are prefixes of each other,
\* whatever values each has received when it processes a subset: what makes
\* the k-th share taken from the queue a share of the same value everywhere.
SameOrder ==
    \A p, q \in Honest :
        IsPrefix(queue[p], queue[q]) \/ IsPrefix(queue[q], queue[p])

\* SameAgreed: honest parties that have processed equally many subsets have
\* agreed on equally many values of each dealer, although each fills in the
\* reports that are missing from its own state (acs_outputs); an assertion that
\* fails within a subset is the one thing that can leave them apart.
SameAgreed ==
    \A p, q \in Honest :
        run[p] = run[q] /\ "dead" \notin {runner[p], runner[q]} =>
            \A j \in Proc : Len(outputs[p][j]) = Len(outputs[q][j])

\* Backed: every value that is handed out has reached an honest party
\* (outputs_per_dealer: "agreed by at least `t+1` parties"), although faulty
\* parties report anything.  Whether the others get it, too, is up to HbAvss.
Backed ==
    \A p \in Honest, j \in Proc : outputs[p][j] # <<>> =>
        \E q \in Honest : inputs[q][j] >= Len(outputs[p][j])

\* Resolved: a future has its value exactly if the value is here, whichever
\* of the value and the agreement came first.
Resolved ==
    \A p \in Honest, j \in Proc : \A k \in DOMAIN outputs[p][j] :
        outputs[p][j][k] # None <=> k <= inputs[p][j]

\* The entries of dealer j before the n-th.
Earlier(s, n, j) == {k \in 1 .. n - 1 : s[k] # Delimiter /\ s[k][1] = j}

\* Before each value in a queue all earlier ones of its dealer, and nothing else of it.
AllOnce ==
    \A p \in Honest : \A n \in DOMAIN queue[p] :
        LET v == queue[p][n]
        IN  v # Delimiter => v[2] = Cardinality(Earlier(queue[p], n, v[1]))

\* EachOnce: no value is put in the queue twice, and those of a dealer come in
\* their order and without gaps, over as many batches and subsets as it takes
\* (_add_to_output_queue: "agreed and not yet added to the output queue").  For the
\* default chunk_size only: of longer chunks line 220 hands out parts twice.
EachOnce == ChunkSize = 1 => AllOnce

\* Party q has told subset r how many values it has.
Told(r, q) == subset[r] # None /\ subset[r][q] # None

\* A faulty party has told subset r fewer values of a dealer than an earlier one.
TakenBack(r) ==
    \E q \in Faulty, j \in Proc : \E s \in 0 .. r - 1 :
        Told(s, q) /\ Told(r, q) /\ subset[r][q][j] < subset[s][q][j]

\* StopsBlamed: where the assertion of _process_acs_output fails ("This agreed
\* count should always be more than the number of outputs which are available at
\* any instant on any node"), a faulty party has taken a report back; slow parties
\* and missing reports alone never do it.  And then no honest party gets past that
\* subset: it is not one that stops while the others hand values out.
StopsBlamed ==
    \A p \in Honest : runner[p] = "dead" =>
        /\ TakenBack(run[p])
        /\ \A q \in Honest : run[q] <= run[p]
=============================================================================
