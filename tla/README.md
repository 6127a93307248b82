# HoneyBadgerMPC in TLA+

A specification of the asynchronous core of HoneyBadgerMPC (`src/honeybadgermpc/`)
and of its native arithmetic:

* reliable broadcast, the common coin, binary agreement, the common subset built
  from them;
* verifiable secret sharing (HbAVSS light) over the broadcast, and the processor that
  agrees on which of its shares are handed out;
* the opening of batches of shared secrets with its incremental decoder;
* AsynchroMix by power sums (`src/apps/asynchromix/`): the processes that add
  powers up in files, the opening of the sums, the equation solver;
* the extension module `ntl/`: interpolation, Fourier transforms with their cache of
  matrices, Gao's decoder, and its parallel regions.

TLC checks small instances.  TLAPS proves the safety properties of all of the
protocols and of power mixing as a whole for any number of parties; that the
broadcast, the binary agreement, the common subset and the opening implement what the
modules above use of them; that when no message is left nobody waits; and that a call
into the extension module gives what it would give as the first one, whatever its cache
holds and however its threads interleave.

Paths below are relative to `src/honeybadgermpc/` unless they start with `src/`.

## 1. The system

A program of n parties, of which at most t (or f) are faulty, `n >= 3t + 1`.
Each party is one asyncio process.  A *coroutine per protocol instance* reads
messages from its own queue (`subscribe_recv` in `utils/misc.py` splits the
stream of a party by tag) and sends with a non-blocking `send`.  Messages
between parties may take any time and overtake each other; nothing is persisted,
so that there are no restarts.  Steps of one party interleave at `await`.

### Inventory

| Component | State it keeps | Operations | Interacts with | What is hard | What makes it correct |
|---|---|---|---|---|---|
| **Reliable broadcast** `broadcast/reliablebroadcast.py` | stripes per root, ECHO and READY senders, `from_leader`, `ready_sent` | leader's dispersal; VAL, ECHO, READY handlers; `decode_output` | messages; called by common subset, hbavss | a leader that sends different roots; stripes nobody verified; a party that returns stops answering | agreement, validity, totality; a party raises only over a stripe it has not verified, or with all others |
| **Common coin** `broadcast/commoncoin.py`, `crypto/boldyreva.py` | shares received per round, a queue of capacity one per round | `get_coin`, the receive task | messages; called by binary agreement | wrong shares, late shares, a `put_nowait` that may raise, shares before the round was asked for | unpredictable before an honest party asks; everyone gets it |
| **Binary agreement** `broadcast/binaryagreement.py` | `est`, EST/AUX/CONF sets per round, `bin_values`, `already_decided` | start, EST relay, waits for AUX and CONF, coin, `set_new_estimate`, end of the loop | messages, coin; called by common subset | waits that re-read a set after each message, equivocation counted twice, the coin known too early, parties that quit in different rounds | agreement, validity, locking of a decided value, progress |
| **Common subset** `broadcast/commonsubset.py` | `aba_inputted`, `aba_values`, `rbc_values` | `_recv_rbc`, `_recv_aba`, the final wait and cancellation | n broadcasts and n agreements as futures and queues; called by the AVSS value processor | each party votes 0 at a time of its own; broadcasts that raise; everybody needs a vote in every agreement | same places filled, at least n - f; raises and waits only where a broadcast did so at some parties |
| **AVSS value processor** `avss_value_processor.py`, `utils/sequencer.py` | per dealer: buffered values, inputs, futures, next index; output queue; common subset counter | `_recv_loop`, `_acs_runner`, `_process_acs_output`, `_add_to_output_queue` | reads the output queue of hbavss; runs common subsets; feeds the robust offline phase | values late or out of order; reports missing from the subset; faulty reports; chunks | the same values in the same order at all parties, each once, and none that no honest party has; stopped by an assertion only where a faulty party took a report back |
| **AVID** `broadcast/avid.py` | echo, ready and retrieval sets, queued RETRIEVEs | disperse, retrieve | messages | a RETRIEVE before the stripe or before the end of dispersal; ECHO and READY carry no root | what is retrieved is what was dispersed |
| **HbAVSS light / batch** `hbavss.py` | OK, IMPLICATE and RECOVERY sets, `share_valid`, `sent_recovery` | `avss`, `_process_avss_msg` | reliable broadcast (light), AVID + broadcast (batch) | ending on t + 1 IMPLICATEs before the own share is there; invalid IMPLICATEs that count as OK; private keys shown on another's word | all shares on one polynomial, t + 1 honest parties with theirs, no key shown under an honest dealer, an honest dealer not stopped |
| **Robust offline generators** `offline_robust.py` | queues of values per dealer | triples, bits, random shares | hbavss, AVSS value processor, MPC | batches delimited in a queue; cancellation | consistent batches at all parties |
| **RanDouSha** `offline_randousha.py` | - | hyper-invertible generation and check | MPC, batch reconstruction | waits for all n parties | result refused by all or none |
| **MPC runtime** `mpc.py`, `progs/mixins/dataflow.py` | share buffers by share id | `open_share`, `open_share_array`, `_recvloop` | batch reconstruction, router or ipc | shares before they are asked for; a repeated share raises and ends the program | the opened value is the shared one, share ids match |
| **Batch reconstruction** `batch_reconstruction.py`, `robust_reconstruction.py`, `reed_solomon.py` | `IncrementalDecoder`: available points, guess, partial result, confirmed errors | R1 and R2 rounds; `add`, optimistic and robust update | messages; called by the MPC runtime; decoders of the native arithmetic | wrong shares among the first to arrive; a guess confirmed or refuted later; errors found in one polynomial used for the next; lists of the wrong length | never a wrong secret, no result of `None`, ends with n - t right shares |
| **Native arithmetic** `ntl/` | modulus of each thread, cache of transform matrices, numbers of threads | `lagrange_interpolate`, `evaluate`, Vandermonde and FFT functions, their batch forms, `gao_interpolate`, `sqrt_mod` | called by `polynomial.py`, `reed_solomon.py`; NTL; OpenMP | matrices of an earlier modulus; threads that drop each other's matrices; conversions at byte limits; the decoding radius | values and polynomials are those of the definition, whatever was called before |
| **Power mixing** `src/apps/asynchromix/powermixing.py`, `cpp/`, `solver/` | input and sum files, the lock file | phase 1, `compute-power-sums`, phase 3, `solve` | processes that share files; batch reconstruction; preprocessing | many processes that read, add and write back one file; exit codes nobody looks at | no update lost; the messages come out, sorted |
| **IPC, router, runners** `ipc.py`, `router.py`, `program_runner.py` | sender queues | send, recv, shutdown | zmq sockets | end-of-stream behind queued messages | everything sent before shutdown is handed to the socket |
| **Task utilities** `utils/misc.py`, `utils/task_pool.py` | queues by tag, worker tasks | `subscribe_recv`, `TaskPool` | everything | a task that raises ends its worker | each submitted task gets a result |
| **Preprocessing** `preprocessing.py` | cached elements, counts, files | generate, get | file system, MPC programs | counts and cached values updated in different places | no element used twice |
| **AsynchroMix** `src/apps/asynchromix/` | contract storage; server queues | reserve, submit, initiate, propose; four server loops | Ethereum events, MPC runtime | guards that refuse a legal order of votes | each input mixed once, outputs approved by an honest server |
| Algebra, cryptography, programs | - | - | - | - | `polynomial.py`, `field.py`, `reed_solomon_wb.py`, `ntl/`, `src/pairing/`, `poly_commit_*.py`, `progs/`: functions on large fields, used here as what they promise |

Modelled are the first five rows, HbAVSS light, batch reconstruction, native arithmetic
and power mixing.  The first five are the core on which everything with a faulty party rests,
and the part with the most intricate interleavings; HbAVSS is how secrets get into the
system and the other three how they leave it, with the code in C++ (which the generated
`hbmpc_ntl_helpers.cpp` makes the largest part of the repository).

### How the modelled parts interact

    HbAvssLight --- output_queue ---> AvssValueProcessor --- run_common_subset ---> CommonSubset
         |                                                                         |        |
         |   one per sharing                                               n times |        | n times
         +--------------------------------------------------------------->         v        v
                                                                 ReliableBroadcast     BinaryAgreement --> CommonCoin

    PowerMixing --- EXTENDS ---> PowerSums   (files of sums, written by processes)
                            ---> BatchReconstruction   (the opening of the sums)
                            ---> Solver      (from sums to messages)
    NativeCalls --- EXTENDS ---> NtlHelpers ---> RsDecode ---> FieldPoly
                            ---> Solver -----------------------> FieldPoly

In the first picture each arrow is an abstraction: the module above uses what the
module below is shown to promise, because the product of the full state machines is
beyond TLC.  In the second one the modules are composed: `PowerMixing` has the
variables and actions of the modules it extends, and what one phase leaves in a file
is what the next one reads.

| Module above | uses | as | which is what is shown by |
|---|---|---|---|
| `CommonSubset` | a broadcast | `MayDeliver`, `MayFail`: it returns the one value at some parties and may raise at others (finding 1), whoever leads it | `rbc_service` and `BroadcastImplements` (refinement of `BroadcastService`, corrupt stripes included), `NobodyLeftOut` |
| `CommonSubset` | an agreement | `MayDecide`: one bit, the input of an honest party | `ba_agreement` and `AgreementImplements` (refinement of `AgreementService`) |
| `BatchReconstruction` | the robust decoder | `RobustDecode`: the near word; further out nothing or a word just outside | `native` (`GaoExact`) |
| `PowerMixing` | the opening of a - b in phase 1 | the opened value in the input file | `OpeningImplements` |
| `BinaryAgreement` | a coin | `CoinReady`, `coin[r]`: one bit for all, after F + 1 shares | `coin` (`NotEarly`, `EveryCoin`) |
| `HbAvssLight` | a broadcast | `Start`, `Lose`: the same message at all parties at which it returns, each at its time; it may raise at any | `rbc_equivocate` (`Agreement`), `rbc_service` and `BroadcastImplements`, `NobodyLeftOut` |
| `AvssValueProcessor` | sharings | `RecvValue`: one share per sharing, or none (finding 9) | `hbavss` (`Shared`, `Delivery`) |
| `AvssValueProcessor` | a common subset | `DecideAcs`: one vector for all, at least N - T reports in it, an honest party's only once it has called; a party at which it raised or that waits for ever does not go on | `subset` and `SubsetImplements` (refinement of `SubsetService`), `Terminates` |

## 2. Modules

### `ReliableBroadcast` (with `BroadcastService`)

One instance at all parties.  State and code:

| Variable | Code |
|---|---|
| `input` | the value the leader has encoded and sent (193-208) |
| `from_leader[p]` | `from_leader`, and with it the ECHO that p has broadcast (247-249) |
| `stripes[p][q]` | `stripes[roothash][sender]` and `echo_senders`: the one ECHO that counts |
| `ready[p][q]` | `ready[roothash]` and `ready_senders` |
| `ready_sent[p]` | `ready_sent`, and with it the READY that p has broadcast |
| `output[p]` | the return value, or `Failed` for the exception that ends the coroutine |

`Disperse`, `RecvVal`, `RecvEcho`, `RecvReady` are the leader's prologue and the
three branches of the receive loop.  Each handler includes everything up to the
next `await`: counting, sending READY, and (`Finish`) the test on which the code
calls `decode_output`.  Messages are not removed: what an honest party has
broadcast can be read off `from_leader` and `ready_sent` and may reach each party
later or never; what faulty parties send is any value, to the parties in
`Audience`.

Abstractions.  A Merkle root is identified with the leaves under it, a stripe is
genuine, corrupt (not its leaf) or missing (`None`).  Decoding takes the first k
blocks *by index*, as `decode` does, and `decode_output` compares the root:
`FirstK`, `DecodeOutput`.  Not modelled: the bytes of padding in `encode` and
`decode`, messages that cannot be unpacked.

A party that raises keeps its stripes in the model: they say why it raised.
`Exposed(p)` is that p holds a stripe of a faulty party that is not the leaf it stands
for, which the `merkleVerify` that is commented out would have refused.

`BroadcastService` is the abstract specification: no messages, only who has
returned what, and who is `exposed`.  All that return, return one value; a party that is
exposed may raise by itself, whoever leads the broadcast and whatever the others return;
any other one raises only under a faulty leader, when nobody returns a value.
`ReliableBroadcast!ImplementsService` is the refinement, the identity on `input` and
`output`, with `ExposedParties` for `exposed`.

### `BinaryAgreement` (with `AgreementService`)

One instance at all parties.  `pc` says in which wait of the round (`bin`, `aux`,
`conf`, `coin`) a party is; `est_sent`, `bin_values`, `aux_sent`, `conf_sent`,
`values`, `decided` are the variables of the code.  Sets of received messages are
not kept: they only grow, each is used in one wait, and the waits ask for *at
least* so many members, so that the delay of the message that completes a quorum
is the delay of the action.  `AuxDone` and `ConfDone` follow the waits of the code
(219-242, 56-76), which add up the sizes of sets of senders; with
`Equivocate = TRUE` a faulty sender is therefore counted once per value.
`NewEstimate` is `set_new_estimate`, with the end of the loop for a party that
meets the bit it had decided before.  The receive task is cancelled when
the coroutine returns (294-296): a party that has quit relays nothing more.

`AgreementService` is the abstract specification: an input and a decision per party, no
messages, rounds or coins.  A party that decides has an input and no decision yet, and
decides an honest input that is everybody's decision.  `ImplementsAgreement` is the
refinement, the identity on `input` and `decided`.

Not modelled: a faulty party that repeats a message (`RedundantMessageError` ends
the receive task, hazard at line 126).

### `CommonCoin`

`GetCoin` broadcasts the share and starts the wait, `RecvShare` is one turn of the
receive task, `TakeCoin` the return of `get_coin`.  A signature share is right or
wrong; `Combines` is the test that exactly F + 1 shares are there, `PutCoin` the
combination, its assertion and the `put_nowait` on a queue of capacity one; an
exception there ends the receive task (`recv_task`).

### `CommonSubset`

`task` is the coroutine, `rbc[p][j]` the task that awaits broadcast j (running,
done, failed, cancelled), `aba_in` what has been put in the input queue of
agreement j (`aba_inputted` is `# None`), `aba_values` the bits received.
`RecvRbc` and `FailRbc` are `_recv_rbc`, `RecvAba` is `_recv_aba` with the zeros
it gives, `Return` all that follows the `gather`: the assertion, the awaits of
broadcasts in the subset (an exception stored in a task comes out here), the
cancellation of the others.  Awaiting in the order of j and awaiting all at once
have the same result, and the model does the latter.  The broadcasts are those of
`BroadcastService` with every honest party in its `Audience`: `MayDeliver` lets a
broadcast return at a party although it has raised at another, and `MayFail` lets it
raise although its leader is honest.

`SubsetService` is the common subset without broadcasts and agreements: parties join,
and those that have joined return the same quorum of places, in which an honest party
is only after it has joined.  `started` is `Joined` (`task` is no longer `"idle"`), the
quorums are the sets of N - F places or more.

### `HbAvssLight`

One sharing at all parties.  `Start` is the return of the broadcast and the check of the
own share, `Lose` that the broadcast raises, which ends `avss` for that party, `RecvOk`, `RecvImplicate` and `RecvRecovery` are the turns of the receive loop
of `_process_avss_msg` by the kind of the message, each with the head of the loop after
it (`LoopHead`: the two outputs, in the order of the code, and the conditions to end).
`ok_set`, `implicate_set`, `share_valid`, `output` and `recovered` are the variables of
the code, `recovery_shares` its `recovery_set` with the shares, and `sent_recovery` is
`"RECOVERY" \in sent[p]`.  `Raise` is the assertion in `batch_verify_eval` on shares of
another number than the commitments, which ends the coroutine at lines 82 and 196 but
not at line 101, where it is caught.

A blob is known by the key that opens it and by what is in it; a message's key is
its sender's or another one.  A party that recovers a share uses points that it has
verified, so that the result is right if the committed polynomial has degree T
(`Interpolated`): `PolyCommitLin` does not check that, and `Degree` says whether a faulty
dealer keeps to it.  `implicate_set` counts senders of invalid IMPLICATEs, too, as the
code does.

Not modelled: `client_mode`, messages that do not unpickle, `HbAvssBatch`.

### `AvssValueProcessor`

`RecvValue` is one turn of `_recv_loop` with the sequencer (`Drained`): values of
one dealer may arrive in any order.  `StartAcs` and `ProcessAcs` are the two halves
of `_run_acs_to_process_values`, before and after the common subset; `DecideAcs` is
the subset, in which faulty parties report what they like.  `ProcessAcs` contains
the loop over dealers with its assertion (an exception ends the runner task:
`"dead"`, the dealers before the failing one being updated already) and
`_add_to_output_queue`, which may make several batches of one subset.  A value is its position in its dealer's numbering.

### `FieldPoly`, `RsDecode`, `NtlHelpers`

`FieldPoly` is what the code uses of NTL: vectors, matrices and polynomials modulo a
prime (external).  `RsDecode` translates `rsdecode_impl.h`: the radix-2 transform
that goes over to a matrix product below a threshold (`Butterfly`), the cache of these
matrices (`GetMatrix`: emptied when the modulus has changed), interpolation at
powers of a root of unity in two steps, the Euclidean algorithm stopped half way,
Gao's decoder with its test.  What the code takes from global state is an argument.

`NtlHelpers` is the extension module as a process sees it: one action per exported
function.  The generated C++ is the source, and the lines in `map` are the bodies of
its functions (the `.pyx` has the same order).  Its state is what survives a call:
NTL's modulus per thread, the cache, the thread numbers.  The batch functions start a
`region` in which each thread sets the modulus, looks the matrix up under the mutex
(`ThreadLookup`) and, in a later step, uses the reference it has got
(`ThreadItem`): two threads interleave between these.  Conversions are modelled by what
they do: `IntToZZ` through the bytes of the number with the length computed from
`bit_length`, `ZZToStr` through decimal digits; a conversion that fails in a function
that cannot raise gives zero, as Cython makes it (finding 11).  The properties do not
follow the code in that: they speak of calls whose arguments convert (`Converts`).  A failure inside NTL ends the
process (`Aborts`).

### `Solver`, `NativeCalls`

`Solver` translates `solver.cpp` and `solver.py`: Newton's identities give the
polynomial, its linear factors the messages, and the return codes tell invalid sums
from refused inputs.  flint's factorization is external (`Multiplicity`,
`Roots`).  `NativeCalls` is a Python process with both libraries.

### `PowerSums`

The processes of `compute-power-sums`, started through a `TaskPool` with `Workers`
workers in the order of submission.  `StartJob` is the start and the computation of
the powers, `AcquireLock` the wait of `F_SETLKW`, `OpenSums` the reading of an
existing file of sums and its truncation, `WriteLine` one line of output, `CloseSums`
the closing of the lock file.  (`fcntl(fd, F_UNLCK, ...)` at
`compute-power-sums.cpp` passes a lock *type* where a command belongs, and that number is
the command `F_SETFD`; that the lock is freed is due to the `fclose` after it.)  `FailToLock` is `exit(1)`, which
`run_command_sync` (`powermixing.py:62-71`) does not look at.  The content of a line
is a formal sum, namely how often each process's powers are in it: the finest
abstraction that tells lost, double and partial updates apart.

### `BatchReconstruction`, `Reconstruction`

`batch_reconstruct` at all parties with the two rounds, and the `IncrementalDecoder`
(`dec[p]`) with its fields.  `Added` is `add`: too few points, a guess by
interpolation, a guess confirmed by a further point, or a guess refuted and robust
decoding from then on.  `RobustUpdate` is one turn of the loop of `_robust_update`
(`Updated`), which moves the errors found to `confirmed` and thereby lowers
the number of points wanted for the next polynomial.  The values of a polynomial at the
parties' points are a word of `Code`; two assumptions say that it is a code of minimum
distance N - T with a word through any T + 1 values, and that is all the proofs
use.  `faulty` parties send anything in `Lies` or the right values, in each message
anew; `misled` parties follow the code on shares that may be wrong.  A list of
the wrong length raises in `add` (`DecodeValidationError`), in whoever receives it:
`Raised`.  When all messages have been taken without a result, the code returns `None`
(`Failed`).

The model has polynomials of degree t.  `batch_reconstruction.py:155` builds the robust
decoder for degree t even when an opening is of degree 2t, so that such an opening
corrects nothing; it waits for all n parties.

`Reconstruction` is the abstract specification: called, returned, raised.
`ImplementsReconstruction` is the refinement, with the secrets for `words.r2` and the
callers for the parties that have sent.

### `PowerMixing`

The three phases of `async_mixing` over the modules above.  `batch` is the input;
`SumShares` the numbers that node p reads from its file, given by how often
each process's powers are in it; `ComputePowers` the recursion of
`compute-power-sums.cpp` on diagonals; `Encode` and `RightWords` `chunk_data` with the
encoder; `Flatten` the way back; `Solved` the last lines of `async_mixing` at
each node.  A process that fails makes its node `misled`.

What the nodes compute from is an input `x`, so that the words of a correct opening are
a constant, `RightWords(x)`.  `WordOf` and `CoeffsOf` are the encoder and the decoder of
`reed_solomon.py`.  Four named assumptions say what the constants of the composition
have to do with each other: `NodesAssumption` (nodes, files, processes and chunks),
`InputAssumption` (a prime, messages below it, at most T nodes lie or have a process that
may fail), `PolynomialAssumption` (`Code` are the words of the polynomials
of degree `Degree`, and decoding finds a polynomial again) and `SolverAssumption` (the
solver gets any messages back from their power sums).  TLC evaluates all of them.

### Proof modules and `MC` modules

`ReliableBroadcastProofs`, `BinaryAgreementProofs`, `CommonCoinProofs`,
`CommonSubsetProofs`, `AvssValueProcessorProofs`, `HbAvssLightProofs`,
`PowerMixingProofs` (which covers `BatchReconstruction` and `PowerSums`, too) and
`NativeCallsProofs` hold invariants, lemmas and theorems.  The `MC...` modules give model values, index functions, input sets
and symmetry sets.  Operators marked "mutant" in a comment are deliberately wrong
variants of the definition below them; they are not part of a specification and
serve to test that the properties notice the change.

## 3. Runs

State counts are of distinct states.

| Run | Instance | Checks | States |
|---|---|---|---|
| `rbc_equivocate` | 4 parties, faulty leader p3, two messages, faulty messages reach p0 and p1 only | `Agreement` `ReadyAgreement` `Recoverable` | 896 k |
| `rbc_service` | faulty leader, one message and one bad root, faulty ECHOs genuine or corrupt, reaching p0; fairness | `NobodyLeftOut`, `ImplementsService`, `Totality` | 379 k |
| `rbc_honest_leader` | honest leader p0, faulty p3 that reaches p1 with genuine and corrupt stripes, two messages; fairness | `Validity` `AbortsBlamed`, `Delivery` | 272 k |
| `rbc_corrupt_echo` | honest leader p1, faulty p0 that may send corrupt stripes to p2 | `NoAbort` **violated** | |
| `ba_round` | 4 parties, one round, all inputs, any coin, one AUX and CONF of the faulty party per receiver | `Validity` `NoStall` `CoinBinding` | 37 k |
| `ba_agreement` | two rounds, p2 against the others, coin 0 then 1, equivocating faulty party | `Locked` `SingleConf`, `ImplementsAgreement` (with it `Agreement`) | 1.27 M |
| `coin` | 4 parties, one faulty, one round; fairness | `NotEarly` `TaskSurvives`, `EveryCoin` | 23 k |
| `subset` | 4 parties, two faulty; fairness | `IInv` (with it `RaisesBlamed`), `ImplementsSubset` (with it `SameSubset`), `Terminates` | 502 k |
| `avss_values` | N = 4, T = 1, two common subsets, up to two values of a dealer, faulty reports that rise or fall | `SameOrder` `SameAgreed` `Backed` `Resolved` `EachOnce` `StopsBlamed` | 373 k |
| `hbavss` | 4 parties, honest dealer p0 or faulty dealer p3 with four ways to deal badly, faulty messages reach p1 and p2; fairness | `KeysKept` `Shared`, `Delivery` | 908 k |
| `native` | any sequence of some 100 calls with the moduli 17 and 1489 (5 and 7 for decoding and solving), two threads | `EvaluatesRight` `InterpolatesRight` `GaoExact` `HistoryFree` `MatrixLive` `SolverExact` | 8 k |
| `power_mixing` | 4 nodes, 3 messages modulo 7, one node lies or has a process that may fail; fairness | `NoLostUpdate` `RightMessages`, `ImplementsReconstruction`, `Finishes` | 97 k |

### Why the bounds are enough

* Four parties and one faulty one is the smallest instance with a faulty party.
  With N = 3F + 1 every threshold (F + 1, 2F + 1, N - F, N - 2F) is met
  exactly, so that an error by one in any of them shows; the proofs cover other N
  and F.
* Two messages are needed for disagreement; one and a bad root, or one corrupt stripe,
  for raising at some parties only.  `rbc_equivocate` keeps to genuine stripes: its
  properties are proved for all, and its symmetry holds for these only.  The root of a message is symmetric in the messages.
* `Audience`: a faulty party that reaches *nobody* and one that reaches
  *everybody* are the mild cases; in between, honest parties have different
  knowledge.  The faulty party is one whose ECHO and READY reach the named parties
  and that may send them anything.  The proofs do not depend on it.
* One round of binary agreement shows everything that is about a single round
  (`CoinBinding`, `NoStall`); two show the passing of an estimate from one
  round to the next and a decision followed by a further round.  `Ahead = 0`: a party takes ESTs of its own and
  earlier rounds only; those of a later one wait until it gets there, which
  delays them but loses none.
* `coin` has one round, since the state of rounds is disjoint but for `next`.
* `subset` has F = 2 with two honest parties: the agreements and broadcasts
  that need N >= 3F + 1 are services, and what is left counts to N - F.  With two
  faulty broadcasters, one may deliver while the other fails, and N - F = 2 can be
  met by any two of the four.  Every broadcast may raise at one party and return at the
  other.  The proof covers every N and F < N.
* `avss_values`: two subsets are needed for a report to be missing the first
  or the second time, or to be taken back.  Party 0 gets two values of three dealers,
  so that T + 1 dealers have two values pending and one subset gives two batches, party 1
  one value, maybe late, party 2 nothing (`Uneven`).  Faulty reports are all
  zeros or all twos, in each subset anew (the agreed count is an order statistic, of which
  the extremes are the hard cases).  `TakeTurns`, a constraint, lets party 0 get its values
  dealer by dealer; those of dealer 0 may overtake one another.  It limits which counts
  can be reported together, and the proofs have no such bound.
* `hbavss`: the faulty dealer leaves one honest party without a good share, or two, of
  which the last one can recover only with the help of p3.  Among the blobs are all ways a
  check can end: good, refused, not decrypted, raising.  p3's own blob is good, wrong or
  encrypted with another key, with which p3 can implicate and help at the same
  time.  The broadcast may raise at each party.
  The proofs have no such bounds.
* `native`: 17 and 1489 have the root of unity 15 of order 8 in common, so that a
  matrix cached under one modulus could be taken for one of the other, and numbers
  modulo 1489 take two bytes.  The threshold from which a transform uses a matrix is 8
  instead of 16, and the orders 4, 8 and 16 are below, at and above it.  Batches have
  one to three items for one or two threads: more threads than items, equal and
  unequal shares.  Words for the decoder have no errors, as many as can be
  corrected, one more, and missing values, for n - k odd and even.  The solver gets all
  pairs of some sums modulo 5, some triples modulo 7, and each kind of refused input.
* `power_mixing`: four nodes and T = 1 meet N = 3T + 1 exactly; three messages make two
  chunks of which the last is filled up; two workers (256 in the code) suffice for two
  processes of one node, or of two nodes, to meet at the lock.  The lying node sends the
  right values, zeros or a list of the wrong length, to each party anew; one
  process of that node may fail.  `Orderly` makes parties take what is there in
  the order of senders; the proofs of the opening have no such bound.

### Fairness

* `ReliableBroadcast!Fairness`: an honest leader does call `send`, and each honest
  party's receive loop gets what *honest* parties have sent: channels are
  reliable (zmq over TCP, the router of the tests), the event loop runs a
  coroutine whose queue is not empty.  It is written as: again and again
  each party in its receive loop holds all that honest parties have sent it
  (`Received`); they send finitely many messages, so that this is weak fairness of
  taking them.  Nothing is assumed of faulty senders.  `Totality` and `Delivery` do not
  promise a return to a party that has raised over a corrupt stripe (`Through`).
* `CommonCoin!Fairness`: a party goes on asking for coins, honest shares arrive.
* `CommonSubset!Fairness`: every party starts; a broadcast by an honest leader, and one
  that has ended at one honest party, *ends* everywhere (`NobodyLeftOut`), by returning or
  by raising; an agreement in which all honest parties have a vote ends at all.
  The last one is an assumption with probability one on the coin and on parties
  that are not abandoned; see finding 3.  That broadcasts return is not assumed: where one
  raised at a party although its leader is honest or it returned elsewhere
  (`Split`), nothing is claimed.  A party at which it raised does not vote, so that
  `commonsubset()` may wait for ever or raise, as `RaisesBlamed` says.
* `NtlHelpers`: the threads of a region go on (`WF` of `RegionStep` or `BatchResult`),
  as OpenMP threads do.
* `PowerMixing!Fairness`: the operating system runs the processes and gives the lock to
  one that waits (`WF` of `FilesNext`), and a party that follows the code goes on as
  long as it can without a message of a faulty one.  The second formula is weak
  fairness of that party's steps, with the condition for being able to move
  (`CanStep`) written out because TLC would otherwise compute all decodings to find
  out.
* `HbAvssLight!FairSpec`: the broadcast of an honest dealer, and one that has ended
  somewhere, ends at every party (`BroadcastEnded`; `NobodyLeftOut` of
  `ReliableBroadcast`), by returning (`Start`) or by raising (`Lose`), and each party that
  runs gets the OKs and IMPLICATEs that honest parties have multicast (`Heard`).
  `Delivery` is about parties at which the broadcast returned (`Served`), and makes one
  exception: if fewer than 2T + 1 honest parties are served, too few OKs may come
  (`Starved`).
* Binary agreement terminates with probability one only, which is out of TLC's
  reach.  `NoStall` says instead that honest messages alone always enable a
  further step of somebody, as long as nobody has quit.  `CanStep` is what enables a step,
  written out, so that the property can be proved; TLC has compared it with `ENABLED`
  once.

### Findings

One run has a violation as its result.

1. `rbc_corrupt_echo`.  Lines 262-263 of `reliablebroadcast.py`: "We can
   optimistically skip the merkleVerify for "ECHO", because the entire merkle tree
   is checked later anyway."  The later check is an assertion that ends the
   coroutine.  One ECHO with a wrong stripe among the first k makes an honest party
   raise although the leader is honest and the right stripes are there.
   `AbortsBlamedHolds` proves that nothing else does under an honest leader, and that
   under a faulty one all that decode raise otherwise.  The consequences are modelled where the broadcast
   is used.  In `CommonSubset` the party does not vote 1 for that broadcast, and all may
   wait for its vote; or the others' votes get the broadcast into the subset, and
   `commonsubset()` raises at that party (`RaisesBlamed`, `Terminates`).  In `HbAvssLight`
   the party is lost for that sharing, and with it the quorum of 2T + 1 OKs may be
   (`Starved`).

Further disagreements met while modelling, for which no run is kept:

2. `avss_value_processor.py` 150-151: "This agreed count should always be more than the
   number of outputs which are available at any instant on any node."  A faulty party that lowers its report makes the
   assertion fail: in `avss_values` an invariant `\A p \in Honest : runner[p] # "dead"` is
   violated.  `StopsBlamed` says that this is the one way, and how far it reaches: nobody
   gets past that subset, so that all of them stop handing out values.
3. `binaryagreement.py` 307-313 states the lemma that at most t parties that have
   decided are abandoned.  With `MCBinaryAgreement`, `Inputs <- OneDissents`, `CoinBits
   <- ZeroCoin`, `MaxRound = 2`, `Equivocate = FALSE` and `SYMMETRY DissentSymmetry`
   TLC finds `AbandonedAtMostF` violated: t = 1, one party has quit and two wait for
   ever.  `run_common_subset` waits for its agreements at line 178 and does not return
   then.
4. `avss_value_processor.py` 53-54: chunks are "for retrieving consecutive values from the
   same dealer in a situation when they are coupled to each other".  Line 220 takes the
   i-th chunk from `i`, not from `i * chunk_size`; `offline_robust.py:180` uses chunks of
   three.  With two parties (N = 2, T = 0), `ChunkSize = 2`, `MaxAcs = 1` and `Arrives <-
   TwoChunks`, `AllOnce` (`EachOnce` without its premise) is violated after one subset: a
   value is handed out twice and another never.
5. With `ClientMode = TRUE` and a fifth party as the leader, `Delivery` fails when one
   of the four others is silent: the leader is counted in n (`hbavss.py:284`) and
   leaves without echoing, so that n - f ECHOs are one too many.
6. With `Equivocate = TRUE`, `CoinBinding` fails, because the CONF wait counts a sender
   of several values several times.  What holds whatever faulty parties send is proved as
   `BoundByConfsHolds`: a round is bound once N - F parties may have sent their CONF.
7. `utils/misc.py:37-41`: `chunk_data` of an empty list returns a flat list, not a list
   of chunks as its docstring says.
8. One list of the wrong length in an opening makes an honest party raise
   (`DecodeValidationError`), though n - t right ones are to come: `Finishes`
   excepts this case.
9. `src/docs/subprotocols.rst:14` promises that "n parties will have a t-shared share".
   With a faulty dealer `NoneLeftOut` of `HbAvssLight` fails: of three honest parties two
   get bad blobs, the third ends on their two IMPLICATEs (t = 1, `hbavss.py:152`)
   before it has output its own share, having sent the RECOVERY with which, and with
   one of the faulty party, another recovers and outputs its share.  A value that
   `AvssValueProcessor` then hands out is a future that is never resolved at the third.
   The assertion of `poly_commit_lin.py:33` has the same effect.
10. `PolyCommitLin.verify_eval` accepts commitments of any length.  With `Degree =
    "higher"` in `hbavss` an honest party outputs `"other"`: a recovered share that is not
    on the committed polynomial.  `Shared` names this as the one way to a wrong share.
11. The docstrings of `hbmpc_ntl_helpers.pyx` (74-80) ask for integers, and
    `py_obj_to_ZZ` (44) has a `raise ValueError`.  An exception in a function
    that returns a C++ object does not reach the caller
    (`hbmpc_ntl_helpers.cpp:1664`): Cython writes it to the log and the call goes on with zero.
    A negative number or `None` in a list gives the answer for another list.  In `native`
    the invariant `NothingSilent` is violated; `EvaluatesRight`, `InterpolatesRight` and
    `GaoExact` are about arguments that convert.

## 4. Proofs

Each proof module assumes only the named assumptions of its component.

### `ReliableBroadcastProofs`

From `ThresholdAssumption` (finite `Proc`, N >= 3F + 1), `FaultAssumption` (at most F
faulty) and the typing of the constants, for any set of messages, bad roots, stripe
kinds, audience and either value of `ClientMode`:

| Theorem | States |
|---|---|
| `TypeCorrect` | `Spec => []TypeOK` |
| `InductiveInvariant` | `Spec => []IInv` |
| `ReadyAgreementHolds` | honest READYs are for one root |
| `AgreementHolds` | honest parties return one value |
| `RecoverableHolds` | what was returned can be returned by the others |

None of the last three is inductive: a state in which two READYs for different
roots are one ECHO away satisfies `Agreement` and has a successor that does not.
`IInv` adds what the counters mean.  `EchoesGenuine` and `ReadiesGenuine`: what an
honest party holds from another is what that party broadcast.  `ReadySupported`:
behind an honest READY for r are N - F parties that echoed r or are faulty;
kept by the amplification at F + 1 because one of the F + 1 is honest.
`OutputSupported`: behind a returned value are 2F + 1 READYs.  Two sets of N - F
among N >= 3F + 1 share an honest party (lemma on cardinalities), which echoed
once: `ReadyAgreement`.  `Agreement` and `Recoverable` follow.  There is one lemma per
action, and `TypeOK` is part of `IInv`.

The second part is about raising and the refinement:

| Theorem | States |
|---|---|
| `ValidityHolds` | with an honest leader only its input is returned |
| `AbortsBlamedHolds` | a party raises over a stripe that is no leaf, or together with all that decode under a faulty leader |
| `ServiceInvariant` | `Spec => []ServiceInv` |
| `BroadcastImplements` | `Spec => ImplementsService` |

None of them has a premise on the stripes that ECHOs hold.  `LeaderInv` adds to `IInv`
that honest parties accept an honest leader's root only.  `ServiceInv` adds that a party
that raised is exposed or had 2F + 1 READYs for a root in `BadRoots`: then an
honest party sent one, and by `ReadyAgreement` no honest party sent READY for a message,
so that nobody returns one.  A party that decodes has N - 2F ECHOs of the root, all from
senders whose stripes are genuine if it is not exposed, so that decoding
succeeds if the root is a message's.  In the refinement an output is a `Deliver` or a `Fail` of
the service because the properties hold *after* the step, too (`OutputStep`).

The third part is about waiting:

| Theorem | States |
|---|---|
| `RestInvariant` | `Spec => []RestInv` |
| `NobodyLeftOutHolds` | when the messages of honest parties have been received, all have ended or, under a faulty leader, none |

`NobodyLeftOut` is the safety half of `Totality` and `Delivery`: those say that all
messages are received in the end, this one that then nothing is missing.
`RestInv` adds `Tallied` to `LeaderInv`: a handler acts on every threshold that the
messages it has counted can meet (READY at N - F ECHOs or F + 1 READYs, the return at
2F + 1 READYs and N - 2F ECHOs), in whatever order the last ones come; and who has
ended has sent READY and leaves 2F + 1 READYs behind.  A party that has not ended when all is
received would have F + 1 honest READYs for the root, hence every honest party has sent
one, and, because a READY rests on N - F ECHOs, N - 2F honest ECHOs: it could return.  (With `ClientMode` the leader
does not echo and the premise excludes it, finding 5.)

### `BinaryAgreementProofs`

From the assumptions of `BinaryAgreement` (finite `Proc`, N >= 3F + 1, at most F
faulty), for any number of rounds, any sets of inputs and any coin:

| Theorem | States |
|---|---|
| `AgreementInvariant`, `TypeCorrect` | `Spec => []IInv`, `Spec => []TypeOK` |
| `AgreementHolds` | decisions agree |
| `AgreementImplements` | `Spec => ImplementsAgreement`: a decision is made once, by a party with an input, is an honest input and that of all |
| `LockedHolds` | after a decision every later estimate is the decided bit |
| `SingleConfHolds` | no two different single bits in the CONF waits of a round |
| `ValidityHolds` | no bit but an honest party's input is accepted or decided |
| `BoundByConfsHolds` | once N - F parties may have sent the CONF of a round, at most one bit can still win it, whatever is counted twice |
| `NoStallHolds` | while nobody has quit or left the last round, an honest party can go on with the messages of honest parties alone |

Agreement spans rounds: a decision in round 1 excludes one for the other bit in round
5 because no estimate of the other bit lives until then.  An induction over the rounds
between them would be beyond the prover; the invariant avoids it by keeping the whole
history.  `Left(r)` is the set of bits with which a party may have left round r: a bit that
N - F parties may be seen to confirm alone (`Single`), or the coin's, if a party has
accepted both bits.  `Survived(v, r)` says that v is an honest input and in `Left(b)`
for all b < r, and `Carried` that this is so of every estimate and every EST sent.  A
decision for v in round r has `Single(r, v)` and the coin v; two quorums of N - F
meet in an honest party, so `Left(r) = {v}`, which every later estimate must have
passed.  Both sets only grow, since what is sent is not taken back
(`Grows`).  `BoundByConfs`: honest parties do not send CONFs for two different single bits, each of
which rests on the AUX of N - F parties, so there is a bit that none of them confirms
alone.  Those that still could are the ones without a CONF, which are too few when N - F
parties may have sent one.  `CoinBinding`
follows where each party is counted once per wait: the coin can be known only when a
party has ended its CONF wait (`CallersHeard`), and then more than F honest
parties have sent a CONF.  The corollary `CoinBindingIfCountedOnce` says so; the code
does not ensure its premise (finding 6).

For the refinement `Start` is `Propose` and `GetCoin` is `Decide` when it sets a decision;
all else stutters.  The decision is an honest input because it is carried (`Carried`),
and everybody's because it is so after the step; `InputGiven` adds that who takes part
has its input.

`NoStall` is proved from `SentInv`, which adds to `IInv` what each party has sent on its
way to where it is: ESTs, an AUX for a bit it has accepted, a CONF, and that F + 1 honest
parties stand behind each accepted bit.  Look at the honest parties in the lowest round r.  If one of
them waits for a bit, all honest parties have sent an EST of r, so that F + 1 have sent
the same bit v.  Either one of them has not yet, and can relay it, or all have, and it can be
accepted.  If all of them are in the AUX wait or further, each AUX is for a bit that
the waiting party can accept or has accepted, and so on for CONF and coin.  The parties in later rounds
help, because what they sent in r is still there.

### `CommonCoinProofs`

From the assumptions of `CommonCoin`, for any number of rounds: `TypeCorrect`,
`TaskSurvivesHolds`, `NotEarlyHolds`, `NobodyWaitsHolds`.  `SharesGenuine`: accepted shares are right, one
from each sender, and an honest sender has asked for the round.  `CoinsMade`: just who
has accepted F + 1 shares for a coin has it.  A coin is put when a share makes exactly F + 1,
so that the queue was empty and the coin never known before: `TaskSurvives`.  Senders are
an injective image of the shares: `NotEarly`.

`NobodyWaits` is the safety half of `EveryCoin`, for any number of rounds: when no honest party can
ask, take a coin or be given an honest share, all have had all coins.  A party that
waits in the lowest round anyone waits in is waiting for a coin that all honest parties
have asked for (`WaitsAsked`), so it has their shares, which are F + 1 or more, so it has
the coin.  That there is a lowest round is well-foundedness of the naturals.

### `CommonSubsetProofs`

From `FaultAssumption` (finite `Proc`, F < N, at most F faulty):

| Theorem | States |
|---|---|
| `SubsetInvariant` | `Spec => []IInv` |
| `RaisesBlamedHolds` | `commonsubset()` raises only where a broadcast in the subset did that returned at another honest party |
| `SameSubsetHolds` | the same places filled, N - F or more |
| `NobodyWaitsHolds` | when all that broadcasts and agreements promise has come, all have returned, or a broadcast is split |
| `SubsetImplements` | `Spec => ImplementsSubset`: `commonsubset()` implements `SubsetService` |

`RaisesBlamed` is not inductive.  `ZerosLate`: a 0 is voted by a party only when it
knows N - F ones; `OnesBacked`: a 1 only when it has the broadcast; `EndsAgreed`: a
decision is somebody's vote.  When all agreements of p have ended, either one of them is
0 - then its voter knew N - F ones, which p knows too by now (`EnoughGrows`) - or none
is: the assertion holds.  A broadcast in the subset was had by the voter of its 1, so if it
raises at p it is split, whoever leads it.

`NobodyWaits` is the safety half of `Terminates`.  Its invariant is `VotesGiven`: a party
has voted where it has the broadcast or the bit, and everywhere once it knows N - F ones.
When nothing more is to come and no broadcast is split, all broadcasts of honest parties
have returned at whoever
is still running, so the N - F honest agreements have all honest votes and have ended
at everybody.  If one of them said 0, a party knew N - F ones when it voted 0
(`ZerosLate`), which are known to all by now; if none did, these are N - F ones.  Either way everybody
has voted in all agreements, all of them end, and no broadcast in the subset is still
running.  Parties that have returned, and answer nothing more, are in the argument
through the votes they gave before.

For the refinement `Start` is `Join` and `Return` is `Return` (`ReturnIsService`); the
other actions stutter.  The places of a returned tuple are those of honest parties that
have begun (`PlacesJoined`): each was voted 1 by somebody that has the broadcast, and the
broadcast of an honest party returns only once that party has begun it
(`BroadcastsSent`).

### `AvssValueProcessorProofs`

From the assumptions of `AvssValueProcessor`, for any number of parties, arrivals, chunks,
subsets and reports:

| Theorem | States |
|---|---|
| `InvariantHolds`, `TypeCorrect` | `Spec => []IInv`, `Spec => []TypeOK` |
| `ResolvedHolds` | a future is resolved just if its value is here |
| `SameOrderHolds` | the queues of two honest parties are one a prefix of the other |
| `BackedHolds` | an agreed value is held by an honest party |
| `SameAgreedHolds` | equal counts after equally many subsets at parties that no assertion has stopped |
| `StopsBlamedHolds` | the assertion fails only where a faulty party took a report back, and then nobody gets past that subset |
| `EachOnceHolds` | each value of a dealer is in the queue once and in order, if `ChunkSize = 1` |

None of them is inductive, because two parties are compared that have processed a
different number of subsets.  The invariant says that there is a *ledger*: a function from
the number of subsets to the counts, next indices and queue, each entry computed from the
one before and the subset alone (`NextEntry`), and each honest party has the entry of the
number it has processed (`Follows`).  What has arrived where does not occur in it, and
that is the content of the lemmas: `_add_to_output_queue` puts in the queue the
positions of values whether they are here or not.  A queue is a prefix of those of later entries:
`SameOrder`.  A count is an order statistic of reports and `Supported` by T + 1
parties that have told it in some subset, one of them honest (`OrderStatistic`): `Backed`.

Nothing is assumed of what faulty parties report.  A party stopped by the assertion may
have updated some of the dealers; `Follows` lets it have the next entry's counts for
these.  `StopsBlamed` compares the two order statistics on both sides of the failing
subset: if no report were smaller than an earlier one of its sender, T + 1 parties
would still have told the old count, or be missing and counted with it.  Whether the
assertion fails can be read off the ledger, so that it fails for everybody who
gets to that subset.

`EachOnce` is about one queue and says how many values of the same dealer are before each
value.  Entries of the ledger are `InOrder`: that, and the next index of a dealer is the number
of its values in the queue.  The proof goes through the batches, and within a batch
through the dealers, by induction (`FlattenRuns`).  It has the premise `ChunkSize = 1`, the
default; finding 4 shows that it cannot be dropped.

### `HbAvssLightProofs`

From `SizeAssumption` (finite `Proc`, N >= 3T + 1, at most T faulty), for any dealings and
audience:

| Theorem | States |
|---|---|
| `SharingInvariant` | `Spec => []IInv` |
| `KeysKeptHolds` | no honest party shows its key under an honest dealer |
| `SharedHolds` | T + 1 honest parties have their shares, and all are right but for a faulty dealer's of a higher degree |
| `SharesDeliveredHolds` | under an honest dealer everybody at which the broadcast returned has output its share when honest OKs have been taken, or is starved |

`IInv` has two parts besides types: `SentTells`, that OK and RECOVERY come from parties
with a valid share and IMPLICATE from those with a bad blob, and `OksValid`, that an
honest member of anyone's `ok_set` has a valid share, although invalid IMPLICATEs and
RECOVERYs that do not decrypt are counted as OKs.  The second needs the first: such a
message never comes from an honest party without a share.  All receiving actions are
brought to one form, the head of the loop on sets that are `Sound`, so that the head
is treated once (`HeadInv`, `HeadShared`).

`SharesDelivered` is the safety half of `Delivery`.  The share is output when `ok_set`
has *exactly* 2T + 1 members (line 122 is an equality), so that a message that added two
members, or an end of the loop on T + 1 implicates, would lose it.  `Undisturbed`: only
faulty parties implicate an honest dealer, so `implicate_set` stays below T + 1; every
honest party that has the broadcast has a valid share and has said OK; and no set of
OKs has reached 2T + 1 without an output.  The OKs of honest parties are 2T + 1 or more,
unless the broadcast raised at some of them.

### `PowerMixingProofs`: the opening

From the four assumptions of `BatchReconstruction`, for any number of parties with N
>= 3T + 1, any batch, and any lies:

| Theorem | States |
|---|---|
| `OpeningInvariant` | `OpenSpec => []OpenInv` |
| `OpeningImplements` | `OpenSpec => ImplementsReconstruction` |

`OpenInv` says of each decoder (`DecoderOK`) that what it holds from senders other than
the at most T possibly wrong ones is right, that confirmed errors are of wrong senders, that
a guess agrees with all that is there, and that polynomials decoded so far are the right
ones.  The heart is that a word found by the robust decoder is right: it
agrees with 2T + 1 - c of the available values, c being the number of confirmed
errors, of which at most T - c are wrong; so T + 1 right values determine it.  The same
count shows that a decoder that has taken all N messages is never left without a result,
hence no `None`, and that a party that enters R2 has heard T + 1 parties, hence nobody
has the secret before as many have called.

### `PowerMixingProofs`: files, arithmetic, composition

From the assumptions of `PowerSums`, `BatchReconstruction` and `PowerMixing`, for any
number of nodes, messages and workers, any modulus and input and any processes that fail:

| Theorem | States |
|---|---|
| `FilesInvariant`, `NoLostUpdateHolds` | `FilesSpec => []FilesInv`, no update of a file is lost |
| `MixingInvariant` | `Spec => []MixingInv` |
| `MixingKeepsUpdates` | no update is lost in the composed system |
| `MixingImplements` | its opening implements `Reconstruction` |
| `RightMessagesHold` | what a node returns are the messages, sorted; no opening returns `None` |

*Files.*  The invariant adds that a process that has the file open holds the lock
(`LockHeld`), so that there is one writer at a time, and what a process has in memory
while it writes: what the finished processes of its file have contributed, and its own
(`OwnSums`).

*Arithmetic.*  The functions of `FieldPoly` that evaluate, add and raise to a power are
recursive; `Recursion` and `Induction`, stated for sets because the provers do not
instantiate operators, show what they compute.  `SharedAs(s, v)` says that the
numbers s of all nodes are the values of a polynomial of degree T with v at zero.  Sums,
multiples and differences of shares are shares of the same with the secrets
(`Combine`, `SumsShared`, `ValuesShared`).  `compute-power-sums.cpp` gets the powers of a
from those of b and a - b in diagonals of a triangle; `DiagonalStep` and `PowersShared`
show that each entry is a share of what the triangle is of the secrets, by
induction over diagonals.  So the numbers in a file are shares of power sums, the words
of an opening are code words whose coefficients are the chunks of the sums
(`RightWordsAre`), and `Flatten` puts these together (`FlattenIs`).

*Composition.*  `MixingInv` joins `FilesInv`, `OpenInv` of the opening, and what ties the phases
together: the words are `RightWords` of the input, nobody opens before the processes have
ended, a node with a failed process is among the `misled`, and a result is the
solution of the sums that were opened.  A node that has processes that have not failed
reads what `NoLostUpdate` says is in its file, which is why an opening starts from right
shares.  The lemmas of the opening are used step by step as they are.

That interpolation finds the polynomial and that Newton's identities with a
factorization give the messages are `PolynomialAssumption` and `SolverAssumption`: the
proof takes them as premises, `native` compares the functions with definitions
without algorithms, and TLC evaluates both for the constants of `power_mixing`.

### `NativeCallsProofs`

From `ThresholdAssumption`, `ThreadsAssumption` and `CallsAssumption` (the arguments of
the batch functions are lists, the number given to `SetNumThreads` is one of a thread), for any set of
calls, any moduli, roots, thresholds and numbers of threads:

| Theorem | States |
|---|---|
| `CacheInvariant` | `NativeSpec => []CacheInv` |
| `MatrixLiveHolds` | the matrix that a thread refers to stays the one of its root |
| `ResultInvariant`, `HistoryFreeHolds` | a call gives what it gives as the first one of a process |

`CacheInv` says that all matrices in the cache are those of their size and root modulo the cache's
modulus (`Right`), that a region belongs to the call being served (`OneCall`), and that
each of its threads has the region's modulus once it has begun, and the matrix of its
item in the cache (`ThreadsReady`).  The last part is what keeps threads from emptying
the cache under each other: `get_fft_vandermonde_matrix` clears it only for another
modulus than the cache's, and all threads of a region have the same.

`HistoryFree` compares the value that a function with the cache returns with
`FirstOutcome`, the same call answered with an empty cache and without threads.  For the functions without a region that is `Right`: a
matrix from the cache is one freshly computed.  For a batch, `RegionRight` says of
every item that it has the result of a transform of its own (`Alone`) or is still in
some thread's share, so that nothing is left out or done twice with another outcome.

### Only model-checked

* Liveness (`Totality`, both `Delivery`, `EveryCoin`, `Terminates`, `Finishes`) is out of
  the prover's reach.  What is proved, of all but `Finishes`, is the half that is about
  states: `NobodyLeftOut`, both `NobodyWaits`, `SharesDelivered`; and `NoStall` of the
  binary agreement.  That messages arrive (the fairness) stays with TLC.
* What the native functions compute (`EvaluatesRight`, `InterpolatesRight`, `GaoExact`,
  `SolverExact`): these compare recursive functions on polynomials, the transform, the
  Euclidean algorithm, Newton's identities, with definitions; that they agree for
  all inputs is an induction over data.

## 5. Not modelled

* Malformed messages: bytes that do not deserialize, tuples of a wrong shape.
* Byte-level padding of stripes (`reliablebroadcast.py:36`).
* A repeated EST, AUX or CONF (`RedundantMessageError`).
* Of verifiable secret sharing: `HbAvssBatch` and AVID, `client_mode`.
* Of batch reconstruction: cancellation, induced faults, degree 2t, confirmed errors and
  validators passed in, the Welch-Berlekamp decoder, the choice of encoders.
* Of the native module: Cython's parsing of arguments, NTL itself.
* Of power mixing: stale files of an earlier run, the stand-alone `main` of the solver,
  phase 1 beyond what it writes.
* The other components of the inventory; `PROJECT.json` gives the
  reason for each, and the plan has those that are to come.
* Algebra and cryptography: abstracted to what they promise.

## 6. Plan

Done: `ReliableBroadcast` with `BroadcastService`, `BinaryAgreement`, `CommonCoin`,
`CommonSubset`, `HbAvssLight`, `AvssValueProcessor`; the native arithmetic, `PowerSums`,
`BatchReconstruction` with `Reconstruction`, `PowerMixing`; proofs of the safety
properties of all of these.  Next:

1. `Avid`: dispersal and retrieval, with requests that come early; on it `HbAvssBatch`,
   which recovers shares in two rounds.
2. The `_recvloop` of `Mpc` on top of `BatchReconstruction`, with cancellation.
3. `AsynchroMix`: the contract (`propose_output`, `initiate_mix`,
   `reserve_inputmask`) with clients and server loops.
4. `Preprocessing` counts, `TaskPool`, `NodeCommunicator` shutdown.
5. Repeated messages in `BinaryAgreement`.
