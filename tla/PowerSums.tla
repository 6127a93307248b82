----------------------------- MODULE PowerSums -----------------------------
(***************************************************************************)
(* Phase 2 of AsynchroMix power mixing: processes of compute-power-sums,   *)
(* one for each node and each secret, started through a TaskPool.  The     *)
(* processes of a node add their powers into one file, line by line, under *)
(* a lock that all of them share.                                          *)
(*                                                                         *)
(* The content of a line is a formal sum: how often the powers of each job *)
(* have gone into it.  The files named in the command lines are one for    *)
(* each node.                                                              *)
(***************************************************************************)
EXTENDS Integers, FiniteSets

CONSTANTS
    Job,       \* the processes
    File, FileOf,  \* the files of sums, and the file of each job
    Turn,      \* the position of each job in the queue of the pool
    Workers,   \* the number of workers of the pool; 256 in the code
    K,         \* powers of each secret; k in the code
    MayFail,   \* the jobs that may fail to get the lock
    Nil

Lines == 1 .. K

\* Formal sums: functions from the jobs that occur to how often they do.
Sums == UNION {[S -> Nat] : S \in SUBSET Job}

ASSUME JobAssumption == /\ IsFiniteSet(Job)
                        /\ Nil \notin Job /\ \A S \in SUBSET Job : Nil \notin [S -> Nat]
                        /\ FileOf \in [Job -> File] /\ Turn \in [Job -> Nat]
                        /\ MayFail \subseteq Job
ASSUME LineAssumption == K \in Nat /\ Workers \in Nat

VARIABLES
    pc,      \* pc[q]: where process q is
    lock,    \* the process that holds the lock on lock.file, or Nil
    file,    \* file[f]: whether the file exists, has its header, and its sums
    apows,   \* apows[q][i]: the i-th sum of process q
    line     \* line[q]: the line q writes next, 0 for the two of the header
             \* (of a process that has ended both are as before it started)

filesVars == <<pc, lock, file, apows, line>>

\* Each job of S once.
SumOf(S)   == [j \in S |-> 1]
Times(a, j) == IF j \in DOMAIN a THEN a[j] ELSE 0
Plus(a, b) == [j \in DOMAIN a \cup DOMAIN b |-> Times(a, j) + Times(b, j)]

NoFile    == [exists |-> FALSE, head |-> FALSE, sums |-> [i \in Lines |-> Nil]]
OwnPowers(q) == [i \in Lines |-> SumOf({q})]
EmptyFile == [exists |-> TRUE,  head |-> FALSE, sums |-> [i \in Lines |-> Nil]]
Whole(f)  == file[f].head /\ \A i \in Lines : file[f].sums[i] # Nil

Ended(q)   == pc[q] \in {"done", "failed"}
AllEnded   == \A q \in Job : Ended(q)
Running    == {q \in Job : pc[q] # "queued" /\ ~Ended(q)}
Contributed(f) == {q \in Job : FileOf[q] = f /\ pc[q] = "done"}
Writing(f) == {q \in Job : FileOf[q] = f /\ pc[q] = "writing"}

FilesInit == /\ pc    = [q \in Job |-> "queued"]
             /\ lock  = Nil
             /\ file  = [f \in File |-> NoFile]
             /\ apows = [q \in Job |-> OwnPowers(q)]
             /\ line  = [q \in Job |-> 0]

\* A free worker takes the first job of the queue and starts the process, which
\* reads its input and computes its powers.
StartJob(q) == /\ pc[q] = "queued"
               /\ \A r \in Job : Turn[r] < Turn[q] => pc[r] # "queued"
               /\ Cardinality(Running) < Workers
               /\ pc' = [pc EXCEPT ![q] = "running"]
               /\ UNCHANGED <<lock, file, apows, line>>

\* mutant: a process that finds the lock taken goes on
AcquireLockAnyway(q) == /\ pc[q] = "running"
                        /\ lock' = q
                        /\ pc' = [pc EXCEPT ![q] = "locked"]
                        /\ UNCHANGED <<file, apows, line>>

\* F_SETLKW: waits until the lock is free.
AcquireLock(q) == /\ pc[q] = "running"
                  /\ lock = Nil
                  /\ lock' = q
                  /\ pc' = [pc EXCEPT ![q] = "locked"]
                  /\ UNCHANGED <<file, apows, line>>

\* fopen or fcntl fails: exit(1), which nobody looks at.
FailToLock(q) == /\ pc[q] = "running"
                 /\ q \in MayFail
                 /\ pc' = [pc EXCEPT ![q] = "failed"]
                 /\ UNCHANGED <<lock, file, apows, line>>

\* Opens the file of sums.  One that exists is read and its sums are added; if it is
\* not whole the process aborts.  One that does not exist is created, empty.
OpenSums(q) ==
    /\ pc[q] = "locked"
    /\ LET f == FileOf[q] IN
       IF ~file[f].exists
       THEN /\ file' = [file EXCEPT ![f] = EmptyFile]
            /\ pc' = [pc EXCEPT ![q] = "writing"]
            /\ UNCHANGED <<lock, apows>>
       ELSE IF Whole(f)
       THEN /\ apows' = [apows EXCEPT ![q] = [i \in Lines |-> Plus(@[i], file[f].sums[i])]]
            /\ pc' = [pc EXCEPT ![q] = "writing"]
            /\ UNCHANGED <<lock, file>>
       ELSE /\ pc' = [pc EXCEPT ![q] = "failed"]
            /\ lock' = Nil
            /\ UNCHANGED <<file, apows>>
    /\ UNCHANGED line

\* One line in its place; endl flushes it, so that others could see it at once.
WriteLine(q) ==
    /\ pc[q] = "writing" /\ line[q] <= K
    /\ file' = [file EXCEPT ![FileOf[q]] =
                  IF line[q] = 0 THEN [@ EXCEPT !.head = TRUE]
                                 ELSE [@ EXCEPT !.sums[line[q]] = apows[q][line[q]]]]
    /\ line' = [line EXCEPT ![q] = @ + 1]
    /\ UNCHANGED <<pc, lock, apows>>

\* fclose of the lock file, which is what frees the lock: fcntl(fd, F_UNLCK, ...)
\* before it does not: as a command of fcntl, F_UNLCK is the number of F_SETFD.
CloseSums(q) == /\ pc[q] = "writing" /\ line[q] > K
                /\ pc' = [pc EXCEPT ![q] = "done"]
                /\ lock' = Nil
                /\ apows' = [apows EXCEPT ![q] = OwnPowers(q)]
                /\ line' = [line EXCEPT ![q] = 0]
                /\ UNCHANGED file

JobStep(q) == \/ StartJob(q) \/ AcquireLock(q) \/ FailToLock(q)
              \/ OpenSums(q) \/ WriteLine(q) \/ CloseSums(q)

FilesNext == \E q \in Job : JobStep(q)

FilesSpec == FilesInit /\ [][FilesNext]_filesVars

----------------------------------------------------------------------------
FilesTypeOK ==
    /\ pc \in [Job -> {"queued", "running", "locked", "writing", "done", "failed"}]
    /\ lock \in Job \cup {Nil}
    /\ file \in [File -> [exists : BOOLEAN, head : BOOLEAN, sums : [Lines -> Sums \cup {Nil}]]]
    /\ apows \in [Job -> [Lines -> Sums]]
    /\ line \in [Job -> 0 .. K + 1]

\* Whoever has the file open holds the lock.
LockHeld == \A q \in Job : pc[q] \in {"locked", "writing"} <=> lock = q

(***************************************************************************)
(* No update is lost, on any line and at any moment: a file holds the      *)
(* powers of each job that is done exactly once, of a failed one not at    *)
(* all, and of the job that is writing on the lines it has written.  A     *)
(* file that nobody writes is whole, or does not exist yet.                *)
(***************************************************************************)
LineIs(f, i, S) == file[f].sums[i] = IF S = {} THEN Nil ELSE SumOf(S)

NoLostUpdate ==
    \A f \in File :
        /\ Writing(f) = {} =>
              /\ file[f].exists <=> Contributed(f) # {}
              /\ file[f].head <=> Contributed(f) # {}
              /\ \A i \in Lines : LineIs(f, i, Contributed(f))
        /\ \A q \in Writing(f) :
              /\ file[f].exists
              /\ file[f].head <=> line[q] > 0 \/ Contributed(f) # {}
              /\ \A i \in Lines : LineIs(f, i, IF i < line[q] THEN Contributed(f) \cup {q}
                                                              ELSE Contributed(f))

\* What q writes, and what it has before it opens the file.
OwnSums ==
    \A q \in Job :
        /\ pc[q] # "writing" => line[q] = 0 /\ apows[q] = OwnPowers(q)
        /\ pc[q] = "writing" =>
              apows[q] = [i \in Lines |-> SumOf(Contributed(FileOf[q]) \cup {q})]

FilesInv == FilesTypeOK /\ LockHeld /\ NoLostUpdate /\ OwnSums
=============================================================================
