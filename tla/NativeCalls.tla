---------------------------- MODULE NativeCalls ----------------------------
(***************************************************************************)
(* A Python process with both native libraries loaded: NtlHelpers, and the *)
(* solver, which keeps no state.                                           *)
(***************************************************************************)
EXTENDS NtlHelpers, Solver

\* buffers[i] is Garbage for a NULL pointer.
Solve == \E c \in Idle("solve") : AnswerAtOnce(c, Value(SolveStrings(c.prime, c.sums, c.buffers)))

NativeNext == Next \/ Solve

NativeSpec == Init /\ [][NativeNext]_vars /\ WF_vars(RegionStep \/ BatchResult)

(***************************************************************************)
(* The solver is exact: it returns messages exactly when some have the     *)
(* given power sums, then the only ones, in ascending order; and it says   *)
(* INVALID for sums that no messages have.  Only lengths it does not       *)
(* support, garbage and a prime that Newton's identities cannot divide     *)
(* by are input errors.                                                    *)
(***************************************************************************)
SolverExact ==
    result # None /\ call.fn = "solve" =>
        LET r == result.v IN
        IF Garbage \in {call.prime} \cup {call.sums[i] : i \in DOMAIN call.sums}
                                    \cup {call.buffers[i] : i \in DOMAIN call.buffers}
           \/ Len(call.sums) \notin 2 .. MaxSums \/ call.prime <= Len(call.sums)
        THEN r.ret = RET_INPUT_ERROR
        ELSE IF Solutions(call.sums, call.prime) = {} THEN r.ret = RET_INVALID
        ELSE r.ret = 0 /\ {r.messages} = Solutions(call.sums, call.prime)
=============================================================================
