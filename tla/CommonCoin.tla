---------------------------- MODULE CommonCoin ----------------------------
(***************************************************************************)
(* shared_coin() (broadcast/commoncoin.py) at all honest parties: the      *)
(* receive task that collects signature shares, and get_coin.  A party     *)
(* asks for the coins of rounds 0, 1, ... one after the other, as          *)
(* binaryagreement does.  Of the signature scheme only two facts are kept: *)
(* F + 1 right shares of a round combine to the one signature of that      *)
(* round, whose hash is the coin, and a set with a wrong share in it       *)
(* combines to no signature.                                               *)
(***************************************************************************)
EXTENDS Integers, FiniteSets

CONSTANTS
    Proc, F,
    Faulty,        \* the parties that do not run the code
    MaxRound       \* last round modelled

Rounds == 0 .. MaxRound
Honest == Proc \ Faulty
Share  == Proc \X {"right", "wrong"}   \* a share and who sent it

ASSUME FaultAssumption ==
    /\ IsFiniteSet(Proc)
    /\ F \in Nat /\ Cardinality(Proc) >= 3 * F + 1
    /\ Faulty \subseteq Proc /\ Cardinality(Faulty) <= F
ASSUME RoundAssumption == MaxRound \in Nat

VARIABLES
    next,          \* the round p will ask for next
    waiting,       \* p waits in get_coin(next[p] - 1)
    received,      \* received[p][r]: the shares p has accepted for round r
    output_queue,  \* output_queue[p][r]: how many coins are in the queue
    recv_task      \* "running", or "dead" after an exception

vars == <<next, waiting, received, output_queue, recv_task>>

Init ==
    /\ next = [p \in Honest |-> 0]
    /\ waiting = [p \in Honest |-> FALSE]
    /\ received = [p \in Honest |-> [r \in Rounds |-> {}]]
    /\ output_queue = [p \in Honest |-> [r \in Rounds |-> 0]]
    /\ recv_task = [p \in Honest |-> "running"]

\* verify_share.
Accepts(share) == share[2] = "right"

\* Mutants: the coin is put again with every further share; one share fewer
\* is enough; only the shares of all parties are enough.
CombinesAgain(shares) == Cardinality(shares) >= F + 1
CombinesEarly(shares) == Cardinality(shares) = F
CombinesAll(shares) == shares # {} /\ Cardinality(shares) = Cardinality(Proc)

\* The number of accepted shares on which they are combined.
Combines(shares) == Cardinality(shares) = F + 1

\* verify_signature of the combined shares, then put_nowait on a queue of
\* capacity 1: either raises in the receive task.
PutCoin(p, r, shares) ==
    IF (\A s \in shares : s[2] = "right") /\ output_queue[p][r] = 0
    THEN /\ output_queue' = [output_queue EXCEPT ![p][r] = 1]
         /\ UNCHANGED recv_task
    ELSE /\ recv_task' = [recv_task EXCEPT ![p] = "dead"]
         /\ UNCHANGED output_queue

-----------------------------------------------------------------------------
\* get_coin: broadcast the share of the round, then wait for its queue.
GetCoin(p) ==
    /\ ~waiting[p]
    /\ next[p] \in Rounds
    /\ next' = [next EXCEPT ![p] = @ + 1]
    /\ waiting' = [waiting EXCEPT ![p] = TRUE]
    /\ UNCHANGED <<received, output_queue, recv_task>>

\* An honest party signs the round it asks for; a faulty one sends anything.
Sent(r) == {s \in Share :
              IF s[1] \in Faulty THEN TRUE
                                 ELSE next[s[1]] > r /\ s[2] = "right"}

\* The receive task takes a share of round r, the first it accepts from its
\* sender.  (A redundant or a rejected one changes nothing.)
RecvShare(p, r, share) ==
    /\ recv_task[p] = "running"
    /\ share \in Sent(r)
    /\ \A s \in received[p][r] : s[1] # share[1]
    /\ Accepts(share)
    /\ LET shares == received[p][r] \cup {share}
       IN  /\ received' = [received EXCEPT ![p][r] = shares]
           /\ IF Combines(shares) THEN PutCoin(p, r, shares)
                                  ELSE UNCHANGED <<output_queue, recv_task>>
    /\ UNCHANGED <<next, waiting>>

\* get_coin returns.
TakeCoin(p) ==
    LET r == next[p] - 1
    IN  /\ waiting[p]
        /\ output_queue[p][r] = 1
        /\ output_queue' = [output_queue EXCEPT ![p][r] = @ - 1]
        /\ waiting' = [waiting EXCEPT ![p] = FALSE]
        /\ UNCHANGED <<next, received, recv_task>>

Next ==
    \E p \in Honest :
        \/ GetCoin(p)
        \/ \E r \in Rounds, share \in Share : RecvShare(p, r, share)
        \/ TakeCoin(p)

Spec == Init /\ [][Next]_vars

\* A party goes on asking, its tasks run, and shares of honest parties arrive.
Fairness ==
    \A p \in Honest :
        /\ WF_vars(GetCoin(p))
        /\ WF_vars(\E r \in Rounds, q \in Honest :
                      RecvShare(p, r, <<q, "right">>))
        /\ WF_vars(TakeCoin(p))

FairSpec == Spec /\ Fairness

-----------------------------------------------------------------------------
TypeOK ==
    /\ next \in [Honest -> 0 .. MaxRound + 1]
    /\ waiting \in [Honest -> BOOLEAN]
    /\ received \in [Honest -> [Rounds -> SUBSET Share]]
    /\ output_queue \in [Honest -> [Rounds -> 0 .. 1]]
    /\ recv_task \in [Honest -> {"running", "dead"}]

\* p has the coin of round r, in its queue or taken from it.
Known(p, r) ==
    \/ output_queue[p][r] = 1
    \/ next[p] > r + 1
    \/ next[p] = r + 1 /\ ~waiting[p]

\* NotEarly: nobody has the coin of a round before an honest party asked for
\* it, whatever shares the faulty parties have sent ahead of time ("f+1
\* shares needed to get the coin").
NotEarly ==
    \A p \in Honest, r \in Rounds :
        Known(p, r) =>
            Cardinality({q \in Honest : next[q] > r}) + Cardinality(Faulty)
                >= F + 1

\* TaskSurvives: no message of a faulty party makes the receive task raise,
\* neither when shares are combined nor when the coin is put in its queue.
TaskSurvives == \A p \in Honest : recv_task[p] = "running"

\* AtRest: nobody has a round to ask for, a coin to take or a share of an
\* honest party to accept.
AtRest ==
    \A p \in Honest :
        /\ ~waiting[p] => next[p] \notin Rounds
        /\ waiting[p] => output_queue[p][next[p] - 1] # 1
        /\ recv_task[p] = "running" =>
              \A q \in Honest, r \in Rounds :
                  next[q] > r => \E s \in received[p][r] : s[1] = q

\* NobodyWaits: no party is left in get_coin, for a share that another would
\* send in a later round or for a coin that was made before it asked.
NobodyWaits ==
    AtRest => \A p \in Honest : next[p] = MaxRound + 1 /\ ~waiting[p]

\* Each party gets the coins of all rounds, though faulty parties send no or
\* wrong shares and each party goes at its own pace.
EveryCoin == \A p \in Honest : <>(next[p] = MaxRound + 1 /\ ~waiting[p])
=============================================================================
