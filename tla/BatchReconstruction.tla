------------------------ MODULE BatchReconstruction ------------------------
(***************************************************************************)
(* batch_reconstruct and the IncrementalDecoder of reed_solomon.py: the    *)
(* parties open a batch of secrets together, in two rounds of messages of  *)
(* which up to T are wrong.                                                *)
(*                                                                         *)
(* The values of one polynomial at the points of all parties are a word of *)
(* Code.  In round R1 party p receives from each q the value at q of the   *)
(* polynomials words.r1[p]; the values at zero of what it decodes are its  *)
(* message of round R2, one value of each of the polynomials words.r2,     *)
(* whose coefficients are the secrets.                                     *)
(***************************************************************************)
EXTENDS Integers, Sequences, FiniteSets

CONSTANTS
    Proc,
    T,        \* faults tolerated
    Chunks,   \* polynomials in the batch
    Value,
    Code,     \* the words of the polynomials of this degree
    AtZero,   \* AtZero[c]: the value at zero of the polynomial of c
    Lies,     \* what a faulty party may send besides the right values
    Short,    \* a message with the wrong number of values
    None, Raised, Failed

\* The degree of the polynomials.  A caller may ask for another than t, but the robust
\* decoder is made for t in any case.
Degree  == T

Chunk   == 1 .. Chunks
Message == [Chunk -> Value]
N       == Cardinality(Proc)

ASSUME PartiesAssumption == /\ IsFiniteSet(Proc)
                            /\ T \in Nat /\ Chunks \in Nat \ {0}
                            /\ N >= 3 * T + 1
                            /\ Lies \subseteq Message \cup {Short}

Same(c, d) == {q \in Proc : c[q] = d[q]}

\* Polynomials of this degree that agree at more points are equal, and there is one
\* through any Degree + 1 values.
ASSUME CodeAssumption == /\ Code \subseteq [Proc -> Value]
                         /\ AtZero \in [Code -> Value]
                         /\ \A c, d \in Code : Cardinality(Same(c, d)) > Degree => c = d
ASSUME InterpolationAssumption ==
    \A S \in SUBSET Proc : Cardinality(S) = Degree + 1 =>
        \A v \in [S -> Value] : \E c \in Code : \A q \in S : c[q] = v[q]
ASSUME OutcomeAssumption ==
    /\ None \notin Message /\ Short \notin Message /\ None \notin [Proc -> Message]
    /\ None \notin Code
    /\ None \notin [Chunk -> Code] /\ Raised \notin [Chunk -> Code] /\ Failed \notin [Chunk -> Code]
    /\ None # Raised /\ None # Failed /\ Raised # Failed

VARIABLES
    stage,    \* stage[p]: "idle", the round "R1" or "R2" that p is in, or "end"
    first,    \* first[q][p]: the message of round R1 from q to p
    second,   \* second[q]: the message of round R2 that q has sent to everyone
    dec,      \* dec[p]: the IncrementalDecoder of the round
    opened,   \* opened[p]: the result, Raised for an exception, Failed for None
    faulty,   \* parties that send anything
    misled,   \* parties that follow the code on shares that may be wrong
    words     \* the words that the right shares define

openVars == <<stage, first, second, dec, opened, faulty, misled, words>>

Honest == Proc \ faulty

Words == {w \in [r1 : [Proc -> [Chunk -> Code]], r2 : [Chunk -> Code]] :
              \A p \in Proc, b \in Chunk : w.r2[b][p] = AtZero[w.r1[p][b]]}

----------------------------------------------------------------------------
(* The decoder.  z and the available data are kept by sender: which come   *)
(* first in the code's lists makes no difference.                          *)
Fresh == [avail      |-> {},       \* _available_points
          confirmed  |-> {},       \* _confirmed_errors
          data       |-> [q \in Proc |-> None],
          optimistic |-> TRUE,
          guess      |-> None,     \* _guess_decoded
          decoded    |-> <<>>,     \* _partial_result
          updating   |-> FALSE,    \* inside the loop of _robust_update
          result     |-> None]

\* mutant: the errors to be expected are not counted in
MinPointsBare(d) == Degree + 1
\* mutant: one point more, as for a comparison with >
MinPointsMore(d) == Degree + 2 + T - Cardinality(d.confirmed)
MinPoints(d) == Degree + 1 + T - Cardinality(d.confirmed)
Enough(d)    == Cardinality(d.avail) >= MinPoints(d)

Interpolant(d, b) == CHOOSE c \in Code : \A q \in d.avail : c[q] = d.data[q][b]
Errors(d, b, c)   == {q \in d.avail : c[q] # d.data[q][b]}

\* add(q, m): the first Degree + 1 values give a guess; the next ones confirm it, or
\* refute it once and for all.
Confirmed(d) == [d EXCEPT !.result = IF Enough(d) THEN d.guess ELSE None]

Added(d, q, m) ==
    LET a == [d EXCEPT !.avail = @ \cup {q}, !.data[q] = m] IN
    CASE Cardinality(a.avail) <= Degree -> a
      [] a.optimistic /\ Cardinality(a.avail) = Degree + 1 ->
            Confirmed([a EXCEPT !.guess = [b \in Chunk |-> Interpolant(a, b)]])
      [] a.optimistic /\ Cardinality(a.avail) > Degree + 1 /\ (\A b \in Chunk : m[b] = a.guess[b][q]) ->
            Confirmed(a)
      [] OTHER -> [a EXCEPT !.optimistic = FALSE, !.guess = None, !.updating = Enough(a)]

\* What the robust decoder may find for polynomial b (NtlHelpers, GaoPromise): the one
\* word that is near; beyond that nothing, or one of the words just outside.
Near(d, b, c) == 2 * Cardinality(Errors(d, b, c)) <= Cardinality(d.avail) - Degree - 1
RobustDecode(d, b) ==
    LET near == {c \in Code : Near(d, b, c)}
    IN  IF near # {} THEN near
        ELSE {None} \cup {c \in Code : 2 * Cardinality(Errors(d, b, c)) = Cardinality(d.avail) - Degree}

\* One turn of the loop of _robust_update, the decoder having returned c.
Updated(d, c) ==
    LET b == Len(d.decoded) + 1
        errors == Errors(d, b, c)
        e == [d EXCEPT !.decoded   = Append(@, c),
                       !.confirmed = @ \cup errors,
                       !.avail     = @ \ errors]
    IN  IF c = None \/ Cardinality(d.avail) - Cardinality(errors) < MinPoints(d)
        THEN [d EXCEPT !.updating = FALSE]
        ELSE IF b < Chunks THEN e
        ELSE [e EXCEPT !.updating = FALSE, !.result = e.decoded]

----------------------------------------------------------------------------
OpenStart == /\ stage  = [p \in Proc |-> "idle"]
             /\ first  = [p \in Proc |-> None]
             /\ second = [p \in Proc |-> None]
             /\ dec    = [p \in Proc |-> Fresh]
             /\ opened = [p \in Proc |-> None]

\* p calls batch_reconstruct and sends its values enc[r] to each r.
Begin(p, enc) == /\ stage[p] = "idle"
                 /\ first' = [first EXCEPT ![p] = enc]
                 /\ stage' = [stage EXCEPT ![p] = "R1"]
                 /\ UNCHANGED <<second, dec, opened, faulty, misled, words>>

End(p, outcome) == /\ opened' = [opened EXCEPT ![p] = outcome]
                   /\ stage' = [stage EXCEPT ![p] = "end"]
                   /\ dec' = [dec EXCEPT ![p] = Fresh]
                   /\ UNCHANGED second

\* Every sender's message has been taken.
Exhausted(d) == d.avail \cup d.confirmed = Proc

\* p goes on with the decoder d: waits for the next message, goes to the next round or
\* returns.
GoOn(p, d) ==
    IF d.result = None
    THEN IF Exhausted(d) /\ ~d.updating THEN End(p, Failed)
         ELSE dec' = [dec EXCEPT ![p] = d] /\ UNCHANGED <<stage, second, opened>>
    ELSE IF stage[p] = "R2" THEN End(p, d.result)
    ELSE /\ second' = [second EXCEPT ![p] = [b \in Chunk |-> AtZero[d.result[b]]]]
         /\ stage' = [stage EXCEPT ![p] = "R2"]
         /\ dec' = [dec EXCEPT ![p] = Fresh]
         /\ UNCHANGED opened

\* The word of the current round, and what may come from q.
Word(p) == IF stage[p] = "R1" THEN words.r1[p] ELSE words.r2

Incoming(p, q) ==
    CASE q \in faulty -> Lies \cup {[b \in Chunk |-> Word(p)[b][q]]}
      [] q \notin faulty /\ stage[p] = "R1" -> IF first[q] = None THEN {} ELSE {first[q][p]}
      [] q \notin faulty /\ stage[p] # "R1" -> {second[q]} \ {None}

\* The first message of the round from q; one of the wrong length raises.
Recv(p, q) ==
    /\ stage[p] \in {"R1", "R2"} /\ ~dec[p].updating
    /\ q \notin dec[p].avail \cup dec[p].confirmed
    /\ \E m \in Incoming(p, q) : IF m = Short THEN End(p, Raised)
                                 ELSE \E d \in {Added(dec[p], q, m)} : GoOn(p, d)
    /\ UNCHANGED <<first, faulty, misled, words>>

RobustUpdate(p) ==
    /\ stage[p] \in {"R1", "R2"} /\ dec[p].updating
    /\ \E c \in RobustDecode(dec[p], Len(dec[p].decoded) + 1) :
            \E d \in {Updated(dec[p], c)} : GoOn(p, d)
    /\ UNCHANGED <<first, faulty, misled, words>>

----------------------------------------------------------------------------
(* The opening by itself: right shares at all but T parties. *)
RightFirst(q) == [p \in Proc |-> [b \in Chunk |-> words.r1[p][b][q]]]

OpenInit == /\ OpenStart
            /\ words \in Words
            /\ faulty \in SUBSET Proc /\ misled \in SUBSET Proc
            /\ Cardinality(faulty \cup misled) <= T

Call(p) == \E enc \in [Proc -> Message] : (p \notin misled => enc = RightFirst(p)) /\ Begin(p, enc)

OpenNext == \E p \in Honest : Call(p) \/ RobustUpdate(p) \/ \E q \in Proc : Recv(p, q)

OpenSpec == OpenInit /\ [][OpenNext]_openVars

----------------------------------------------------------------------------
Rec == INSTANCE Reconstruction WITH
           secret <- words.r2, called <- {p \in Proc : first[p] # None}

(***************************************************************************)
(* Two rounds of messages with lies in them implement the opening without  *)
(* messages: nobody gets anything but the secrets, nobody gets them before *)
(* Degree + 1 parties that follow the code have called open, and no call   *)
(* returns None.                                                           *)
(***************************************************************************)
ImplementsReconstruction == Rec!Spec
=============================================================================
