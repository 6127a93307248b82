---------------------------- MODULE HbAvssLight ----------------------------
(***************************************************************************)
(* HbAvssLight.avss and _process_avss_msg (hbavss.py): one sharing by one  *)
(* dealer, at all honest parties, from the reliable broadcast of the       *)
(* dealer's message to the share in output_queue.                          *)
(*                                                                         *)
(* The dealer's message is its commitments and a blob for each party, a    *)
(* ciphertext of that party's shares.  What matters of a blob is which key *)
(* opens it and what is in it; of a private key that is shown, whether it  *)
(* is the sender's.  The broadcast is the service of ReliableBroadcast:    *)
(* parties get the same message, each at its own time, but any of them may *)
(* be exposed by a faulty party, and then gets an exception instead.       *)
(***************************************************************************)
EXTENDS Integers, FiniteSets

CONSTANTS
    Proc, T,
    Faulty,       \* the parties that do not run the code
    Audience,     \* the honest parties that messages of faulty ones reach
    Dealers,      \* the parties one of which is the dealer
    Dealings,     \* the blobs that a faulty dealer may broadcast
    Degree,       \* "t", or "higher": of the polynomials a faulty dealer commits to
    None

N      == Cardinality(Proc)
Honest == Proc \ Faulty

Key      == {"own", "other"}             \* the sender's private key, or not
Contents == {"good", "wrong", "short"}   \* shares that pass, that do not, or
                                         \* whose number is not that of commitments
Blob     == [key : Key, holds : Contents]
Kind     == {"OK", "IMPLICATE", "RECOVERY"}

ASSUME SizeAssumption ==
    /\ IsFiniteSet(Proc) /\ T \in Nat
    /\ Faulty \subseteq Proc /\ Cardinality(Faulty) <= T
    /\ N >= 3 * T + 1
    /\ Audience \subseteq Honest /\ Dealers \subseteq Proc
    /\ Dealings \subseteq [Proc -> Blob]
    /\ Degree \in {"t", "higher"}
    /\ None \notin {"point", "other"}

VARIABLES
    dealer,            \* dealer_id
    blob,              \* encrypted_blobs
    phase,             \* "waiting" for the broadcast, "lost" when it raised,
                       \* "running", "ended" or "raised"
    sent,              \* sent[p]: the kinds of message p has multicast
    share_valid, ok_set, implicate_set,
    recovery_shares,   \* recovery_shares[p]: pairs of a sender and its share
    output,            \* output[p]: the share p put in output_queue
    recovered

received == <<ok_set, implicate_set, recovery_shares>>
results  == <<share_valid, output, recovered>>
vars == <<dealer, blob, phase, sent, received, results>>

\* _get_dealer_msg of an honest dealer.
HonestDealing == [p \in Proc |-> [key |-> "own", holds |-> "good"]]

Init ==
    /\ dealer \in Dealers
    /\ blob \in IF dealer \in Honest THEN {HonestDealing} ELSE Dealings
    /\ phase = [p \in Honest |-> "waiting"]
    /\ sent = [p \in Honest |-> {}]
    /\ share_valid = [p \in Honest |-> FALSE]
    /\ ok_set = [p \in Honest |-> {}]
    /\ implicate_set = [p \in Honest |-> {}]
    /\ recovery_shares = [p \in Honest |-> {}]
    /\ output = [p \in Honest |-> None]
    /\ recovered = [p \in Honest |-> FALSE]

-----------------------------------------------------------------------------
\* What the blob of party j gives with the key of a message: its contents,
\* or nothing but an exception in decrypt.
Opened(j, key) == IF blob[j].key = key THEN blob[j].holds ELSE "garbled"

\* The polynomial through T + 1 points of the committed one is that one.
Interpolated(shares) ==
    IF (Degree = "t" \/ dealer \in Honest) /\ \A x \in shares : x[2] = "good"
    THEN "point" ELSE "other"

OutputThresholdLow == T + 1      \* mutants
OutputThresholdAll == N

\* The OKs that make a party output its share.
OutputThreshold == 2 * T + 1

\* Mutant: the key shown is not compared with the public key.
ImplicateOutcomeAnyKey(j, key) ==
    CASE Opened(j, key) = "short" -> "raises"
      [] Opened(j, key) = "good"  -> "invalid"
      [] OTHER                    -> "valid"

\* _handle_implication: an implicate is valid if the key is the sender's and
\* its blob does not hold good shares.  Shares of another number violate the
\* assertion in batch_verify_eval.
ImplicateOutcome(j, key) ==
    CASE key # "own"              -> "invalid"
      [] Opened(j, key) = "short" -> "raises"
      [] Opened(j, key) = "good"  -> "invalid"
      [] OTHER                    -> "valid"

\* The head of the receive loop, with what p has received and sent so far:
\* it outputs its share after 2T + 1 OKs, or else the one recovered from
\* T + 1 others, which it confirms by an OK; and the conditions to end.
LoopHead(p, oks, implicates, shares, sends) ==
    LET byOk  == Cardinality(oks) = OutputThreshold /\ share_valid[p]
                 /\ output[p] = None
        byRec == Cardinality(shares) = T + 1 /\ output[p] = None /\ ~byOk
        rec   == recovered[p] \/ byRec
        ends  == \/ Cardinality(oks) = N
                 \/ Cardinality(implicates) >= T + 1
                 \/ Cardinality(oks) >= 2 * T + 1 /\ ("RECOVERY" \in sends \/ rec)
    IN  /\ ok_set' = [ok_set EXCEPT ![p] = oks]
        /\ implicate_set' = [implicate_set EXCEPT ![p] = implicates]
        /\ recovery_shares' = [recovery_shares EXCEPT ![p] = shares]
        /\ sent' = [sent EXCEPT ![p] = IF byRec THEN sends \cup {"OK"} ELSE sends]
        /\ output' = [output EXCEPT ![p] = IF byOk THEN "point"
                                           ELSE IF byRec THEN Interpolated(shares)
                                           ELSE @]
        /\ share_valid' = [share_valid EXCEPT ![p] = @ \/ byRec]
        /\ recovered' = [recovered EXCEPT ![p] = rec]
        /\ phase' = [phase EXCEPT ![p] = IF ends THEN "ended" ELSE @]

\* An exception ends the party's task; nobody hears of it.
Raise(p) ==
    /\ phase' = [phase EXCEPT ![p] = "raised"]
    /\ UNCHANGED <<sent, received, results>>

\* p takes a message of kind k from sender q: what an honest party has
\* multicast, or what a faulty one likes.  An honest party's messages come
\* once; a second OK or RECOVERY would change nothing, and who has sent an
\* IMPLICATE is in implicate_set.
Take(p, q, k) ==
    /\ phase[p] = "running"
    /\ IF q \in Honest THEN k \in sent[q] /\ (k = "IMPLICATE" => q \notin implicate_set[p])
                       ELSE p \in Audience
    /\ UNCHANGED <<dealer, blob>>

\* The key in a message: an honest party shows its own.
KeysOf(q) == IF q \in Honest THEN {"own"} ELSE Key

-----------------------------------------------------------------------------
\* The broadcast returns the dealer's message: p checks its own share and
\* confirms it, or shows its private key.
Start(p) ==
    /\ phase[p] = "waiting"
    /\ LET valid == Opened(p, "own") = "good"
       IN  /\ share_valid' = [share_valid EXCEPT ![p] = valid]
           /\ sent' = [sent EXCEPT ![p] = {IF valid THEN "OK" ELSE "IMPLICATE"}]
    /\ phase' = [phase EXCEPT ![p] = "running"]
    /\ UNCHANGED <<dealer, blob, received, output, recovered>>

\* BroadcastService!Fail: the broadcast raises at p, and with it avss().
Lose(p) ==
    /\ phase[p] = "waiting"
    /\ Faulty # {}
    /\ phase' = [phase EXCEPT ![p] = "lost"]
    /\ UNCHANGED <<dealer, blob, sent, received, results>>

RecvOk(p, q) ==
    /\ Take(p, q, "OK")
    /\ LoopHead(p, ok_set[p] \cup {q}, implicate_set[p], recovery_shares[p], sent[p])

\* A party with a valid share checks the implicate, and shows its own key if
\* it is valid; an invalid one counts as an OK.
RecvImplicate(p, q, key) ==
    /\ Take(p, q, "IMPLICATE")
    /\ LET checks == "RECOVERY" \notin sent[p] /\ share_valid[p]
           outcome == IF checks THEN ImplicateOutcome(q, key) ELSE "ignored"
           implicates == implicate_set[p] \cup {q}
       IN  IF outcome = "raises" THEN Raise(p)
           ELSE LoopHead(p,
                   ok_set[p] \cup {x \in {q} : outcome = "invalid"},
                   implicates, recovery_shares[p],
                   sent[p] \cup {x \in {"RECOVERY"} : outcome = "valid"})

\* Mutant: what a shown key opens is not verified.
AcceptsAny(opened) == opened # "garbled"

\* batch_verify_eval
Accepts(opened) == opened = "good"

\* A party without a valid share opens the sender's blob with the key shown,
\* unless it has a share of that sender.
RecvRecovery(p, q, key) ==
    /\ Take(p, q, "RECOVERY")
    /\ LET opened == Opened(q, key)
           uses == ~share_valid[p] /\ \A x \in recovery_shares[p] : x[1] # q
       IN  IF uses /\ opened = "short" THEN Raise(p)
           ELSE LoopHead(p,
                   ok_set[p] \cup {x \in {q} : uses /\ opened = "garbled"},
                   implicate_set[p],
                   recovery_shares[p] \cup
                       {x \in {<<q, opened>>} : uses /\ Accepts(opened)},
                   sent[p])

Step(p) ==
    \/ Start(p)
    \/ Lose(p)
    \/ \E q \in Proc : RecvOk(p, q)
    \/ \E q \in Proc : \E key \in KeysOf(q) : RecvImplicate(p, q, key)
    \/ \E q \in Proc : \E key \in KeysOf(q) : RecvRecovery(p, q, key)

Next == \E p \in Honest : Step(p)

Spec == Init /\ [][Next]_vars

\* NobodyLeftOut of ReliableBroadcast: the broadcast of an honest dealer ends
\* everywhere, and one that has ended somewhere does; how is not promised.
BroadcastEnded(p) ==
    (dealer \in Honest \/ \E q \in Honest : phase[q] # "waiting")
        => phase[p] # "waiting"

\* As long as p runs it has taken what honest parties have sent it.  A RECOVERY
\* leaves no trace at most parties, and its arrival is not promised here.
Heard(p) == phase[p] = "running" =>
    \A q \in Honest : /\ ("OK" \in sent[q] => q \in ok_set[p])
                       /\ ("IMPLICATE" \in sent[q] => q \in implicate_set[p])

\* Broadcasts end, and messages of honest parties arrive.
FairSpec ==
    Spec /\ \A p \in Honest : []<>BroadcastEnded(p) /\ []<>Heard(p)

-----------------------------------------------------------------------------
\* KeysKept: as long as the dealer follows the code no honest party shows its
\* private key, whatever keys faulty parties show it (_handle_implication):
\* the key opens its blobs in all other sharings, too.
KeysKept == dealer \in Honest => \A p \in Honest : sent[p] \subseteq {"OK"}

\* Shared: when an honest party outputs the share it was dealt, T + 1 honest
\* parties have got theirs, so that they can reconstruct the secret
\* (subprotocols.rst: "any t+1 of the honest parties can reconstruct it"); and
\* every share that is output, recovered or not, is a point of the polynomial
\* the dealer committed to, unless a faulty dealer's is of a degree that
\* verify_eval does not bound.  OKs are counted for invalid implicates and for
\* recoveries that do not decrypt, too.
Shared ==
    \A p \in Honest : output[p] # None =>
        /\ ~recovered[p] =>
              /\ output[p] = "point"
              /\ Cardinality({q \in Honest : share_valid[q]}) >= T + 1
        /\ output[p] # "point" => dealer \in Faulty /\ Degree = "higher"

\* The honest parties at which the broadcast has not raised.
Served == {p \in Honest : phase[p] # "lost"}

\* OksReceived: the broadcast has ended everywhere, and each party that has not
\* ended has taken the OKs of all honest parties.
OksReceived == \A p \in Honest : phase[p] # "waiting" /\ Heard(p)

\* Too few honest parties have the dealer's message for all to output their
\* shares, and faulty ones have not made up for it at p.
Starved(p) == /\ Cardinality(Served) < 2 * T + 1
              /\ Cardinality(ok_set[p]) < 2 * T + 1

\* SharesDelivered: with a dealer that follows the code every honest party that
\* got its message has output its share then, also one whose loop has ended
\* early, unless it is starved; the OK that makes 2T + 1 is never passed over
\* (the test in the loop is an equality).
SharesDelivered ==
    dealer \in Honest /\ OksReceived =>
        \A p \in Served : output[p] # None \/ Starved(p)

\* Delivery: if the dealer follows the code every honest party at which the
\* broadcast returns outputs its share for good, unless it is starved, although
\* faulty parties implicate the dealer and end the sharing early where they can
\* (the conditions to terminate of _process_avss_msg).
Delivery ==
    dealer \in Honest =>
        <>[](\A p \in Served : output[p] # None \/ Starved(p))

\* NoneLeftOut: no honest party stops without a share while another one has
\* output its own (subprotocols.rst: "n parties will have a t-shared share").
\* A faulty dealer can make this fail.
NoneLeftOut ==
    \A p, q \in Honest :
        output[p] # None /\ phase[q] \in {"ended", "raised"} => output[q] # None
=============================================================================
