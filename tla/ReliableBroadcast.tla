------------------------- MODULE ReliableBroadcast -------------------------
(***************************************************************************)
(* One instance of reliablebroadcast() (broadcast/reliablebroadcast.py):   *)
(* the leader erasure-encodes its input, and every party echoes its        *)
(* stripe, votes READY for a Merkle root, and returns the decoded value.   *)
(*                                                                         *)
(* Messages are never removed: an honest ECHO or READY is in flight as     *)
(* soon as from_leader or ready_sent records that it was broadcast, and    *)
(* may reach each party at any later time.  A faulty party may have sent   *)
(* anything to anyone.  A Merkle root is identified with the leaves under  *)
(* it (SHA-256 without collisions): a root in Msgs is that of the stripes  *)
(* of a message, a root in BadRoots is that of leaves which are no         *)
(* codeword.                                                               *)
(***************************************************************************)
EXTENDS Integers, FiniteSets

CONSTANTS
    Proc, F,        \* the parties and the number of faults tolerated
    Index,          \* the pid of each party, its place among the stripes
    Faulty,         \* the parties that do not run the code
    Leader,
    Msgs,           \* the inputs, each standing for the root of its stripes
    BadRoots,       \* roots whose leaves are not the encoding of a message
    StripeKinds,    \* what a faulty party puts in its ECHOs
    Audience,       \* the parties that get ECHOs and READYs of faulty ones
    ClientMode,     \* client_mode: the leader sends its VALs and leaves
    None, Failed    \* no value yet; the coroutine ended with an exception

N      == Cardinality(Proc)
Honest == Proc \ Faulty
Roots  == Msgs \cup BadRoots
Stripes == {"genuine", "corrupt", "missing"}   \* "missing": the stripe is None

ASSUME ThresholdAssumption == /\ IsFiniteSet(Proc)
                              /\ F \in Nat
                              /\ N >= 3 * F + 1
ASSUME FaultAssumption == /\ Faulty \subseteq Proc
                          /\ Cardinality(Faulty) <= F
                          /\ Audience \subseteq Honest
ASSUME LeaderAssumption == Leader \in Proc /\ ClientMode \in BOOLEAN
ASSUME IndexAssumption == /\ Index \in [Proc -> 0 .. N - 1]
                          /\ \A p, q \in Proc : Index[p] = Index[q] => p = q
ASSUME ValueAssumption == /\ None \notin Roots
                          /\ Failed \notin Roots
                          /\ None # Failed
                          /\ Msgs \cap BadRoots = {}
                          /\ StripeKinds \subseteq Stripes

K == N - 2 * F

\* Mutants: READY on the ECHOs of K parties; on more than can be expected;
\* output at F + 1.
EchoThresholdLow   == N - 2 * F
EchoThresholdHigh  == N - F + 1
OutputThresholdLow == F + 1

EchoThreshold   == N - F
ReadyThreshold  == F + 1
OutputThreshold == 2 * F + 1

VARIABLES
    input,         \* what the honest leader has dispersed
    from_leader,   \* root each party accepted in a VAL, and echoed
    stripes,       \* stripes[p][q]: the one ECHO p has taken from q
    ready,         \* ready[p][q]: the root of the one READY p has taken from q
    ready_sent,    \* root of the READY each party has broadcast
    output         \* what reliablebroadcast() returned

vars == <<input, from_leader, stripes, ready, ready_sent, output>>

NoEcho == [root |-> None, stripe |-> "missing"]
Echo   == [root : Roots, stripe : Stripes]
Empty  == [q \in Proc |-> NoEcho]
NoReady == [q \in Proc |-> None]

Init ==
    /\ input = None
    /\ from_leader = [p \in Proc |-> None]
    /\ stripes = [p \in Proc |-> Empty]
    /\ ready = [p \in Proc |-> NoReady]
    /\ ready_sent = [p \in Proc |-> None]
    /\ output = [p \in Proc |-> None]

-----------------------------------------------------------------------------
(* Counting and decoding on the rows of one party.                         *)

\* Senders whose ECHO for root is in row (echo_counter[root]).
Echoers(row, root) == {q \in Proc : row[q].root = root}

\* Senders whose READY for root is in row (ready[root]).
Readiers(row, root) == {q \in Proc : row[q] = root}

\* The positions of stripes[root] that hold a block.
Blocks(row, root) == {q \in Echoers(row, root) : row[q].stripe # "missing"}

\* decode() takes the first k blocks by index, whoever sent them.
FirstK(row, root) ==
    {q \in Blocks(row, root) :
        Cardinality({x \in Blocks(row, root) : Index[x] < Index[q]}) < K}

\* decode_output(): the decoded message is encoded again and its root
\* compared; any k genuine stripes of a codeword give the message, and a
\* block that differs from its leaf, or leaves that are no codeword, give
\* another root.  Too few blocks is a ValueError.
DecodeOutput(row, root) ==
    IF /\ root \in Msgs
       /\ Cardinality(Blocks(row, root)) >= K
       /\ \A q \in FirstK(row, root) : row[q].stripe = "genuine"
    THEN root ELSE Failed

\* Mutants: READYs counted whatever their root; ECHOs not counted.
CanOutputAnyReady(echoes, readies, root) ==
    /\ Cardinality({q \in Proc : readies[q] # None}) >= OutputThreshold
    /\ Cardinality(Echoers(echoes, root)) >= K
CanOutputEarly(echoes, readies, root) ==
    Cardinality(Readiers(readies, root)) >= OutputThreshold

\* The condition on which both handlers call decode_output.
CanOutput(echoes, readies, root) ==
    /\ Cardinality(Readiers(readies, root)) >= OutputThreshold
    /\ Cardinality(Echoers(echoes, root)) >= K

\* The end of the ECHO and READY handlers.  A party that has ended keeps none
\* of its local state, but the stripes of one that raised stay in the model:
\* they say why.  What it has broadcast stays in from_leader and ready_sent.
Finish(p, echoes, readies, root) ==
    IF CanOutput(echoes, readies, root)
    THEN LET result == DecodeOutput(echoes, root)
         IN  /\ output' = [output EXCEPT ![p] = result]
             /\ stripes' = [stripes EXCEPT ![p] =
                                IF result = Failed THEN echoes ELSE Empty]
             /\ ready' = [ready EXCEPT ![p] = NoReady]
    ELSE /\ stripes' = [stripes EXCEPT ![p] = echoes]
         /\ ready' = [ready EXCEPT ![p] = readies]
         /\ UNCHANGED output

-----------------------------------------------------------------------------
(* The messages that may be delivered.                                     *)

\* Mutant: a VAL is taken from any sender.
ValSentAny(root) == Faulty # {} \/ input = root

ValSent(root) == Leader \in Faulty \/ input = root

EchoSent(p, q, root, stripe) ==
    IF q \in Faulty THEN stripe \in StripeKinds /\ p \in Audience
                    ELSE from_leader[q] = root /\ stripe = "genuine"

ReadySent(p, q, root) ==
    IF q \in Faulty THEN p \in Audience ELSE ready_sent[q] = root

\* p is in its receive loop; the leader enters it after sending its VALs.
Listening(p) == /\ p \in Honest
                /\ output[p] = None
                /\ p = Leader => input # None /\ ~ClientMode

-----------------------------------------------------------------------------
\* The leader encodes its input and sends each party its stripe.
Disperse(m) ==
    /\ Leader \in Honest
    /\ input = None
    /\ input' = m
    /\ UNCHANGED <<from_leader, stripes, ready, ready_sent, output>>

\* p takes the first VAL of the leader whose Merkle branch verifies, and
\* echoes it.
RecvVal(p, root) ==
    /\ Listening(p)
    /\ from_leader[p] = None
    /\ ValSent(root)
    /\ from_leader' = [from_leader EXCEPT ![p] = root]
    /\ UNCHANGED <<input, stripes, ready, ready_sent, output>>

\* p takes the first ECHO of q, without verifying its branch.
RecvEcho(p, q, root, stripe) ==
    /\ Listening(p)
    /\ stripes[p][q] = NoEcho
    /\ EchoSent(p, q, root, stripe)
    /\ LET row == [stripes[p] EXCEPT ![q] = [root |-> root, stripe |-> stripe]]
       IN  /\ ready_sent' =
                IF /\ Cardinality(Echoers(row, root)) >= EchoThreshold
                   /\ ready_sent[p] = None
                THEN [ready_sent EXCEPT ![p] = root] ELSE ready_sent
           /\ Finish(p, row, ready[p], root)
    /\ UNCHANGED <<input, from_leader>>

\* p takes the first READY of q.
RecvReady(p, q, root) ==
    /\ Listening(p)
    /\ ready[p][q] = None
    /\ ReadySent(p, q, root)
    /\ LET row == [ready[p] EXCEPT ![q] = root]
       IN  /\ ready_sent' =
                IF /\ Cardinality(Readiers(row, root)) >= ReadyThreshold
                   /\ ready_sent[p] = None
                THEN [ready_sent EXCEPT ![p] = root] ELSE ready_sent
           /\ Finish(p, stripes[p], row, root)
    /\ UNCHANGED <<input, from_leader>>

Next ==
    \/ \E m \in Msgs : Disperse(m)
    \/ \E p \in Honest, root \in Roots : RecvVal(p, root)
    \/ \E p \in Honest, q \in Proc, root \in Roots, stripe \in Stripes :
          RecvEcho(p, q, root, stripe)
    \/ \E p \in Honest, q \in Proc, root \in Roots : RecvReady(p, q, root)

Spec == Init /\ [][Next]_vars

\* p is not in its receive loop, or holds what the honest parties have sent it.
Received(p) == Listening(p) =>
    /\ input # None => from_leader[p] # None
    /\ \A q \in Honest :
          /\ from_leader[q] # None => stripes[p][q] # NoEcho
          /\ ready_sent[q] # None => ready[p][q] # None

\* The leader does start, and the receive loop of an honest party does get
\* every message that an honest party sent it, as long as it runs.  Nothing is
\* assumed of messages from faulty parties.  Honest parties send finitely many
\* messages, so that this is weak fairness of taking them.
Fairness == /\ WF_vars(\E m \in Msgs : Disperse(m))
            /\ \A p \in Honest : []<>Received(p)

FairSpec == Spec /\ Fairness

-----------------------------------------------------------------------------
TypeOK ==
    /\ input \in Msgs \cup {None}
    /\ from_leader \in [Proc -> Roots \cup {None}]
    /\ stripes \in [Proc -> [Proc -> Echo \cup {NoEcho}]]
    /\ ready \in [Proc -> [Proc -> Roots \cup {None}]]
    /\ ready_sent \in [Proc -> Roots \cup {None}]
    /\ output \in [Proc -> Msgs \cup {None, Failed}]

\* Agreement: no two honest parties return different values, whatever the
\* leader and the other faulty parties send (reliablebroadcast, return).
Agreement ==
    \A p, q \in Honest :
        (output[p] \in Msgs /\ output[q] \in Msgs) => output[p] = output[q]

\* Honest parties never send READY for two different roots, although each
\* decides from its own set of ECHOs or of READYs: the quorum argument behind
\* echo_threshold and ready_threshold.
ReadyAgreement ==
    \A p, q \in Honest :
        (ready_sent[p] # None /\ ready_sent[q] # None)
            => ready_sent[p] = ready_sent[q]

\* Validity: with an honest leader an honest party returns nothing but the
\* leader's input.
Validity ==
    Leader \in Honest =>
        \A p \in Honest : output[p] \in Msgs => output[p] = input

EchoedBy(root) == {q \in Honest : from_leader[q] = root}
ReadiedBy(root) == {q \in Honest : ready_sent[q] = root}

\* Recoverable: once an honest party has returned m, enough honest parties
\* have broadcast READY(m) for the others to amplify it, and enough have
\* echoed genuine stripes for the others to decode, so a party that returns
\* and stops answering strands nobody (output_threshold and k).
Recoverable ==
    \A p \in Honest : output[p] \in Msgs =>
        /\ Cardinality(ReadiedBy(output[p])) >= ReadyThreshold
        /\ Cardinality(EchoedBy(output[p])) >= K

\* p holds, or raised holding, a stripe that is not the leaf it stands for:
\* merkle_verify on its ECHO, which is commented out, would have refused it.
Exposed(p) ==
    \E q \in Faulty : stripes[p][q].root # None /\ stripes[p][q].stripe # "genuine"

\* AbortsBlamed: decode_output raises only at a party that has taken such a
\* stripe, or at every party that ends, and then the leader is faulty and has
\* committed to what is no codeword.  A party raises neither for want of stripes
\* nor because others were quicker (the assertion of decode_output).
AbortsBlamed ==
    \A p \in Honest : output[p] = Failed =>
        \/ Exposed(p)
        \/ Leader \in Faulty /\ \A q \in Honest : output[q] \notin Msgs

AllReceived == \A p \in Honest : Received(p)

\* NobodyLeftOut: when all messages of honest parties have been received, an
\* honest leader's broadcast has ended at every honest party, and anybody's
\* broadcast has ended at all of them or at none: nobody waits for a message
\* that a party which has returned would have had to send.
NobodyLeftOut ==
    ( /\ AllReceived
      /\ ~ClientMode
      /\ \/ Leader \in Honest /\ input # None
         \/ \E p \in Honest : output[p] # None )
    => \A q \in Honest : output[q] # None

\* NoAbort: with an honest leader decode_output never raises (the comment in
\* the ECHO handler: the branch need not be verified since the entire tree is
\* checked later; docs/subprotocols.rst: every recipient eventually receives
\* the full correct message).
NoAbort ==
    Leader \in Honest => \A p \in Honest : output[p] # Failed

-----------------------------------------------------------------------------
(* The inductive invariant behind Agreement.                               *)

\* What an honest party holds from another is what that party broadcast.
EchoesGenuine ==
    \A p, q \in Honest : stripes[p][q].root # None =>
        stripes[p][q].root = from_leader[q]

ReadiesGenuine ==
    \A p, q \in Honest : ready[p][q] # None => ready[p][q] = ready_sent[q]

\* A READY of an honest party rests on the ECHOs of N - F parties, all of
\* them honest but the faulty ones.
ReadySupported ==
    \A p \in Honest : ready_sent[p] # None =>
        Cardinality(EchoedBy(ready_sent[p])) + Cardinality(Faulty)
            >= EchoThreshold

\* A returned value rests on the READYs of 2F + 1 parties.
OutputSupported ==
    \A p \in Honest : output[p] \in Msgs =>
        Cardinality(ReadiedBy(output[p])) + Cardinality(Faulty)
            >= OutputThreshold

IInv == /\ TypeOK
        /\ EchoesGenuine
        /\ ReadiesGenuine
        /\ ReadySupported
        /\ OutputSupported

\* The inductive invariant behind NobodyLeftOut: every threshold that the
\* messages a party has taken can meet has been acted on, and a party that
\* has ended left its READY and those of 2F + 1 parties behind.
Tallied ==
    \A p \in Honest :
        /\ output[p] = None => \A root \in Roots :
              /\ ~CanOutput(stripes[p], ready[p], root)
              /\ \/ Cardinality(Echoers(stripes[p], root)) >= EchoThreshold
                 \/ Cardinality(Readiers(ready[p], root)) >= ReadyThreshold
                 => ready_sent[p] # None
        /\ output[p] # None =>
              /\ ready_sent[p] # None
              /\ \E root \in Roots :
                    Cardinality(ReadiedBy(root)) + Cardinality(Faulty)
                        >= OutputThreshold

-----------------------------------------------------------------------------
\* q has returned m; or it was given a stripe that is not the leaf, and has
\* raised; or it is a client, which has left.
Through(q, m) == \/ output[q] = m
                 \/ output[q] = Failed /\ Exposed(q)
                 \/ q = Leader /\ ClientMode

\* Delivery: with an honest leader every honest party that runs the receive
\* loop returns the input (docs/subprotocols.rst, ReliableBroadcast), save one
\* that raises over a stripe it has not verified.
Delivery ==
    Leader \in Honest =>
        <>(input # None /\ \A p \in Honest : Through(p, input))

\* Totality: when one honest party returns m, all of them do, save those that
\* raise over a stripe they have not verified, although the ones that have
\* ended answer no more messages.
Totality ==
    \A m \in Msgs :
        (\E p \in Honest : output[p] = m) ~> (\A q \in Honest : Through(q, m))

\* The protocol implements the broadcast it stands for, whatever stripes the
\* ECHOs hold: every step is one of the service's or invisible to it.
ExposedParties == {p \in Honest : Exposed(p)}

Service == INSTANCE BroadcastService WITH exposed <- ExposedParties
ImplementsService == Service!Spec
=============================================================================
