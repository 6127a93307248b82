-------------------------- MODULE BinaryAgreement --------------------------
(***************************************************************************)
(* One instance of binaryagreement() (broadcast/binaryagreement.py) at all *)
(* honest parties, with the coin it is given.                              *)
(*                                                                         *)
(* The sets of received messages are not kept.  Each of them is used in    *)
(* one wait, only grows, and the waits ask for at least so many of its     *)
(* members; so a wait may end once enough messages have been sent, and the *)
(* delay until it does is that of the messages.  Honest parties send at    *)
(* most one EST for each value, one AUX and one CONF in a round.  A faulty *)
(* party is counted in any wait it likes.                                  *)
(***************************************************************************)
EXTENDS Integers, FiniteSets

CONSTANTS
    Proc, F,      \* the parties and the number of faults tolerated
    Faulty,       \* the parties that do not run the code
    Equivocate,   \* faulty parties send one party several AUX or CONF values
    Inputs,       \* Inputs[p]: the bits party p may be given
    CoinBits,     \* CoinBits[r]: the bits the coin of round r may show
    MaxRound,     \* last round modelled
    Ahead,        \* how many rounds ahead of its own a party takes ESTs
    None

Bits   == {0, 1}
Rounds == 0 .. MaxRound
Honest == Proc \ Faulty
N      == Cardinality(Proc)

ASSUME ThresholdAssumption == /\ IsFiniteSet(Proc)
                              /\ F \in Nat
                              /\ N >= 3 * F + 1
ASSUME FaultAssumption == /\ Faulty \subseteq Proc
                          /\ Cardinality(Faulty) <= F
                          /\ Equivocate \in BOOLEAN
ASSUME ValueAssumption == /\ Inputs \in [Honest -> SUBSET Bits]
                          /\ CoinBits \in [Rounds -> SUBSET Bits]
                          /\ MaxRound \in Nat /\ Ahead \in Nat
                          /\ None \notin Bits

VARIABLES
    input,       \* vi of each party, None until it is given
    pc,          \* the wait the party is in
    round,       \* r
    est,
    est_sent,    \* est_sent[p][r]: the values p has sent an EST for
    bin_values,  \* bin_values[p][r]
    aux_sent,    \* aux_sent[p][r]: the value of p's AUX
    conf_sent,   \* conf_sent[p][r]: the set of values of p's CONF
    values,      \* what the CONF wait of the round returned
    coin,        \* coin[r]: the bit, None until a party has obtained it
    decided      \* already_decided

vars == <<input, pc, round, est, est_sent, bin_values, aux_sent, conf_sent,
          values, coin, decided>>

\* "bound": the party has gone beyond the last round modelled.
Phases == {"input", "bin", "aux", "conf", "coin", "quit", "bound"}

Init ==
    /\ input = [p \in Honest |-> None]
    /\ pc = [p \in Honest |-> "input"]
    /\ round = [p \in Honest |-> 0]
    /\ est = [p \in Honest |-> None]
    /\ est_sent = [p \in Honest |-> [r \in Rounds |-> {}]]
    /\ bin_values = [p \in Honest |-> [r \in Rounds |-> {}]]
    /\ aux_sent = [p \in Honest |-> [r \in Rounds |-> None]]
    /\ conf_sent = [p \in Honest |-> [r \in Rounds |-> {}]]
    /\ values = [p \in Honest |-> {}]
    /\ coin = [r \in Rounds |-> None]
    /\ decided = [p \in Honest |-> None]

-----------------------------------------------------------------------------
(* What a party may have received.  "help" is the number of faulty parties *)
(* that take part.                                                         *)

EstVotes(r, v, help) ==
    Cardinality({p \in Honest : v \in est_sent[p][r]}) + help

AuxVotes(r, v)  == Cardinality({p \in Honest : aux_sent[p][r] = v})
ConfVotes(r, c) == Cardinality({p \in Honest : conf_sent[p][r] = c})

\* Mutant: N - 2F of a single value are enough.
SingleWaitLow(votes, help) == votes + help >= N - 2 * F

\* A wait for N - F of a single value.
SingleWait(votes, help) == votes + help >= N - F

\* How many of c received messages must come from faulty parties when h
\* honest ones sent that message.
Borrowed(c, h) == IF c > h THEN c - h ELSE 0

\* A wait for N - F messages over all values: c0 and c1 of them carry a
\* single value and stay below N - F each, the rest carry both.  The code
\* adds up the sizes of its sets of senders, so a faulty party that sent
\* several values counts several times.
MixedWait(h0, h1, h01, help, both) ==
    {c \in (0 .. N - F - 1) \X (0 .. N - F - 1) :
        LET b0 == Borrowed(c[1], h0)
            b1 == Borrowed(c[2], h1)
            left == IF Equivocate THEN help ELSE help - b0 - b1
        IN  /\ b0 <= help /\ b1 <= help /\ left >= 0
            /\ c[1] + c[2] + (IF both THEN h01 + left ELSE 0) >= N - F} # {}

\* The AUX wait ends: N - F AUX for one value in bin_values, or for both.
AuxDone(p, help) ==
    LET r == round[p]
        bin == bin_values[p][r]
    IN  \/ \E v \in bin : SingleWait(AuxVotes(r, v), help)
        \/ /\ bin = Bits
           /\ MixedWait(AuxVotes(r, 0), AuxVotes(r, 1), 0, help, FALSE)

\* The CONF wait ends with vals.
ConfDone(p, vals, help) ==
    LET r == round[p]
        bin == bin_values[p][r]
    IN  \/ \E v \in bin : /\ vals = {v}
                          /\ SingleWait(ConfVotes(r, {v}), help)
        \/ /\ bin = Bits
           /\ vals = Bits
           /\ MixedWait(ConfVotes(r, {0}), ConfVotes(r, {1}),
                        ConfVotes(r, Bits), help, TRUE)

\* Parties that have released their share of the coin of round r.
CoinCallersEarly(r) ==   \* mutant: the share goes out with the CONF
    {p \in Honest : round[p] > r \/ (round[p] = r
                                      /\ pc[p] \in {"conf", "coin", "quit"})}

CoinCallers(r) ==
    {p \in Honest : round[p] > r \/ (round[p] = r /\ pc[p] \in {"coin", "quit"})}

\* F + 1 shares combine to the coin (shared_coin).
CoinReady(r, help) == Cardinality(CoinCallers(r)) + help >= F + 1

-----------------------------------------------------------------------------
\* The input arrives: round 0 starts with an EST for it.
Start(p, vi) ==
    /\ pc[p] = "input"
    /\ input' = [input EXCEPT ![p] = vi]
    /\ est' = [est EXCEPT ![p] = vi]
    /\ est_sent' = [est_sent EXCEPT ![p][0] = @ \cup {vi}]
    /\ pc' = [pc EXCEPT ![p] = "bin"]
    /\ UNCHANGED <<round, bin_values, aux_sent, conf_sent, values, coin,
                   decided>>

\* Mutant: thresholds one too low.
RecvEstLow(p, r, v, held) ==
    /\ pc[p] # "quit"
    /\ r <= round[p] + Ahead
    /\ held - 1 <= EstVotes(r, v, Cardinality(Faulty))
    /\ est_sent' = IF held >= F + 1
                   THEN [est_sent EXCEPT ![p][r] = @ \cup {v}] ELSE est_sent
    /\ bin_values' = IF held >= 2 * F + 1
                     THEN [bin_values EXCEPT ![p][r] = @ \cup {v}]
                     ELSE bin_values
    /\ <<est_sent, bin_values>>' # <<est_sent, bin_values>>
    /\ UNCHANGED <<input, pc, round, est, aux_sent, conf_sent, values, coin,
                   decided>>
\* What the receive task does with the EST with which p holds "held" of them
\* for v in round r, any round: it relays v at F + 1 and accepts it at 2F + 1.
RelayedNot(p, r, v, held) == est_sent[p][r]   \* mutant: no relay
Relayed(p, r, v, held) ==
    IF held >= F + 1 THEN est_sent[p][r] \cup {v} ELSE est_sent[p][r]

Accepted(p, r, v, held) ==
    IF held >= 2 * F + 1 THEN bin_values[p][r] \cup {v} ELSE bin_values[p][r]

RecvEst(p, r, v, held) ==
    /\ pc[p] # "quit"
    /\ r <= round[p] + Ahead
    /\ <<Relayed(p, r, v, held), Accepted(p, r, v, held)>>
          # <<est_sent[p][r], bin_values[p][r]>>
    /\ held <= EstVotes(r, v, Cardinality(Faulty))
    /\ est_sent' = [est_sent EXCEPT ![p][r] = Relayed(p, r, v, held)]
    /\ bin_values' = [bin_values EXCEPT ![p][r] = Accepted(p, r, v, held)]
    /\ UNCHANGED <<input, pc, round, est, aux_sent, conf_sent, values, coin,
                   decided>>

\* A value has been accepted: p sends AUX for the first one of the set.
SendAux(p) ==
    LET bin == bin_values[p][round[p]]
    IN  /\ pc[p] = "bin"
        /\ bin # {}
        /\ aux_sent' = [aux_sent EXCEPT ![p][round[p]] =
                            IF 0 \in bin THEN 0 ELSE 1]
        /\ pc' = [pc EXCEPT ![p] = "aux"]
        /\ UNCHANGED <<input, round, est, est_sent, bin_values, conf_sent,
                       values, coin, decided>>

\* The AUX wait ends.  What it found is not used: the CONF carries all of
\* bin_values.
SendConf(p) ==
    /\ pc[p] = "aux"
    /\ AuxDone(p, Cardinality(Faulty))
    /\ conf_sent' = [conf_sent EXCEPT ![p][round[p]] = bin_values[p][round[p]]]
    /\ pc' = [pc EXCEPT ![p] = "conf"]
    /\ UNCHANGED <<input, round, est, est_sent, bin_values, aux_sent, values,
                   coin, decided>>

\* The CONF wait ends: p releases its share of the coin and waits for it.
CallCoin(p, vals) ==
    /\ pc[p] = "conf"
    /\ ConfDone(p, vals, Cardinality(Faulty))
    /\ values' = [values EXCEPT ![p] = vals]
    /\ pc' = [pc EXCEPT ![p] = "coin"]
    /\ UNCHANGED <<input, round, est, est_sent, bin_values, aux_sent,
                   conf_sent, coin, decided>>

\* set_new_estimate: the coin settles the next estimate, a decision, or, for
\* a party that had decided this value before, the end.
NewEstimate(p, s) ==
    LET new == IF Cardinality(values[p]) = 1
               THEN CHOOSE v \in values[p] : TRUE ELSE s
        lucky == values[p] = {s}
        r == round[p] + 1
    IN  IF lucky /\ decided[p] = s
        THEN /\ pc' = [pc EXCEPT ![p] = "quit"]
             /\ UNCHANGED <<round, est, est_sent, values, decided>>
        ELSE /\ decided' = IF lucky /\ decided[p] = None
                           THEN [decided EXCEPT ![p] = s] ELSE decided
             /\ est' = [est EXCEPT ![p] = new]
             /\ round' = [round EXCEPT ![p] = r]
             /\ values' = [values EXCEPT ![p] = {}]
             /\ IF r <= MaxRound
                THEN /\ est_sent' = [est_sent EXCEPT ![p][r] = @ \cup {new}]
                     /\ pc' = [pc EXCEPT ![p] = "bin"]
                ELSE /\ pc' = [pc EXCEPT ![p] = "bound"]
                     /\ UNCHANGED est_sent

\* p obtains the coin, the same for all, and goes on to the next round.
GetCoin(p, s) ==
    LET r == round[p]
    IN  /\ pc[p] = "coin"
        /\ CoinReady(r, Cardinality(Faulty))
        /\ s \in CoinBits[r]
        /\ coin[r] \in {None, s}
        /\ coin' = [coin EXCEPT ![r] = s]
        /\ NewEstimate(p, s)
        /\ UNCHANGED <<input, bin_values, aux_sent, conf_sent>>

Next ==
    \E p \in Honest :
        \/ \E vi \in Inputs[p] : Start(p, vi)
        \/ \E r \in Rounds, v \in Bits, held \in {F + 1, 2 * F + 1} :
              RecvEst(p, r, v, held)
        \/ SendAux(p)
        \/ SendConf(p)
        \/ \E vals \in SUBSET Bits : CallCoin(p, vals)
        \/ \E s \in Bits : GetCoin(p, s)

Spec == Init /\ [][Next]_vars

-----------------------------------------------------------------------------
TypeOK ==
    /\ input \in [Honest -> Bits \cup {None}]
    /\ pc \in [Honest -> Phases]
    /\ round \in [Honest -> 0 .. MaxRound + 1]
    /\ est \in [Honest -> Bits \cup {None}]
    /\ \A p \in Honest : est[p] = None <=> pc[p] = "input"
    /\ est_sent \in [Honest -> [Rounds -> SUBSET Bits]]
    /\ bin_values \in [Honest -> [Rounds -> SUBSET Bits]]
    /\ aux_sent \in [Honest -> [Rounds -> Bits \cup {None}]]
    /\ conf_sent \in [Honest -> [Rounds -> SUBSET Bits]]
    /\ values \in [Honest -> SUBSET Bits]
    /\ coin \in [Rounds -> Bits \cup {None}]
    /\ decided \in [Honest -> Bits \cup {None}]

\* Agreement: honest parties decide the same bit, in whatever rounds they do.
Agreement ==
    \A p, q \in Honest :
        (decided[p] # None /\ decided[q] # None) => decided[p] = decided[q]

\* ImplementsAgreement: without messages and rounds that is AgreementService, which
\* CommonSubset uses: a decision is made once, is everybody's and somebody's input.
Service == INSTANCE AgreementService
ImplementsAgreement == Service!Spec

\* Validity: no honest party says a bit, in any message of any round, that
\* was not the input of an honest party; faulty parties alone cannot bring
\* one in, neither by EST relays nor through the coin.
Validity ==
    \A p \in Honest, v \in Bits :
        (\/ decided[p] = v
         \/ \E r \in Rounds : v \in bin_values[p][r] \/ v \in conf_sent[p][r])
            => \E q \in Honest : input[q] = v

\* Locked: once a party has decided v, every party that reaches a later round
\* starts it with v (the comment in set_new_estimate: if one party decides at
\* round r, in all the following rounds everybody proposes its value).
Locked ==
    \A p, q \in Honest :
        (decided[p] # None /\ round[q] >= round[p]) => est[q] = decided[p]

\* SingleConf: two honest parties never leave the CONF wait of a round with
\* different single values, though each counts messages of its own choice.
SingleConf ==
    \A p, q \in Honest :
        (round[p] = round[q] /\ Cardinality(values[p]) = 1
                             /\ Cardinality(values[q]) = 1)
            => values[p] = values[q]

\* Whether N - F parties may yet be seen to send CONF for v alone.
StillOpen(r, v) ==
    Cardinality({p \in Honest : conf_sent[p][r] \in {{}, {v}}})
        + Cardinality(Faulty) >= N - F

\* CoinBinding: when the coin of a round can first be learnt, at most one bit
\* can still win that round, so whoever controls the schedule must choose the
\* bit before seeing the coin.
CoinBinding ==
    \A r \in Rounds :
        (CoinCallers(r) # {} /\ CoinReady(r, Cardinality(Faulty)))
            => \E v \in Bits : ~StillOpen(r, v)

-----------------------------------------------------------------------------
(* Getting stuck.                                                          *)

\* p can go on with the messages of honest parties alone: the guards of the
\* actions, with no help of faulty parties.
CanStart(p) == pc[p] = "input" /\ Inputs[p] # {}

CanRecvEst(p) ==
    /\ pc[p] # "quit"
    /\ \E r \in Rounds, v \in Bits, held \in {F + 1, 2 * F + 1} :
          /\ r <= round[p] + Ahead
          /\ held <= EstVotes(r, v, 0)
          /\ \/ Relayed(p, r, v, held) # est_sent[p][r]
             \/ Accepted(p, r, v, held) # bin_values[p][r]

CanGetCoin(p) ==
    /\ pc[p] = "coin"
    /\ CoinReady(round[p], 0)
    /\ \E s \in CoinBits[round[p]] : coin[round[p]] \in {None, s}

CanStep(p) ==
    \/ CanStart(p) \/ CanRecvEst(p) \/ CanGetCoin(p)
    \/ pc[p] = "bin" /\ bin_values[p][round[p]] # {}
    \/ pc[p] = "aux" /\ AuxDone(p, 0)
    \/ pc[p] = "conf" /\ \E vals \in SUBSET Bits : ConfDone(p, vals, 0)

AllStuck == \A p \in Honest : ~CanStep(p)

\* Parties that have decided, and then wait for ever for peers.
Abandoned == {p \in Honest : decided[p] # None /\ pc[p] \notin {"quit", "bound"}}

\* NoStall: until somebody has quit (or gone past the last round), the
\* messages of honest parties are enough for one of them to go on.
NoStall == AllStuck => \E p \in Honest : pc[p] \in {"quit", "bound"}

\* AbandonedAtMostF: set_new_estimate's comment, "Lemma: # of abandoned party
\* <= t", of the parties that have decided without enough peers to end the
\* loop.
AbandonedAtMostF == AllStuck => Cardinality(Abandoned) <= F
=============================================================================
