--------------------------- MODULE DestDiscovery ---------------------------
(***************************************************************************)
(* internal/dest: Discover probes the candidates for a REALITY destination *)
(* from this node, a bounded number at a time, waits for all of them and   *)
(* ranks them; Best is the nearest that validates.                         *)
(***************************************************************************)
EXTENDS Integers, Sequences, FiniteSets, SequencesExt

CONSTANTS
    Candidates,  \* the number of candidates; a candidate is its index
    MaxConc,     \* the semaphore's size
    RTTs         \* round-trip times a probe may measure

ASSUME DiscoveryAssumption ==
    /\ Candidates \in Nat /\ MaxConc \in Nat \ {0}
    /\ RTTs \subseteq Nat \ {0}

VARIABLES
    looking,   \* Discover runs
    next,      \* the candidate the loop is at
    inFlight,  \* candidates being probed
    slots,     \* what is left of the semaphore
    results    \* results[i], zero until its probe has ended

poolVars == <<looking, next, inFlight, slots, results>>

Hosts == 1..Candidates
NoHost == 0
Blank == [ok |-> FALSE, rtt |-> 0]

PoolIdle ==
    /\ looking = FALSE
    /\ next = 1
    /\ inFlight = {}
    /\ slots = MaxConc
    /\ results = [i \in Hosts |-> Blank]

-----------------------------------------------------------------------------
(***************************************************************************)
(* DefaultProber.Probe: what it meets at a site, and its verdict.          *)
(***************************************************************************)
Sites == [answers : BOOLEAN,                         \* in time, TLS 1.3, a valid certificate
          h2 : BOOLEAN,
          class : {2, 3, 4},                         \* of the status
          location : {"none", "relative", "same site", "other site"}]

SameSite(location) == location \in {"relative", "same site"}
RealPage(site) == site.class = 2 \/ (site.class = 3 /\ SameSite(site.location))
\* The time it took matters only if the site validates.
Probe(site, rtt) ==
    IF site.answers /\ site.h2 /\ RealPage(site) THEN [ok |-> TRUE, rtt |-> rtt] ELSE Blank
Verdicts == {Probe(site, rtt) : site \in Sites, rtt \in RTTs}

-----------------------------------------------------------------------------
StartDiscover ==
    /\ ~looking
    /\ looking' = TRUE
    /\ UNCHANGED <<next, inFlight, slots, results>>

\* The loop takes a slot, waiting for one if need be, and starts a goroutine.
StartProbe ==
    /\ looking
    /\ next <= Candidates
    /\ slots > 0
    /\ slots' = slots - 1
    /\ inFlight' = inFlight \cup {next}
    /\ next' = next + 1
    /\ UNCHANGED <<looking, results>>

\* Mutant: a candidate that fails to validate keeps its slot.
EndProbeHolding(i) ==
    /\ i \in inFlight
    /\ \E verdict \in Verdicts :
          /\ results' = [results EXCEPT ![i] = verdict]
          /\ slots' = IF verdict.ok THEN slots + 1 ELSE slots
    /\ inFlight' = inFlight \ {i}
    /\ UNCHANGED <<looking, next>>

\* A probe ends, at the latest by its timeout, and its slot is free again.
EndProbe(i) ==
    /\ i \in inFlight
    /\ \E verdict \in Verdicts : results' = [results EXCEPT ![i] = verdict]
    /\ slots' = slots + 1
    /\ inFlight' = inFlight \ {i}
    /\ UNCHANGED <<looking, next>>

\* Mutant: nobody waits for the probes that are still in flight.
AllStarted == looking /\ next > Candidates

\* wg.Wait returns.
AllProbed == looking /\ next > Candidates /\ inFlight = {}

\* sort.SliceStable: validating hosts first, nearest first; input order otherwise.
Before(i, j) ==
    IF results[i].ok # results[j].ok THEN results[i].ok
    ELSE \/ results[i].ok /\ results[i].rtt < results[j].rtt
         \/ (results[i].ok => results[i].rtt = results[j].rtt) /\ i < j

Ranking == CHOOSE s \in SetToSeqs(Hosts) : \A i, j \in Hosts : i < j => Before(s[i], s[j])

\* Best: the first of the ranking that validates.
Best == IF Candidates > 0 /\ results[Ranking[1]].ok THEN Ranking[1] ELSE NoHost

PoolReset ==
    /\ looking' = FALSE
    /\ next' = 1
    /\ inFlight' = {}
    /\ slots' = MaxConc
    /\ results' = [i \in Hosts |-> Blank]

PoolStep == StartProbe \/ \E i \in Hosts : EndProbe(i)

PoolTypeOK ==
    /\ looking \in BOOLEAN /\ next \in 1..(Candidates + 1)
    /\ inFlight \subseteq 1..(next - 1)
    /\ slots \in 0..MaxConc
    /\ results \in [Hosts -> [ok : BOOLEAN, rtt : RTTs \cup {0}]]
=============================================================================
