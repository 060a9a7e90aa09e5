----------------------------- MODULE HealthBeat -----------------------------
(***************************************************************************)
(* The health beat in time: on the RU node rdda health (internal/cli,      *)
(* internal/health) probes the tunnel with a throwaway sing-box client     *)
(* (internal/tunnelprobe) and posts the reading; on the EU node the last   *)
(* reading and the time it came are kept (internal/state/health.go) and    *)
(* rdda alert judges them by their age (internal/alert).                   *)
(*                                                                         *)
(* Durations are in units of time that the configuration chooses, rounded  *)
(* up; what takes less than a unit falls within one, or across its end.    *)
(***************************************************************************)
EXTENDS Integers, Sequences, FiniteSets, FiniteSetsExt

CONSTANTS
    MinGap, MaxGap,         \* rdda-health.timer: from one start of rdda health to the next
    StaleAfter,             \* alert.go: staleAfter
    MinAlert, MaxAlert,     \* rdda-alert.timer: from one evaluation to the next
    Tries,                  \* attempts of a probe (12 in the code)
    Lists,                  \* the clients in successive singbox.json, by the order of their names
    Skew,                   \* how far behind the EU's clock the RU node's is
    MaxFlips, MaxFaults     \* bounds on outages and their ends, and on what goes wrong

ASSUME TimerAssumption == {MinGap, MaxGap, StaleAfter, MinAlert, MaxAlert, Tries} \subseteq Nat \ {0}
ASSUME IntervalAssumption == MinGap <= MaxGap /\ MinAlert <= MaxAlert
ASSUME SkewAssumption == Skew \in Int
ASSUME ListsAssumption == Lists \in Seq((SUBSET Nat) \ {{}}) /\ Lists # <<>>
\* Two beats in a row come no further apart than this.
ASSUME StaleAssumption == MaxGap + 1 <= StaleAfter
ASSUME BeatBoundsAssumption == MaxFlips \in Nat /\ MaxFaults \in Nat

VARIABLES
    alive,      \* the RU node is up
    exit,       \* its sing-box, and the way from there to the open internet, work
    conf,       \* the list in singbox.json
    running,    \* the list its sing-box has loaded
    since,      \* the time since rdda health was last started
    beat,       \* rdda health
    saved,      \* the EU's ru-health.json: its reading, and received_at as an age
    sinceAlert, \* the time since rdda alert last evaluated
    firing,     \* the condition on the RU node that it found
    lost,       \* observer: beats lost since the last one that came
    off,        \* observer: the RU node was off at some time since then
    steady,     \* observer: the time since the world changed, or a probe could not run
    flips, faults

node == <<alive, exit, conf, running>>
controller == <<saved, sinceAlert, firing>>
observers == <<lost, off, steady>>
counts == <<flips, faults>>
vars == <<node, since, beat, controller, observers, counts>>

\* Deadlines, in units: an outage of the node has been told, and one of its exit.
OutageTold == StaleAfter + MaxAlert + 1
BlockTold == StaleAfter + MaxAlert + 2

Readings == {"none", "ok", "blocked", "unknown"}   \* "none" before the first
Beats == [at : {"idle", "probing", "posting"}, conf : 0..Len(Lists),
          client : {"none", "starting", "bound", "ended"}, tries : 0..Tries - 1,
          fell : BOOLEAN,   \* the exit was down at some time of the probe
          reach : Readings,
          long : BOOLEAN]   \* a unit has ended since it was started
NoProbe == [at |-> "idle", conf |-> 0, client |-> "none", tries |-> 0, fell |-> FALSE, reach |-> "none", long |-> FALSE]

Init ==
    /\ alive = TRUE /\ exit = TRUE
    /\ conf = 1 /\ running = 1
    /\ since = 0 /\ beat = NoProbe
    /\ saved \in {[age |-> 0, reach |-> r] : r \in {"none", "ok"}}
    /\ sinceAlert = 0 /\ firing = "none"
    /\ lost = 0 /\ off = FALSE /\ steady = 0
    /\ flips = 0 /\ faults = 0

Fault == faults < MaxFaults /\ faults' = faults + 1
Flip == flips < MaxFlips /\ flips' = flips + 1 /\ steady' = 0

-----------------------------------------------------------------------------
(***************************************************************************)
(* Time passes: the timers fire within their intervals, and a beat sees at *)
(* most one unit end: its probe takes at most 36 s, or 192 s when a process *)
(* that never answers has its port, and its post at most 15 s.             *)
(***************************************************************************)
CapAt(n, top) == IF n > top THEN top ELSE n

Tick ==
    /\ alive => since < MaxGap
    /\ beat.at # "idle" => ~beat.long
    /\ sinceAlert < MaxAlert
    /\ since' = IF alive THEN since + 1 ELSE since
    /\ beat' = IF beat.at = "idle" THEN beat ELSE [beat EXCEPT !.long = TRUE]
    /\ saved' = [saved EXCEPT !.age = CapAt(@ + 1, StaleAfter + 1)]
    /\ sinceAlert' = sinceAlert + 1
    /\ steady' = CapAt(steady + 1, BlockTold)
    /\ UNCHANGED <<node, firing, lost, off, counts>>

-----------------------------------------------------------------------------
(***************************************************************************)
(* The world of the RU node.                                               *)
(***************************************************************************)
ExitFlips ==
    /\ Flip
    /\ exit' = ~exit
    /\ beat' = [beat EXCEPT !.fell = beat.at = "probing"]
    /\ UNCHANGED <<alive, conf, running, since, controller, lost, off, faults>>

NodeDies ==
    /\ Flip
    /\ alive /\ alive' = FALSE
    /\ beat' = NoProbe /\ since' = 0
    /\ off' = TRUE
    /\ UNCHANGED <<exit, conf, running, controller, lost, faults>>

\* OnBootSec is two minutes, one more than the shortest interval.
NodeBoots ==
    /\ ~alive
    /\ alive' = TRUE
    /\ running' = conf
    /\ since' = -1 /\ steady' = 0
    /\ UNCHANGED <<exit, conf, beat, controller, lost, off, counts>>

\* rdda pull installs the next list, and reloads sing-box - at once, or, when
\* that fails, in a later run.
Install ==
    /\ alive
    /\ conf < Len(Lists)
    /\ conf' = conf + 1
    /\ UNCHANGED <<alive, exit, running, since, beat, controller, observers, counts>>

Reload ==
    /\ alive
    /\ running # conf
    /\ running' = conf
    /\ UNCHANGED <<alive, exit, conf, since, beat, controller, observers, counts>>

-----------------------------------------------------------------------------
(***************************************************************************)
(* rdda health: read singbox.json, probe, post.                            *)
(***************************************************************************)

\* The throwaway client is started as the first client of the list that was
\* read.  It ends at once if it cannot use its config, or if the port freePort
\* found is taken again by the time it binds it.  Without a singbox.json, a
\* sing-box or a port there is no probe.
StartBeat ==
    /\ alive /\ beat.at = "idle"
    /\ since >= MinGap
    /\ since' = 0
    /\ \/ /\ beat' = [NoProbe EXCEPT !.at = "probing", !.conf = conf, !.client = "starting", !.fell = ~exit]
          /\ UNCHANGED <<steady, faults>>
       \/ /\ Fault
          /\ \/ /\ beat' = [NoProbe EXCEPT !.at = "probing", !.conf = conf, !.client = "ended", !.fell = ~exit]
                /\ UNCHANGED steady
             \/ /\ beat' = [NoProbe EXCEPT !.at = "posting", !.reach = "unknown"]
                /\ steady' = 0
    /\ UNCHANGED <<node, controller, lost, off, flips>>

ClientBinds ==
    /\ beat.client = "starting"
    /\ beat' = [beat EXCEPT !.client = "bound"]
    /\ UNCHANGED <<node, since, controller, observers, counts>>

Knows(l) == Min(Lists[l]) \in Lists[running]
Through == beat.client = "bound" /\ exit /\ Knows(beat.conf)

\* Mutant: one fetch decides.
GivesUpAtOnce == TRUE

GivesUp == beat.tries + 1 = Tries

\* Mutant: what did not get through is not held against the exit path.
VerdictMild == "unknown"

Verdict == "blocked"

\* The client is killed, its directory removed; what is left is the reading.
Read(r) == beat' = [NoProbe EXCEPT !.at = "posting", !.reach = r, !.long = beat.long]

\* A fetch fails, at once or after 15 s; the client has 25 s to live.  It binds
\* in time for the last of the attempts.
Attempt ==
    /\ beat.at = "probing"
    /\ beat.tries + 1 = Tries => beat.client # "starting"
    /\ IF Through
       THEN Read("ok")
       ELSE IF GivesUp
       THEN Read(Verdict)
       ELSE \E c \in IF beat.client = "bound" /\ ~exit THEN {"bound", "ended"} ELSE {beat.client} :
                beat' = [beat EXCEPT !.client = c, !.tries = @ + 1]
    /\ UNCHANGED <<node, since, controller, observers, counts>>

\* Mutant: the age of a beat is judged by the time it says it was made.
ReceivedByTS == [age |-> Skew, reach |-> beat.reach]

\* Mutant: a blocked reading is kept until a unit is seen to be down.
ReceivedWorst == [age |-> 0, reach |-> IF saved.reach = "blocked" THEN "blocked" ELSE beat.reach]

\* SaveRUHealth, with received_at by the EU's clock.
Received == [age |-> 0, reach |-> beat.reach]

PostArrives ==
    /\ beat.at = "posting"
    /\ saved' = Received
    /\ beat' = NoProbe
    /\ lost' = 0 /\ off' = FALSE
    /\ UNCHANGED <<node, since, sinceAlert, firing, steady, counts>>

PostLost ==
    /\ beat.at = "posting"
    /\ Fault
    /\ lost' = lost + 1
    /\ beat' = NoProbe
    /\ UNCHANGED <<node, since, controller, off, steady, flips>>

-----------------------------------------------------------------------------
\* Mutant: staleAfter is the longest interval.
StaleSoon == saved.age > MaxGap

Stale == saved.age > StaleAfter

Condition ==
    CASE saved.reach = "none" \/ Stale -> "ru-down"
      [] saved.reach = "blocked" /\ ~Stale -> "ru-exit-blocked"
      [] OTHER -> "none"

\* rdda alert's look at the beat; Alert has what it does with what it finds.
Evaluate ==
    /\ sinceAlert >= MinAlert
    /\ sinceAlert' = 0
    /\ firing' = Condition
    /\ UNCHANGED <<node, since, beat, saved, observers, counts>>

-----------------------------------------------------------------------------
BeatStep == StartBeat \/ ClientBinds \/ Attempt \/ PostArrives

Next ==
    \/ Tick
    \/ ExitFlips \/ NodeDies \/ NodeBoots \/ Install \/ Reload
    \/ BeatStep \/ PostLost
    \/ Evaluate

Spec == Init /\ [][Next]_vars

(***************************************************************************)
(* Time passes, the timers fire, what has started goes on, and pulls go on *)
(* until a reload succeeds.  Nobody brings up a dead node.                 *)
(***************************************************************************)
FairSpec == Spec /\ WF_vars(Tick) /\ WF_vars(BeatStep) /\ WF_vars(Evaluate) /\ WF_vars(Reload)

-----------------------------------------------------------------------------
FlagsOK == alive \in BOOLEAN /\ exit \in BOOLEAN /\ off \in BOOLEAN

RangesOK ==
    /\ conf \in 1..Len(Lists) /\ running \in 1..conf
    /\ since \in -1..MaxGap /\ sinceAlert \in 0..MaxAlert
    /\ lost \in 0..faults /\ steady \in 0..BlockTold
    /\ faults \in 0..MaxFaults /\ flips \in 0..MaxFlips

TypeOK ==
    /\ FlagsOK /\ RangesOK
    /\ beat \in Beats
    /\ saved \in [age : 0..StaleAfter + 1, reach : Readings]
    /\ firing \in {"none", "ru-down", "ru-exit-blocked"}

\* alert.go:22, rdda-health.timer: however far apart the timer puts the beats and
\* however long they take, a node from which beats have come is only called down
\* if it was off or a beat of it was lost since the last one.
DownHasACause == [][firing' = "ru-down" /\ saved.reach # "none" /\ firing # "ru-down" => off \/ lost > 0]_vars

\* tunnelprobe.go:34-38: a reading is only "blocked" if the exit was down at some
\* time during the probe - or if the client never ran, or the list that it was
\* built from is not the one that sing-box was running: what could not be probed
\* and what is blocked is not told apart then.
BlockedHasACause ==
    [][beat'.reach = "blocked" /\ beat.at = "probing"
         => beat.fell \/ beat.client = "ended" \/ ~Knows(beat.conf)]_vars

\* state/health.go:12-13 "EU-clock time it arrived (used for staleness - never
\* trust the RU clock)": a node that is off is called down in time, whatever its
\* clock said.
OutageIsTold == ~alive /\ steady >= OutageTold => firing = "ru-down"

\* alert.go:85-87 "A blocked exit is an availability failure the operator must know
\* about": in bounded time one that goes on, and that can
\* be probed, is told - or that no beat comes.
BlockIsTold == ~exit /\ steady >= BlockTold => firing # "none"

\* Once the node is up and its exit works for good, no condition stays: a reading
\* that was wrong, or is old, is replaced.
Settles == <>[](alive /\ exit) => <>[](firing = "none")
=============================================================================
