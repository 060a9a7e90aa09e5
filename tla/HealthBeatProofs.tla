-------------------------- MODULE HealthBeatProofs --------------------------
(***************************************************************************)
(* Theorems about the health beat, for every setting of the two timers and *)
(* of staleAfter that puts beats no further apart than staleAfter, every   *)
(* number of attempts, every clock skew and every sequence of lists.       *)
(***************************************************************************)
EXTENDS HealthBeat, TLAPS

\* The assumptions, as the steps below use them.
LEMMA Settings ==
    /\ MaxGap \in Nat \ {0} /\ MaxGap + 1 <= StaleAfter
    /\ StaleAfter \in Nat /\ MaxAlert \in Nat \ {0}
    /\ Tries \in Nat \ {0}
    /\ MaxFlips \in Nat /\ MaxFaults \in Nat
    /\ Len(Lists) \in Nat \ {0} /\ DOMAIN Lists = 1..Len(Lists)
<1>1. MaxGap \in Nat \ {0} /\ StaleAfter \in Nat \ {0} /\ MaxAlert \in Nat \ {0} /\ Tries \in Nat \ {0}
  BY TimerAssumption
<1>2. Len(Lists) \in Nat \ {0} /\ DOMAIN Lists = 1..Len(Lists)
  BY ListsAssumption
<1>3. QED BY <1>1, <1>2, StaleAssumption, BeatBoundsAssumption

USE Settings

\* A beat exists only while the node is up, and a probe has no reading yet; it
\* remembers whether the exit was down, and a client that is none is past it.
ProbeInv ==
    /\ beat.at # "idle" => alive /\ since >= 0
    /\ beat.at = "idle" => beat.client = "none"
    /\ beat.at = "probing" => /\ beat.reach = "none" /\ beat.client # "none"
                              /\ ~exit => beat.fell
    /\ beat.at = "posting" => beat.client = "none"

\* While the node has been up and no beat was lost since the last that came, that
\* one is no older than the start of it - or, once the next has been started,
\* than an interval and the end of the unit the next one may see.
GapInv ==
    /\ ~alive => off
    /\ ~off /\ lost = 0 /\ beat.at = "idle" => saved.age <= since
    /\ ~off /\ lost = 0 /\ beat.at # "idle" => saved.age <= MaxGap + (IF beat.long THEN 1 ELSE 0)

\* While the node is off its last beat ages as the outage does, and as long as it
\* is not called down, neither was too old at the last evaluation.
OutageInv ==
    ~alive => /\ saved.age >= steady \/ saved.age = StaleAfter + 1
              /\ firing # "ru-down" => steady <= StaleAfter + sinceAlert

\* While the exit is down, a reading that does not say so is a beat that was on
\* its way, and ages as the outage does.
BlockInv ==
    ~exit => /\ beat.at = "posting" /\ beat.reach # "blocked"
                  => steady <= IF beat.long THEN 1 ELSE 0
             /\ saved.reach \notin {"none", "blocked"}
                  => saved.age >= steady - 1 \/ saved.age = StaleAfter + 1
             /\ firing = "none" => steady <= StaleAfter + 1 + sinceAlert

-----------------------------------------------------------------------------
LEMMA NoProbeIsBeat == NoProbe \in Beats
BY DEF NoProbe, Beats, Readings

\* What a probe changes of a beat leaves it a beat.
LEMMA BeatGoesOn ==
    ASSUME NEW b \in Beats, NEW c \in {"none", "starting", "bound", "ended"}, NEW t \in 0..Tries - 1
    PROVE  [b EXCEPT !.client = c, !.tries = t] \in Beats
BY DEF Beats

LEMMA BeatIsRead ==
    ASSUME NEW b \in Beats, NEW r \in Readings
    PROVE  [NoProbe EXCEPT !.at = "posting", !.reach = r, !.long = b.long] \in Beats
<1>1. b.long \in BOOLEAN
  BY DEF Beats
<1>2. 0 \in 0..Len(Lists) /\ 0 \in 0..Tries - 1
  OBVIOUS
<1>3. QED
  BY <1>1, <1>2 DEF Beats, NoProbe

LEMMA BeatStarts ==
    ASSUME NEW f \in BOOLEAN, NEW c \in {"starting", "ended"}, NEW l \in 0..Len(Lists)
    PROVE  /\ [NoProbe EXCEPT !.at = "probing", !.conf = l, !.client = c, !.fell = f] \in Beats
           /\ [NoProbe EXCEPT !.at = "posting", !.reach = "unknown"] \in Beats
<1>1. 0 \in 0..Len(Lists) /\ 0 \in 0..Tries - 1
  OBVIOUS
<1>2. QED
  BY <1>1 DEF Beats, NoProbe, Readings

LEMMA InitTypeOK == Init => TypeOK
<1> SUFFICES ASSUME Init PROVE TypeOK
  OBVIOUS
<1>1. FlagsOK
  BY DEF Init, FlagsOK
<1>2. RangesOK
  BY DEF Init, RangesOK, BlockTold
<1>3. beat \in Beats
  BY NoProbeIsBeat DEF Init
<1>4. saved \in [age : 0..StaleAfter + 1, reach : Readings]
  BY DEF Init, Readings
<1>5. firing \in {"none", "ru-down", "ru-exit-blocked"}
  BY DEF Init
<1>6. QED
  BY <1>1, <1>2, <1>3, <1>4, <1>5 DEF TypeOK

\* Each action keeps the types: the flags, the ranges, and the two records.
LEMMA NextTypeOK == TypeOK /\ [Next]_vars => TypeOK'
<1> SUFFICES ASSUME TypeOK, [Next]_vars PROVE TypeOK'
  OBVIOUS
<1> USE DEF TypeOK
<1>1. CASE Tick
  <2>1. FlagsOK'
    BY <1>1 DEF Tick, FlagsOK, node, counts
  <2>2. RangesOK'
    <3>1. since' = since \/ (since < MaxGap /\ since' = since + 1)
      BY <1>1 DEF Tick
    <3>2. /\ steady' = CapAt(steady + 1, BlockTold)
          /\ sinceAlert < MaxAlert /\ sinceAlert' = sinceAlert + 1
          /\ UNCHANGED <<conf, running, lost, faults, flips>>
      BY <1>1 DEF Tick, node, counts
    <3>3. QED
      BY <3>1, <3>2 DEF RangesOK, CapAt, BlockTold
  <2>3. beat' \in Beats
    BY <1>1 DEF Tick, node, counts, Beats
  <2>4. saved' \in [age : 0..StaleAfter + 1, reach : Readings]
    BY <1>1 DEF Tick, node, counts, CapAt
  <2>5. firing' \in {"none", "ru-down", "ru-exit-blocked"}
    BY <1>1 DEF Tick, node, counts
  <2>6. QED
    BY <2>1, <2>2, <2>3, <2>4, <2>5
<1>2. CASE ExitFlips
  <2>1. FlagsOK'
    BY <1>2 DEF ExitFlips, FlagsOK, Flip, controller
  <2>2. RangesOK'
    <3>1. /\ steady' = 0 /\ flips' = flips + 1 /\ flips < MaxFlips
          /\ UNCHANGED <<conf, running, since, sinceAlert, lost, faults>>
      BY <1>2 DEF ExitFlips, Flip, controller
    <3>2. QED
      BY <3>1 DEF RangesOK, BlockTold
  <2>3. beat' \in Beats
    BY <1>2 DEF ExitFlips, Flip, controller, Beats
  <2>4. saved' \in [age : 0..StaleAfter + 1, reach : Readings]
    BY <1>2 DEF ExitFlips, Flip, controller
  <2>5. firing' \in {"none", "ru-down", "ru-exit-blocked"}
    BY <1>2 DEF ExitFlips, Flip, controller
  <2>6. QED
    BY <2>1, <2>2, <2>3, <2>4, <2>5
<1>3. CASE NodeDies
  <2>1. FlagsOK'
    BY <1>3 DEF NodeDies, FlagsOK, Flip, controller
  <2>2. RangesOK'
    BY <1>3 DEF NodeDies, RangesOK, Flip, controller, BlockTold
  <2>3. beat' \in Beats
    BY <1>3, NoProbeIsBeat DEF NodeDies, Flip, controller
  <2>4. saved' \in [age : 0..StaleAfter + 1, reach : Readings]
    BY <1>3 DEF NodeDies, Flip, controller
  <2>5. firing' \in {"none", "ru-down", "ru-exit-blocked"}
    BY <1>3 DEF NodeDies, Flip, controller
  <2>6. QED
    BY <2>1, <2>2, <2>3, <2>4, <2>5
<1>4. CASE NodeBoots
  <2>1. FlagsOK'
    BY <1>4 DEF NodeBoots, FlagsOK, controller, counts
  <2>2. RangesOK'
    BY <1>4 DEF NodeBoots, RangesOK, controller, counts, BlockTold
  <2>3. beat' \in Beats
    BY <1>4 DEF NodeBoots, controller, counts
  <2>4. saved' \in [age : 0..StaleAfter + 1, reach : Readings]
    BY <1>4 DEF NodeBoots, controller, counts
  <2>5. firing' \in {"none", "ru-down", "ru-exit-blocked"}
    BY <1>4 DEF NodeBoots, controller, counts
  <2>6. QED
    BY <2>1, <2>2, <2>3, <2>4, <2>5
<1>5. CASE Install
  <2>1. FlagsOK'
    BY <1>5 DEF Install, FlagsOK, controller, observers, counts
  <2>2. RangesOK'
    BY <1>5 DEF Install, RangesOK, controller, observers, counts
  <2>3. beat' \in Beats
    BY <1>5 DEF Install, controller, observers, counts
  <2>4. saved' \in [age : 0..StaleAfter + 1, reach : Readings]
    BY <1>5 DEF Install, controller, observers, counts
  <2>5. firing' \in {"none", "ru-down", "ru-exit-blocked"}
    BY <1>5 DEF Install, controller, observers, counts
  <2>6. QED
    BY <2>1, <2>2, <2>3, <2>4, <2>5
<1>6. CASE Reload
  <2>1. FlagsOK'
    BY <1>6 DEF Reload, FlagsOK, controller, observers, counts
  <2>2. RangesOK'
    BY <1>6 DEF Reload, RangesOK, controller, observers, counts
  <2>3. beat' \in Beats
    BY <1>6 DEF Reload, controller, observers, counts
  <2>4. saved' \in [age : 0..StaleAfter + 1, reach : Readings]
    BY <1>6 DEF Reload, controller, observers, counts
  <2>5. firing' \in {"none", "ru-down", "ru-exit-blocked"}
    BY <1>6 DEF Reload, controller, observers, counts
  <2>6. QED
    BY <2>1, <2>2, <2>3, <2>4, <2>5
<1>7. CASE StartBeat
  <2>1. FlagsOK'
    BY <1>7 DEF StartBeat, FlagsOK, Fault, node, controller
  <2>2. RangesOK'
    <3>1. /\ since' = 0 /\ (steady' = steady \/ steady' = 0)
          /\ UNCHANGED <<conf, running, sinceAlert, lost, flips>>
      BY <1>7 DEF StartBeat, node, controller
    <3>2. UNCHANGED faults \/ (faults < MaxFaults /\ faults' = faults + 1)
      BY <1>7, Zenon DEF StartBeat, Fault
    <3>3. QED
      BY <3>1, <3>2 DEF RangesOK, BlockTold
  <2>3. beat' \in Beats
    <3>1. conf \in 0..Len(Lists) /\ (~exit) \in BOOLEAN
      BY DEF RangesOK
    <3>2. CASE \E c \in {"starting", "ended"} :
                 beat' = [NoProbe EXCEPT !.at = "probing", !.conf = conf, !.client = c, !.fell = ~exit]
      <4>1. PICK c \in {"starting", "ended"} :
               beat' = [NoProbe EXCEPT !.at = "probing", !.conf = conf, !.client = c, !.fell = ~exit]
        BY <3>2
      <4>2. PICK f \in BOOLEAN : f = ~exit
        BY Zenon
      <4>3. QED
        BY <3>1, <4>1, <4>2, BeatStarts
    <3>3. CASE beat' = [NoProbe EXCEPT !.at = "posting", !.reach = "unknown"]
      BY <3>1, <3>3, BeatStarts
    <3>4. QED
      BY <1>7, <3>2, <3>3 DEF StartBeat
  <2>4. saved' \in [age : 0..StaleAfter + 1, reach : Readings]
    BY <1>7 DEF StartBeat, Fault, node, controller
  <2>5. firing' \in {"none", "ru-down", "ru-exit-blocked"}
    BY <1>7 DEF StartBeat, Fault, node, controller
  <2>6. QED
    BY <2>1, <2>2, <2>3, <2>4, <2>5
<1>8. CASE ClientBinds
  <2>1. FlagsOK'
    BY <1>8 DEF ClientBinds, FlagsOK, node, controller, observers, counts
  <2>2. RangesOK'
    BY <1>8 DEF ClientBinds, RangesOK, node, controller, observers, counts
  <2>3. beat' \in Beats
    BY <1>8 DEF ClientBinds, node, controller, observers, counts, Beats
  <2>4. saved' \in [age : 0..StaleAfter + 1, reach : Readings]
    BY <1>8 DEF ClientBinds, node, controller, observers, counts
  <2>5. firing' \in {"none", "ru-down", "ru-exit-blocked"}
    BY <1>8 DEF ClientBinds, node, controller, observers, counts
  <2>6. QED
    BY <2>1, <2>2, <2>3, <2>4, <2>5
<1>9. CASE Attempt
  <2>1. FlagsOK'
    BY <1>9 DEF Attempt, FlagsOK, node, controller, observers, counts
  <2>2. RangesOK'
    BY <1>9 DEF Attempt, RangesOK, node, controller, observers, counts
  <2>3. beat' \in Beats
    <3>1. CASE \E r \in {"ok", "blocked"} : Read(r)
      BY <3>1, BeatIsRead DEF Read, Readings
    <3>2. CASE ~GivesUp /\ \E c \in {"bound", "ended", beat.client} :
                              beat' = [beat EXCEPT !.client = c, !.tries = @ + 1]
      <4>1. beat.tries + 1 \in 0..Tries - 1
        BY <3>2 DEF GivesUp, Beats
      <4>2. beat.client \in {"none", "starting", "bound", "ended"}
        BY DEF Beats
      <4>3. PICK c \in {"none", "starting", "bound", "ended"} :
               beat' = [beat EXCEPT !.client = c, !.tries = beat.tries + 1]
        BY <3>2, <4>2
      <4>4. QED
        BY <4>1, <4>3, BeatGoesOn
    <3>3. QED
      BY <1>9, <3>1, <3>2 DEF Attempt, Verdict
  <2>4. saved' \in [age : 0..StaleAfter + 1, reach : Readings]
    BY <1>9 DEF Attempt, node, controller, observers, counts
  <2>5. firing' \in {"none", "ru-down", "ru-exit-blocked"}
    BY <1>9 DEF Attempt, node, controller, observers, counts
  <2>6. QED
    BY <2>1, <2>2, <2>3, <2>4, <2>5
<1>10. CASE PostArrives
  <2>1. FlagsOK'
    BY <1>10 DEF PostArrives, FlagsOK, node, counts
  <2>2. RangesOK'
    BY <1>10 DEF PostArrives, RangesOK, node, counts
  <2>3. beat' \in Beats
    BY <1>10, NoProbeIsBeat DEF PostArrives, node, counts
  <2>4. saved' \in [age : 0..StaleAfter + 1, reach : Readings]
    BY <1>10 DEF PostArrives, node, counts, Received, Beats
  <2>5. firing' \in {"none", "ru-down", "ru-exit-blocked"}
    BY <1>10 DEF PostArrives, node, counts
  <2>6. QED
    BY <2>1, <2>2, <2>3, <2>4, <2>5
<1>11. CASE PostLost
  <2>1. FlagsOK'
    BY <1>11 DEF PostLost, FlagsOK, Fault, node, controller
  <2>2. RangesOK'
    BY <1>11 DEF PostLost, RangesOK, Fault, node, controller
  <2>3. beat' \in Beats
    BY <1>11, NoProbeIsBeat DEF PostLost, Fault, node, controller
  <2>4. saved' \in [age : 0..StaleAfter + 1, reach : Readings]
    BY <1>11 DEF PostLost, Fault, node, controller
  <2>5. firing' \in {"none", "ru-down", "ru-exit-blocked"}
    BY <1>11 DEF PostLost, Fault, node, controller
  <2>6. QED
    BY <2>1, <2>2, <2>3, <2>4, <2>5
<1>12. CASE Evaluate
  <2>1. FlagsOK'
    BY <1>12 DEF Evaluate, FlagsOK, node, observers, counts
  <2>2. RangesOK'
    BY <1>12 DEF Evaluate, RangesOK, node, observers, counts
  <2>3. beat' \in Beats
    BY <1>12 DEF Evaluate, node, observers, counts
  <2>4. saved' \in [age : 0..StaleAfter + 1, reach : Readings]
    BY <1>12 DEF Evaluate, node, observers, counts
  <2>5. firing' \in {"none", "ru-down", "ru-exit-blocked"}
    BY <1>12 DEF Evaluate, node, observers, counts, Condition
  <2>6. QED
    BY <2>1, <2>2, <2>3, <2>4, <2>5
<1>13. CASE UNCHANGED vars
  <2>1. FlagsOK'
    BY <1>13 DEF FlagsOK, vars, node, controller, observers, counts
  <2>2. RangesOK'
    BY <1>13 DEF RangesOK, vars, node, controller, observers, counts
  <2>3. beat' \in Beats
    BY <1>13 DEF vars, node, controller, observers, counts
  <2>4. saved' \in [age : 0..StaleAfter + 1, reach : Readings]
    BY <1>13 DEF vars, node, controller, observers, counts
  <2>5. firing' \in {"none", "ru-down", "ru-exit-blocked"}
    BY <1>13 DEF vars, node, controller, observers, counts
  <2>6. QED
    BY <2>1, <2>2, <2>3, <2>4, <2>5
<1>14. QED
  BY <1>1, <1>2, <1>3, <1>4, <1>5, <1>6, <1>7, <1>8, <1>9, <1>10, <1>11, <1>12, <1>13 DEF Next, BeatStep

\* Every variable keeps its type, whatever the intervals and bounds.
THEOREM BeatTypeCorrect == Spec => []TypeOK
BY InitTypeOK, NextTypeOK, PTL DEF Spec

-----------------------------------------------------------------------------
LEMMA InitProbe == Init => ProbeInv
BY DEF Init, ProbeInv, NoProbe

\* A probe that fails to get through with its last attempt had a cause.
LEMMA NextProbe == TypeOK /\ ProbeInv /\ [Next]_vars => ProbeInv'
<1> SUFFICES ASSUME TypeOK, ProbeInv, [Next]_vars PROVE ProbeInv'
  OBVIOUS
<1>0. since \in Int
  BY DEF TypeOK, RangesOK
<1>1. CASE Tick
  <2>1. since >= 0 => since' >= 0
    <3>1. since' = since \/ since' = since + 1
      BY <1>1 DEF Tick
    <3>2. QED BY <1>0, <3>1
  <2>2. UNCHANGED <<alive, exit>>
    BY <1>1 DEF Tick, node
  <2>3. /\ beat'.at = beat.at /\ beat'.client = beat.client
        /\ beat'.reach = beat.reach /\ beat'.fell = beat.fell
    BY <1>1 DEF Tick, TypeOK, Beats
  <2>4. QED
    BY <2>1, <2>2, <2>3 DEF ProbeInv
<1>2. CASE ExitFlips
  <2>1. UNCHANGED <<alive, since>>
    BY <1>2 DEF ExitFlips
  <2>2. /\ beat'.at = beat.at /\ beat'.client = beat.client
        /\ beat'.reach = beat.reach /\ (beat.at = "probing" => beat'.fell)
    BY <1>2 DEF ExitFlips, TypeOK, Beats
  <2>3. QED
    BY <2>1, <2>2 DEF ProbeInv
<1>3. CASE NodeDies
  BY <1>3 DEF NodeDies, ProbeInv, NoProbe
<1>4. CASE NodeBoots
  BY <1>4 DEF NodeBoots, ProbeInv
<1>5. CASE Install \/ Reload \/ UNCHANGED vars
  BY <1>5 DEF Install, Reload, vars, node, ProbeInv
<1>6. CASE StartBeat
  <2>1. UNCHANGED <<alive, exit>> /\ alive /\ since' = 0
    BY <1>6 DEF StartBeat, node
  <2>2. CASE \E c \in {"starting", "ended"} :
                beat' = [NoProbe EXCEPT !.at = "probing", !.conf = conf, !.client = c, !.fell = ~exit]
    <3>1. /\ beat'.at = "probing" /\ beat'.reach = "none"
          /\ beat'.client # "none" /\ beat'.fell = ~exit
      BY <2>2 DEF NoProbe
    <3>2. ~exit => beat'.fell
      BY <3>1, Zenon
    <3>3. 0 >= 0
      OBVIOUS
    <3>4. QED
      BY <2>1, <3>1, <3>2, <3>3 DEF ProbeInv
  <2>3. CASE beat' = [NoProbe EXCEPT !.at = "posting", !.reach = "unknown"]
    BY <2>1, <2>3 DEF ProbeInv, NoProbe
  <2>4. QED
    BY <1>6, <2>2, <2>3 DEF StartBeat
<1>7. CASE ClientBinds
  <2>1. UNCHANGED <<alive, exit, since>>
    BY <1>7 DEF ClientBinds, node
  <2>2. /\ beat'.at = beat.at /\ beat'.client = "bound" /\ beat.client = "starting"
        /\ beat'.reach = beat.reach /\ beat'.fell = beat.fell
    BY <1>7 DEF ClientBinds, TypeOK, Beats
  <2>3. QED
    BY <2>1, <2>2 DEF ProbeInv, TypeOK, Beats
<1>8. CASE Attempt
  <2>1. UNCHANGED <<alive, exit, since>> /\ beat.at = "probing"
    BY <1>8 DEF Attempt, node
  <2>2. CASE \E r \in {"ok", "blocked"} : Read(r)
    BY <2>1, <2>2 DEF Read, ProbeInv, NoProbe
  <2>3. CASE \E c \in {"bound", "ended", beat.client} : beat' = [beat EXCEPT !.client = c, !.tries = @ + 1]
    <3>1. /\ beat'.at = beat.at /\ beat'.client \in {"bound", "ended", beat.client}
          /\ beat'.reach = beat.reach /\ beat'.fell = beat.fell
      BY <2>3 DEF TypeOK, Beats
    <3>2. alive /\ since >= 0 /\ beat.reach = "none" /\ beat.client # "none" /\ (~exit => beat.fell)
      BY <2>1 DEF ProbeInv
    <3>3. beat'.at = "probing" /\ beat'.client # "none" /\ beat'.reach = "none"
      BY <2>1, <3>1, <3>2
    <3>4. QED
      BY <2>1, <3>1, <3>2, <3>3 DEF ProbeInv
  <2>4. QED
    BY <1>8, <2>2, <2>3 DEF Attempt, Verdict
<1>9. CASE PostArrives \/ PostLost
  BY <1>9 DEF PostArrives, PostLost, ProbeInv, NoProbe, node
<1>10. CASE Evaluate
  BY <1>10 DEF Evaluate, ProbeInv, node
<1>11. QED
  BY <1>1, <1>2, <1>3, <1>4, <1>5, <1>6, <1>7, <1>8, <1>9, <1>10 DEF Next, BeatStep

\* The last attempt that fails is made by a client that has bound its port, or
\* has ended.
LEMMA BlockedStep == TypeOK /\ ProbeInv /\ [Next]_vars
    => (beat'.reach = "blocked" /\ beat.at = "probing"
          => beat.fell \/ beat.client = "ended" \/ ~Knows(beat.conf))
<1> SUFFICES ASSUME TypeOK, ProbeInv, [Next]_vars, beat'.reach = "blocked", beat.at = "probing"
             PROVE  beat.fell \/ beat.client = "ended" \/ ~Knows(beat.conf)
  OBVIOUS
<1>1. beat.reach = "none" /\ beat.client \in {"starting", "bound", "ended"} /\ (~exit => beat.fell)
  BY DEF TypeOK, ProbeInv, Beats
<1>2. CASE Attempt
  <2>1. ~Through /\ GivesUp
    <3>1. CASE Through
      BY <1>2, <3>1 DEF Attempt, Read, NoProbe
    <3>2. CASE ~Through /\ ~GivesUp
      <4>1. PICK c : beat' = [beat EXCEPT !.client = c, !.tries = @ + 1]
        BY <1>2, <3>2 DEF Attempt
      <4>2. beat'.reach = beat.reach
        BY <4>1 DEF TypeOK, Beats
      <4>3. QED BY <1>1, <4>2
    <3>3. QED BY <3>1, <3>2
  <2>2. beat.client # "starting"
    BY <1>2, <2>1 DEF Attempt, GivesUp
  <2>3. QED
    BY <1>1, <2>1, <2>2 DEF Through
<1>3. CASE Tick \/ ExitFlips \/ ClientBinds
  <2>1. beat'.reach = beat.reach
    BY <1>3 DEF Tick, ExitFlips, ClientBinds, TypeOK, Beats
  <2>2. QED BY <1>1, <2>1
<1>4. CASE NodeDies \/ StartBeat \/ PostArrives \/ PostLost
  BY <1>4 DEF NodeDies, StartBeat, PostArrives, PostLost, NoProbe
<1>5. CASE NodeBoots \/ Install \/ Reload \/ Evaluate \/ UNCHANGED vars
  BY <1>1, <1>5 DEF NodeBoots, Install, Reload, Evaluate, vars
<1>6. QED
  BY <1>2, <1>3, <1>4, <1>5 DEF Next, BeatStep

\* tunnelprobe.go:34-38: a blocked reading was preceded by an exit that was down, a
\* client that ended, or a list that sing-box was not running.
THEOREM BlockedReadings == Spec => BlockedHasACause
<1>1. Init => TypeOK /\ ProbeInv
  BY InitTypeOK, InitProbe
<1>2. TypeOK /\ ProbeInv /\ [Next]_vars => (TypeOK /\ ProbeInv)'
  BY NextTypeOK, NextProbe
<1>3. QED
  BY <1>1, <1>2, BlockedStep, PTL DEF Spec, BlockedHasACause

-----------------------------------------------------------------------------
\* The gap between two beats that came, both, is an interval and a unit.
LEMMA InitGap == Init => GapInv
BY DEF Init, GapInv, NoProbe

LEMMA NextGap == TypeOK /\ ProbeInv /\ GapInv /\ [Next]_vars => GapInv'
<1> SUFFICES ASSUME TypeOK, ProbeInv, GapInv, [Next]_vars PROVE GapInv'
  OBVIOUS
<1>0. /\ since \in -1..MaxGap /\ saved.age \in 0..StaleAfter + 1
      /\ lost \in Nat /\ beat.long \in BOOLEAN
  BY DEF TypeOK, RangesOK, Beats
<1>1. CASE Tick
  <2>1. /\ UNCHANGED <<alive, off, lost>> /\ beat'.at = beat.at
        /\ saved'.age = CapAt(saved.age + 1, StaleAfter + 1)
        /\ (beat.at # "idle" => ~beat.long /\ beat'.long)
    BY <1>1 DEF Tick, node, TypeOK, Beats
  <2>2. saved'.age <= saved.age + 1 /\ saved'.age \in Int
    BY <1>0, <2>1 DEF CapAt
  <2>3. CASE off \/ lost # 0
    BY <2>1, <2>3 DEF GapInv
  <2>4. CASE ~off /\ lost = 0 /\ beat.at = "idle"
    <3>1. since' = since + 1 /\ saved.age <= since
      BY <1>1, <2>4 DEF Tick, GapInv
    <3>2. saved'.age <= since'
      BY <1>0, <2>1, <2>2, <3>1
    <3>3. QED
      BY <2>1, <2>4, <3>2 DEF GapInv
  <2>5. CASE ~off /\ lost = 0 /\ beat.at # "idle"
    <3>1. saved.age <= MaxGap
      BY <2>1, <2>5 DEF GapInv
    <3>2. saved'.age <= MaxGap + 1
      BY <1>0, <2>1, <2>2, <3>1
    <3>3. QED
      BY <2>1, <2>5, <3>2 DEF GapInv
  <2>6. QED
    BY <2>3, <2>4, <2>5
<1>2. CASE ExitFlips \/ ClientBinds
  <2>1. /\ UNCHANGED <<alive, off, lost, since, saved>>
        /\ beat'.at = beat.at /\ beat'.long = beat.long
    BY <1>2 DEF ExitFlips, ClientBinds, node, controller, observers, TypeOK, Beats
  <2>2. QED
    BY <2>1 DEF GapInv
<1>3. CASE NodeDies
  BY <1>3 DEF NodeDies, GapInv
<1>4. CASE NodeBoots
  <2>1. ~alive /\ off /\ UNCHANGED off
    BY <1>4 DEF NodeBoots, GapInv
  <2>2. QED
    BY <2>1 DEF GapInv
<1>5. CASE Install \/ Reload \/ UNCHANGED vars
  <2>1. UNCHANGED <<alive, off, lost, since, saved, beat>>
    BY <1>5 DEF Install, Reload, vars, node, controller, observers
  <2>2. QED
    BY <2>1 DEF GapInv
<1>6. CASE StartBeat
  <2>1. /\ UNCHANGED <<alive, off, lost, saved>> /\ beat.at = "idle"
        /\ beat'.at # "idle" /\ beat'.long = FALSE
    BY <1>6 DEF StartBeat, node, controller, NoProbe
  <2>2. ~off /\ lost = 0 => saved'.age <= MaxGap
    BY <1>0, <2>1 DEF GapInv
  <2>3. QED
    BY <2>1, <2>2 DEF GapInv
<1>7. CASE Attempt
  <2>1. UNCHANGED <<alive, off, lost, since, saved>> /\ beat.at = "probing"
    BY <1>7 DEF Attempt, node, controller, observers
  <2>2. beat'.at # "idle" /\ beat'.long = beat.long
    <3>1. CASE \E r \in {"ok", "blocked"} : Read(r)
      BY <3>1 DEF Read, NoProbe
    <3>2. CASE \E c \in {"bound", "ended", beat.client} : beat' = [beat EXCEPT !.client = c, !.tries = @ + 1]
      BY <2>1, <3>2 DEF TypeOK, Beats
    <3>3. QED
      BY <1>7, <3>1, <3>2 DEF Attempt, Verdict
  <2>3. QED
    BY <2>1, <2>2 DEF GapInv
<1>8. CASE PostArrives
  <2>1. /\ UNCHANGED <<alive, since>> /\ alive /\ since >= 0
        /\ saved'.age = 0 /\ beat'.at = "idle"
    BY <1>8 DEF PostArrives, Received, NoProbe, node, ProbeInv
  <2>2. saved'.age <= since'
    BY <1>0, <2>1
  <2>3. QED
    BY <2>1, <2>2 DEF GapInv
<1>9. CASE PostLost
  <2>1. UNCHANGED <<alive, off>> /\ lost' = lost + 1
    BY <1>9 DEF PostLost, node
  <2>2. lost' # 0
    BY <1>0, <2>1
  <2>3. QED
    BY <2>1, <2>2 DEF GapInv
<1>10. CASE Evaluate
  <2>1. UNCHANGED <<alive, off, lost, since, saved, beat>>
    BY <1>10 DEF Evaluate, node, observers
  <2>2. QED
    BY <2>1 DEF GapInv
<1>11. QED
  BY <1>1, <1>2, <1>3, <1>4, <1>5, <1>6, <1>7, <1>8, <1>9, <1>10 DEF Next, BeatStep

\* Only an evaluation finds a node down, and the last beat is then older than any
\* gap between two that came.
LEMMA DownStep == TypeOK /\ GapInv /\ [Next]_vars
    => (firing' = "ru-down" /\ saved.reach # "none" /\ firing # "ru-down" => off \/ lost > 0)
<1> SUFFICES ASSUME TypeOK, GapInv, [Next]_vars,
                    firing' = "ru-down", saved.reach # "none", firing # "ru-down", ~off
             PROVE  lost > 0
  OBVIOUS
<1>1. Evaluate
  BY DEF Next, BeatStep, Tick, ExitFlips, NodeDies, NodeBoots, Install, Reload, StartBeat,
         ClientBinds, Attempt, PostArrives, PostLost, vars, controller
<1>2. saved.age > StaleAfter
  BY <1>1 DEF Evaluate, Condition, Stale
<1>3. since <= MaxGap /\ saved.age \in Int /\ lost \in Nat /\ since \in Int
  BY DEF TypeOK, RangesOK
<1>4. CASE lost = 0
  <2>1. saved.age <= since \/ saved.age <= MaxGap + 1 \/ saved.age <= MaxGap + 0
    BY <1>4 DEF GapInv
  <2>2. QED BY <1>2, <1>3, <2>1
<1>5. QED BY <1>3, <1>4

\* alert.go:22: with a staleAfter of more than an interval and a unit, a node that
\* has been up and none of whose beats was lost is never called down.
THEOREM NoFalseDown == Spec => DownHasACause
<1>1. Init => TypeOK /\ ProbeInv /\ GapInv
  BY InitTypeOK, InitProbe, InitGap
<1>2. TypeOK /\ ProbeInv /\ GapInv /\ [Next]_vars => (TypeOK /\ ProbeInv /\ GapInv)'
  BY NextTypeOK, NextProbe, NextGap
<1>3. QED
  BY <1>1, <1>2, DownStep, PTL DEF Spec, DownHasACause

-----------------------------------------------------------------------------
LEMMA InitOutage == Init => OutageInv /\ BlockInv
BY DEF Init, OutageInv, BlockInv

\* While the node is off, only time and evaluations go on.
LEMMA NextOutage == TypeOK /\ ProbeInv /\ OutageInv /\ [Next]_vars => OutageInv'
<1> SUFFICES ASSUME TypeOK, ProbeInv, OutageInv, [Next]_vars, ~alive' PROVE OutageInv'
  BY DEF OutageInv
<1>0. /\ saved.age \in 0..StaleAfter + 1 /\ sinceAlert \in Nat /\ steady \in 0..BlockTold
      /\ BlockTold > StaleAfter + 1 /\ BlockTold \in Nat
  BY DEF TypeOK, RangesOK, BlockTold
<1>1. CASE Tick
  <2>1. /\ saved'.age = CapAt(saved.age + 1, StaleAfter + 1)
        /\ steady' = CapAt(steady + 1, BlockTold) /\ sinceAlert' = sinceAlert + 1
        /\ firing' = firing /\ alive' = alive
    BY <1>1 DEF Tick, TypeOK, node
  <2>2. /\ saved.age >= steady \/ saved.age = StaleAfter + 1
        /\ firing # "ru-down" => steady <= StaleAfter + sinceAlert
    BY <2>1 DEF OutageInv
  <2>3. /\ saved'.age >= steady' \/ saved'.age = StaleAfter + 1
        /\ steady <= StaleAfter + sinceAlert => steady' <= StaleAfter + sinceAlert'
    BY <1>0, <2>1, <2>2 DEF CapAt
  <2>4. QED
    BY <2>1, <2>2, <2>3 DEF OutageInv
<1>2. CASE ExitFlips \/ NodeDies
  <2>1. steady' = 0 /\ UNCHANGED <<saved, sinceAlert>>
    BY <1>2 DEF ExitFlips, NodeDies, Flip, controller
  <2>2. saved'.age >= steady' /\ steady' <= StaleAfter + sinceAlert'
    BY <1>0, <2>1
  <2>3. QED
    BY <2>2 DEF OutageInv
<1>3. CASE Evaluate
  <2>1. /\ UNCHANGED <<alive, saved, steady>> /\ sinceAlert' = 0 /\ firing' = Condition
    BY <1>3 DEF Evaluate, node, observers
  <2>2. saved.age >= steady \/ saved.age = StaleAfter + 1
    BY <2>1 DEF OutageInv
  <2>3. Condition # "ru-down" => ~(saved.age > StaleAfter)
    BY DEF Condition, Stale
  <2>4. Condition # "ru-down" => steady' <= StaleAfter + sinceAlert'
    BY <1>0, <2>1, <2>2, <2>3
  <2>5. QED
    BY <2>1, <2>2, <2>4 DEF OutageInv
<1>4. CASE UNCHANGED vars
  BY <1>4 DEF vars, node, controller, observers, OutageInv
<1>5. CASE NodeBoots \/ Install \/ Reload \/ StartBeat \/ ClientBinds \/ Attempt \/ PostArrives \/ PostLost
  <2>1. alive'
    BY <1>5 DEF NodeBoots, Install, Reload, StartBeat, ClientBinds, Attempt, PostArrives, PostLost,
                node, ProbeInv
  <2>2. QED BY <2>1
<1>6. QED
  BY <1>1, <1>2, <1>3, <1>4, <1>5 DEF Next, BeatStep

\* state/health.go:12-13: a node that is off is called down within staleAfter, one
\* interval of rdda alert and a unit.
THEOREM OutageTheorem == Spec => []OutageIsTold
<1>1. Init => TypeOK /\ ProbeInv /\ OutageInv
  BY InitTypeOK, InitProbe, InitOutage
<1>2. TypeOK /\ ProbeInv /\ OutageInv /\ [Next]_vars => (TypeOK /\ ProbeInv /\ OutageInv)'
  BY NextTypeOK, NextProbe, NextOutage
<1>3. TypeOK /\ OutageInv => OutageIsTold
  <2> SUFFICES ASSUME TypeOK, OutageInv, ~alive, steady >= OutageTold, firing # "ru-down" PROVE FALSE
    BY DEF OutageIsTold
  <2>1. steady <= StaleAfter + sinceAlert
    BY DEF OutageInv
  <2>2. steady \in Int /\ sinceAlert \in 0..MaxAlert
    BY DEF TypeOK, RangesOK
  <2>3. QED BY <2>1, <2>2 DEF OutageTold
<1>4. QED
  BY <1>1, <1>2, <1>3, PTL DEF Spec

-----------------------------------------------------------------------------
\* While the exit is down no reading is ok: what is not blocked was on its way.
LEMMA NextBlock == TypeOK /\ ProbeInv /\ BlockInv /\ [Next]_vars => BlockInv'
<1> SUFFICES ASSUME TypeOK, ProbeInv, BlockInv, [Next]_vars, ~exit' PROVE BlockInv'
  BY DEF BlockInv
<1>0. /\ saved.age \in 0..StaleAfter + 1 /\ sinceAlert \in Nat /\ steady \in 0..BlockTold
      /\ BlockTold > StaleAfter + 2 /\ BlockTold \in Nat /\ beat.long \in BOOLEAN
  BY DEF TypeOK, RangesOK, BlockTold, Beats
<1>1. CASE Tick
  <2>1. /\ saved'.age = CapAt(saved.age + 1, StaleAfter + 1) /\ saved'.reach = saved.reach
        /\ steady' = CapAt(steady + 1, BlockTold) /\ sinceAlert' = sinceAlert + 1
        /\ firing' = firing /\ exit' = exit
        /\ beat'.at = beat.at /\ beat'.reach = beat.reach
        /\ (beat.at # "idle" => ~beat.long /\ beat'.long)
    BY <1>1 DEF Tick, TypeOK, node, Beats
  <2>2. saved.reach \notin {"none", "blocked"} => saved'.age >= steady' - 1 \/ saved'.age = StaleAfter + 1
    <3>1. saved.reach \notin {"none", "blocked"} => saved.age >= steady - 1 \/ saved.age = StaleAfter + 1
      BY <2>1 DEF BlockInv
    <3>2. QED BY <1>0, <2>1, <3>1 DEF CapAt
  <2>3. firing = "none" => steady' <= StaleAfter + 1 + sinceAlert'
    <3>1. firing = "none" => steady <= StaleAfter + 1 + sinceAlert
      BY <2>1 DEF BlockInv
    <3>2. QED BY <1>0, <2>1, <3>1 DEF CapAt
  <2>4. beat.at = "posting" /\ beat.reach # "blocked" => steady' <= 1
    <3>1. beat.at = "posting" /\ beat.reach # "blocked" => steady <= 0
      BY <2>1 DEF BlockInv
    <3>2. QED BY <1>0, <2>1, <3>1 DEF CapAt
  <2>5. QED
    BY <2>1, <2>2, <2>3, <2>4 DEF BlockInv
<1>2. CASE ExitFlips \/ NodeDies \/ NodeBoots
  <2>1. steady' = 0 /\ UNCHANGED <<saved, sinceAlert>>
    BY <1>2 DEF ExitFlips, NodeDies, NodeBoots, Flip, controller
  <2>2. saved'.age >= steady' - 1 /\ steady' <= StaleAfter + 1 + sinceAlert' /\ steady' <= 0 /\ steady' <= 1
    BY <1>0, <2>1
  <2>3. QED
    BY <2>2 DEF BlockInv
<1>3. CASE Evaluate
  <2>1. /\ UNCHANGED <<exit, beat, saved, steady>> /\ sinceAlert' = 0 /\ firing' = Condition
    BY <1>3 DEF Evaluate, node, observers
  <2>2. Condition = "none" => saved.reach \notin {"none", "blocked"} /\ ~(saved.age > StaleAfter)
    BY DEF Condition, Stale
  <2>3. saved.reach \notin {"none", "blocked"} => saved.age >= steady - 1 \/ saved.age = StaleAfter + 1
    BY <2>1 DEF BlockInv
  <2>4. Condition = "none" => steady' <= StaleAfter + 1 + sinceAlert'
    BY <1>0, <2>1, <2>2, <2>3
  <2>5. QED
    BY <2>1, <2>4 DEF BlockInv
<1>4. CASE Install \/ Reload \/ ClientBinds \/ UNCHANGED vars
  <2>1. /\ UNCHANGED <<exit, saved, steady, sinceAlert, firing>>
        /\ beat'.at = beat.at /\ beat'.reach = beat.reach /\ beat'.long = beat.long
    BY <1>4 DEF Install, Reload, ClientBinds, vars, node, controller, observers, TypeOK, Beats
  <2>2. QED
    BY <2>1 DEF BlockInv
<1>5. CASE StartBeat
  <2>1. UNCHANGED <<exit, saved, sinceAlert, firing>>
    BY <1>5 DEF StartBeat, node, controller
  <2>2. (steady' = steady /\ beat'.at = "probing") \/ (steady' = 0 /\ beat'.at = "posting")
    BY <1>5 DEF StartBeat, NoProbe
  <2>3. CASE steady' = steady /\ beat'.at = "probing"
    BY <2>1, <2>3 DEF BlockInv
  <2>4. CASE steady' = 0
    <3>1. saved'.age >= steady' - 1 /\ steady' <= StaleAfter + 1 + sinceAlert' /\ steady' <= 0 /\ steady' <= 1
      BY <1>0, <2>1, <2>4
    <3>2. QED
      BY <3>1 DEF BlockInv
  <2>5. QED
    BY <2>2, <2>3, <2>4
<1>6. CASE Attempt
  <2>1. UNCHANGED <<exit, saved, steady, sinceAlert, firing>> /\ beat.at = "probing"
    BY <1>6 DEF Attempt, node, controller, observers
  <2>2. beat'.at = "probing" \/ beat'.reach = "blocked"
    <3>1. ~Through
      BY <2>1 DEF Through
    <3>2. CASE GivesUp
      BY <1>6, <3>1, <3>2 DEF Attempt, Read, Verdict, NoProbe
    <3>3. CASE ~GivesUp
      <4>1. PICK c : beat' = [beat EXCEPT !.client = c, !.tries = @ + 1]
        BY <1>6, <3>1, <3>3 DEF Attempt
      <4>2. beat'.at = beat.at
        BY <4>1 DEF TypeOK, Beats
      <4>3. QED BY <2>1, <4>2
    <3>4. QED BY <3>2, <3>3
  <2>3. QED
    BY <2>1, <2>2 DEF BlockInv
<1>7. CASE PostArrives
  <2>1. /\ UNCHANGED <<exit, steady, sinceAlert, firing>> /\ beat'.at = "idle"
        /\ saved'.age = 0 /\ saved'.reach = beat.reach /\ beat.at = "posting"
    BY <1>7 DEF PostArrives, Received, NoProbe, node
  <2>2. beat.reach # "blocked" => steady <= 1
    <3>1. beat.reach # "blocked" => steady <= 1 \/ steady <= 0
      BY <2>1 DEF BlockInv
    <3>2. QED BY <1>0, <3>1
  <2>3. beat.reach # "blocked" => saved'.age >= steady' - 1
    BY <1>0, <2>1, <2>2
  <2>4. QED
    BY <2>1, <2>3 DEF BlockInv
<1>8. CASE PostLost
  <2>1. UNCHANGED <<exit, saved, steady, sinceAlert, firing>> /\ beat'.at = "idle"
    BY <1>8 DEF PostLost, node, controller, NoProbe
  <2>2. QED
    BY <2>1 DEF BlockInv
<1>9. QED
  BY <1>1, <1>2, <1>3, <1>4, <1>5, <1>6, <1>7, <1>8 DEF Next, BeatStep

\* alert.go:85-87: an exit that stays down, and can be probed, is told within
\* staleAfter, one interval of rdda alert and two units, as blocked or as a node
\* of which nothing is heard.
THEOREM BlockTheorem == Spec => []BlockIsTold
<1>1. Init => TypeOK /\ ProbeInv /\ BlockInv
  BY InitTypeOK, InitProbe, InitOutage
<1>2. TypeOK /\ ProbeInv /\ BlockInv /\ [Next]_vars => (TypeOK /\ ProbeInv /\ BlockInv)'
  BY NextTypeOK, NextProbe, NextBlock
<1>3. TypeOK /\ BlockInv => BlockIsTold
  <2> SUFFICES ASSUME TypeOK, BlockInv, ~exit, steady >= BlockTold, firing = "none" PROVE FALSE
    BY DEF BlockIsTold
  <2>1. steady <= StaleAfter + 1 + sinceAlert
    BY DEF BlockInv
  <2>2. steady \in Int /\ sinceAlert \in 0..MaxAlert
    BY DEF TypeOK, RangesOK
  <2>3. QED BY <2>1, <2>2 DEF BlockTold
<1>4. QED
  BY <1>1, <1>2, <1>3, PTL DEF Spec
=============================================================================
