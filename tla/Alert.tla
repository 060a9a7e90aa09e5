------------------------------- MODULE Alert -------------------------------
(***************************************************************************)
(* internal/alert: rdda alert evaluates the EU node's conditions and mails *)
(* the operator about the ones that begin and end.  What it has mailed     *)
(* about is kept in alert-state.json, read once at the start of a run and  *)
(* written once at its end, so everything that happens in between - a      *)
(* condition changing, a mail that fails, a crash, another run - works on  *)
(* a stale copy.  rdda-alert.timer runs it as the user rdda; an operator   *)
(* may run it by hand, as root, at any time.                               *)
(*                                                                         *)
(* alert.enabled is true and alert.email is set: otherwise Run does        *)
(* nothing.  Condition messages, which no decision depends on, are left    *)
(* out: the firing set is the set of its keys.                             *)
(***************************************************************************)
EXTENDS Integers, Sequences, FiniteSets, SequencesExt

CONSTANTS
    Units,      \* the keys of the watched units: "unit-<name>"
    Users,      \* who runs it: "rdda", and "root" for runs by hand
    MaxFlips,   \* bound on the changes of the conditions
    MaxFails,   \* bound on the mails that fail
    MaxUpsets   \* bound on crashes, runs by hand and the like

ASSUME UsersAssumption == "rdda" \in Users /\ Users \subseteq {"rdda", "root"}
ASSUME UnitsAssumption == IsFiniteSet(Units)
ASSUME BoundsAssumption == MaxFlips \in Nat /\ MaxFails \in Nat /\ MaxUpsets \in Nat

VARIABLES
    beat,       \* the last health beat: fresh, or stale (over staleAfter, or none yet)
    blocked,    \* its reachability status is ReachBlocked
    down,       \* the units that are not active
    cert,       \* the sub endpoint's certificate; unknown if the probe fails
    firing,     \* alert-state.json: its keys and its owner
    tmp,        \* alert-state.json.tmp
    run,        \* for each user, its run
    told,       \* what the operator's last mail about each key said
    owed,       \* keys whose ALERT failed and has not been delivered since
    flips, fails, upsets

world == <<beat, blocked, down, cert>>
disk == <<firing, tmp>>
inbox == <<told, owed>>
counts == <<flips, fails, upsets>>
vars == <<world, disk, run, inbox, counts>>

Keys == {"cert-expiry", "ru-down", "ru-exit-blocked"} \cup Units
\* The order of sortedKeys.
KeyOrder == <<"cert-expiry", "ru-down", "ru-exit-blocked">> \o SetToSeq(Units)
FirstKey(S) == KeyOrder[CHOOSE i \in DOMAIN KeyOrder :
                  KeyOrder[i] \in S /\ \A j \in 1..(i - 1) : KeyOrder[j] \notin S]

\* The conditions that hold, as evaluate would find them at one moment.
Conditions ==
    (IF beat # "fresh" THEN {"ru-down"} ELSE IF blocked THEN {"ru-exit-blocked"} ELSE {})
        \cup down \cup (IF cert = "expiring" THEN {"cert-expiry"} ELSE {})

NoFile == [keys |-> {}, owner |-> "none"]
NoRun == [at |-> "idle", last |-> {}, current |-> {}, todo |-> {}, newSet |-> {}]

\* A node that has never alerted: healthy, or new and without a beat so far.
Init ==
    /\ beat \in {"fresh", "stale"} /\ blocked = FALSE /\ down = {} /\ cert = "valid"
    /\ firing = NoFile /\ tmp = NoFile
    /\ run = [u \in Users |-> NoRun]
    /\ told = [k \in Keys |-> "nothing"]
    /\ owed = {}
    /\ flips = 0 /\ fails = 0 /\ upsets = 0

Upset == upsets < MaxUpsets /\ upsets' = upsets + 1

-----------------------------------------------------------------------------
(***************************************************************************)
(* The world: beats arrive or stop, units stop and start, the certificate  *)
(* nears its end or is renewed, and its probe fails and works again.       *)
(***************************************************************************)

\* POST /ru/health with the right token: SaveRUHealth, which renames a complete
\* file into place.
Beat(b) ==
    /\ beat' = "fresh"
    /\ blocked' = b
    /\ UNCHANGED <<down, cert>>

Silence == beat' = "stale" /\ UNCHANGED <<blocked, down, cert>>

UnitFlips(n) ==
    /\ down' = IF n \in down THEN down \ {n} ELSE down \cup {n}
    /\ UNCHANGED <<beat, blocked, cert>>

CertFlips(c) == cert' = c /\ UNCHANGED <<beat, blocked, down>>

Flip ==
    /\ flips < MaxFlips
    /\ flips' = flips + 1
    /\ \/ \E b \in BOOLEAN : Beat(b)
       \/ Silence
       \/ \E n \in Units : UnitFlips(n)
       \/ \E c \in {"valid", "expiring", "unknown"} : CertFlips(c)
    /\ world' # world
    /\ UNCHANGED <<disk, run, inbox, fails, upsets>>

-----------------------------------------------------------------------------
(***************************************************************************)
(* Run: load the firing set, then evaluate, one probe after the other.     *)
(***************************************************************************)

\* A file of root's is 0600 and unreadable to rdda: loadFiring finds nothing.
Readable(u) == firing.owner = "rdda" \/ (firing.owner = "root" /\ u = "root")

LoadFiring(u) ==
    /\ run[u].at = "idle"
    /\ IF u = "root" THEN Upset ELSE UNCHANGED upsets
    /\ run' = [run EXCEPT ![u] = [NoRun EXCEPT
                  !.at = "beat", !.last = IF Readable(u) THEN firing.keys ELSE {}]]
    /\ UNCHANGED <<world, disk, inbox, flips, fails>>

\* One probe of evaluate: it finds these keys and goes on to the next.
Probe(u, found, next) ==
    /\ run' = [run EXCEPT ![u].at = next, ![u].current = @ \cup found]
    /\ UNCHANGED <<world, disk, inbox, counts>>

\* Only a fresh beat is asked, by a second read of ru-health.json, whether the
\* exit is blocked.
EvalBeat(u) ==
    /\ run[u].at = "beat"
    /\ IF beat = "fresh" THEN Probe(u, {}, "reach") ELSE Probe(u, {"ru-down"}, "units")

EvalReach(u) ==
    /\ run[u].at = "reach"
    /\ Probe(u, IF blocked THEN {"ru-exit-blocked"} ELSE {}, "units")

\* Mutant: what is still firing is mailed about again.
ToMailAll(current, last) == current \cup last

\* What has begun since the last run and what has ended.
ToMail(current, last) == (current \cup last) \ (current \cap last)

\* The units and the certificate, which no other condition depends on; a probe
\* that is inconclusive is no condition.  After them, Run knows what is still
\* firing and what there is to mail.
EvalUnits(u) ==
    /\ run[u].at = "units"
    /\ LET r == run[u]
           current == r.current \cup down \cup IF cert = "expiring" THEN {"cert-expiry"} ELSE {}
       IN  run' = [run EXCEPT ![u] = [at |-> "mail", last |-> r.last, current |-> current,
                     newSet |-> current \cap r.last,
                     todo |-> ToMail(current, r.last)]]
    /\ UNCHANGED <<world, disk, inbox, counts>>

-----------------------------------------------------------------------------
(***************************************************************************)
(* The mails: the ALERTs in key order, then the RESOLVEDs in key order.    *)
(***************************************************************************)
Mailing(u) == run[u].at = "mail" /\ run[u].todo # {}
IsAlert(u, k) == k \in run[u].current
Due(u) ==
    LET alerts == run[u].todo \cap run[u].current
    IN  FirstKey(IF alerts # {} THEN alerts ELSE run[u].todo)

\* The new firing set once the mail about k was sent: an ALERT is recorded.
Sent(u, k) == IF IsAlert(u, k) THEN run[u].newSet \cup {k} ELSE run[u].newSet

\* Mutant: a mail is recorded whether or not it was sent.
NotSentRecorded(u, k) == run[u].newSet \cup {k}

\* Mutant: a RESOLVED that could not be sent is forgotten.
NotSentDropped(u, k) == run[u].newSet

\* The new firing set once it failed: a RESOLVED stays due for the next run.
NotSent(u, k) == IF IsAlert(u, k) THEN run[u].newSet ELSE run[u].newSet \cup {k}

Mailed(u, newSet) ==
    /\ run' = [run EXCEPT ![u].todo = @ \ {Due(u)}, ![u].newSet = newSet]
    /\ UNCHANGED <<world, disk, flips>>

Delivered(u) ==
    /\ told' = [told EXCEPT ![Due(u)] = IF IsAlert(u, Due(u)) THEN "alert" ELSE "resolved"]
    /\ owed' = IF IsAlert(u, Due(u)) THEN owed \ {Due(u)} ELSE owed

SendOK(u) ==
    /\ Mailing(u)
    /\ Delivered(u)
    /\ Mailed(u, Sent(u, Due(u)))
    /\ UNCHANGED <<fails, upsets>>

SendFails(u) ==
    /\ Mailing(u)
    /\ fails < MaxFails
    /\ fails' = fails + 1
    /\ owed' = IF IsAlert(u, Due(u)) THEN owed \cup {Due(u)} ELSE owed
    /\ Mailed(u, NotSent(u, Due(u)))
    /\ UNCHANGED <<told, upsets>>

\* The mail goes out, but the command is killed at the 30 s limit or exits
\* with an error.
SendUnsure(u) ==
    /\ Mailing(u)
    /\ Upset
    /\ Delivered(u)
    /\ Mailed(u, NotSent(u, Due(u)))
    /\ UNCHANGED fails

-----------------------------------------------------------------------------
(***************************************************************************)
(* saveFiring: write the temporary file, which keeps the owner it has if   *)
(* an earlier run left it, and rename it.  An error ends the run.          *)
(***************************************************************************)
Done(u) == run' = [run EXCEPT ![u] = NoRun]

WriteTmp(u) ==
    /\ run[u].at = "mail"
    /\ run[u].todo = {}
    /\ IF u = "rdda" /\ tmp.owner = "root"
       THEN Done(u) /\ UNCHANGED tmp
       ELSE /\ tmp' = [keys |-> run[u].newSet,
                       owner |-> IF tmp.owner = "none" THEN u ELSE tmp.owner]
            /\ run' = [run EXCEPT ![u].at = "rename"]
    /\ UNCHANGED <<world, firing, inbox, counts>>

\* The temporary file may be gone: a concurrent run has renamed it.
Rename(u) ==
    /\ run[u].at = "rename"
    /\ IF tmp = NoFile THEN UNCHANGED disk ELSE firing' = tmp /\ tmp' = NoFile
    /\ Done(u)
    /\ UNCHANGED <<world, inbox, counts>>

\* The run dies, or its save fails, and what it has mailed is not recorded.
Crash(u) ==
    /\ run[u].at # "idle"
    /\ Upset
    /\ Done(u)
    /\ UNCHANGED <<world, disk, inbox, flips, fails>>

\* Store.ChownTree (rdda update, rdda restore) hands the files back to rdda.
ChownTree ==
    /\ "root" \in {firing.owner, tmp.owner}
    /\ firing' = IF firing = NoFile THEN NoFile ELSE [firing EXCEPT !.owner = "rdda"]
    /\ tmp' = IF tmp = NoFile THEN NoFile ELSE [tmp EXCEPT !.owner = "rdda"]
    /\ UNCHANGED <<world, run, inbox, counts>>

RunStep(u) ==
    \/ LoadFiring(u) \/ EvalBeat(u) \/ EvalReach(u) \/ EvalUnits(u)
    \/ SendOK(u) \/ WriteTmp(u) \/ Rename(u)

Next ==
    \/ Flip
    \/ \E u \in Users : RunStep(u) \/ SendFails(u) \/ SendUnsure(u) \/ Crash(u)
    \/ ChownTree

Spec == Init /\ [][Next]_vars

\* The timer fires again and again (Persistent=true, every five minutes), and a
\* run goes on to its end unless it crashes.  Mail works again in the end:
\* MaxFails bounds the outages.  Nobody makes the operator do anything.
FairSpec == Spec /\ WF_vars(RunStep("rdda"))

-----------------------------------------------------------------------------
TypeOK ==
    /\ beat \in {"fresh", "stale"} /\ blocked \in BOOLEAN
    /\ down \subseteq Units /\ cert \in {"valid", "expiring", "unknown"}
    /\ \A f \in {firing, tmp} : f.keys \subseteq Keys /\ f.owner \in Users \cup {"none"}
    /\ \A u \in Users :
          /\ run[u].at \in {"idle", "beat", "reach", "units", "mail", "rename"}
          /\ run[u].current \subseteq Keys /\ run[u].last \subseteq Keys
          /\ run[u].newSet \subseteq Keys
          \* what is due is either a new condition or one that has ended, never both
          /\ run[u].todo \cap (run[u].current \cap run[u].last) = {}
    /\ told \in [Keys -> {"nothing", "alert", "resolved"}]
    /\ owed \subseteq Keys

\* W4 design, "a failed send is not recorded": whatever fails, crashes, runs
\* by hand or runs at the same time, a condition that alert-state.json silences
\* is one the operator was mailed an ALERT for.
SilencedWasTold == \A k \in firing.keys : told[k] # "nothing"

\* While every run is the timer's and ends, the file between runs is exactly
\* what the operator has been told is firing.
FileIsInbox ==
    upsets = 0 /\ run["rdda"].at = "idle" => firing.keys = {k \in Keys : told[k] = "alert"}

\* ... and no mail repeats the one before it: README.md:143 "once per
\* transition, and again on recovery".
NoRepeats ==
    upsets = 0 /\ Mailing("rdda") =>
        told[Due("rdda")] = "alert" <=> ~IsAlert("rdda", Due("rdda"))

\* The first outage of a condition that lasts is reported in the end, whatever
\* was lost, crashed, or run by hand.
FirstOutageReported ==
    \A k \in Keys :
        <>[](k \in Conditions) /\ [](told[k] # "resolved") => <>[](told[k] = "alert")

\* Undisturbed, the operator is told in the end of every condition that lasts
\* and of every one that is over for good, however the mails failed before.
Settles ==
    [](upsets = 0) =>
        \A k \in Keys : /\ <>[](k \in Conditions) => <>[](told[k] = "alert")
                        /\ <>[](k \notin Conditions) => <>[](told[k] # "alert")

\* docs/superpowers/specs/2026-06-30-0.3-w4-alerting-design.md:54 "a `msmtp`
\* outage delays but never drops a notification".
NothingDropped == \A k \in Keys : k \in owed ~> k \notin owed
=============================================================================
