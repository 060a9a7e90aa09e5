----------------------------- MODULE SelfUpdate -----------------------------
(***************************************************************************)
(* internal/selfupdate: rdda update replaces /usr/local/bin/rdda by the    *)
(* latest release, keeps the old binary as rdda.prev, checks what it       *)
(* installed and rolls back if the check fails.  Every file is written in  *)
(* steps that a crash or a full disk can cut short, and all the while      *)
(* systemd may start rdda-sub from whatever the path holds.                *)
(*                                                                         *)
(* Releases are numbered; a binary is known by its release, Torn if it is  *)
(* incomplete.  A release is "good", "broken" (rdda version fails) or      *)
(* "dies" (rdda version works, rdda-sub exits seconds after it starts).    *)
(***************************************************************************)
EXTENDS Integers

CONSTANTS
    MaxTag,     \* bound on the releases
    MaxPolls,   \* how often waitActive looks
    Umasks,     \* whether the umask may strip o+x from a new file
    MaxFaults,  \* bound on crashes and failed writes
    MaxByHand   \* bound on rdda update --rollback

ASSUME TagAssumption == MaxTag \in Nat /\ MaxTag > 0
ASSUME PollsAssumption == MaxPolls \in Nat /\ MaxPolls > 0
ASSUME UmaskAssumption == Umasks \subseteq BOOLEAN
ASSUME BoundAssumption == MaxFaults \in Nat /\ MaxByHand \in Nat

VARIABLES
    quality,   \* what each release is like
    latest,    \* the newest release
    hasSub,    \* this node has rdda-sub (EU)
    bin,       \* /usr/local/bin/rdda: its release, and world-executable or not
    prev,      \* rdda.prev
    new,       \* rdda.new
    proc,      \* the running rdda update
    sub,       \* rdda-sub: its state, the release it runs, and if it can go on
    outcome,   \* how the last rdda update ended
    cutShort,  \* one died or failed while rdda.prev or the live rdda was in its hands
    faults, byHand

files == <<bin, prev, new>>
world == <<quality, latest, hasSub>>
counts == <<cutShort, faults, byHand>>
vars == <<world, files, proc, sub, outcome, counts>>

Tags == 1..MaxTag
Torn == 0
NoFile == [tag |-> -1, exec |-> FALSE]
Idle == [at |-> "idle", task |-> "none", from |-> 0, to |-> 0, bytes |-> 0,
         masked |-> FALSE, polls |-> 0]

Runs(f) == f.tag \in Tags /\ quality[f.tag] # "broken"

\* rdda-sub execs the path as the user rdda, and must then stay up.
Started(f) == [state |-> "active", tag |-> f.tag,
               ok |-> Runs(f) /\ f.exec /\ quality[f.tag] = "good"]

Init ==
    /\ quality \in [Tags -> {"good", "broken", "dies"}]
    /\ quality[1] = "good"
    /\ latest = 1
    /\ hasSub \in BOOLEAN
    /\ bin = [tag |-> 1, exec |-> TRUE]
    /\ prev = NoFile /\ new = NoFile
    /\ proc = Idle
    /\ sub = Started(bin)
    /\ outcome = "none"
    /\ cutShort = FALSE /\ faults = 0 /\ byHand = 0

At(stage) == proc.at = stage
Go(stage) == proc' = [proc EXCEPT !.at = stage]
End(how) == proc' = Idle /\ outcome' = how

-----------------------------------------------------------------------------
(***************************************************************************)
(* Update: everything up to the verified download touches no file.  The    *)
(* process is the binary at the path, so it must run, and its Version is   *)
(* that binary's.                                                          *)
(***************************************************************************)
StartUpdate ==
    /\ At("idle")
    /\ Runs(bin)
    /\ latest # bin.tag
    /\ \E masked \in Umasks :
          proc' = [Idle EXCEPT !.at = "verified", !.task = "update", !.from = bin.tag,
                               !.to = latest, !.masked = masked]
    /\ UNCHANGED <<world, files, sub, outcome, counts>>

\* No answer, a bad signature, or a wrong checksum.
Refuse ==
    /\ At("verified")
    /\ faults < MaxFaults /\ faults' = faults + 1
    /\ End("refused")
    /\ UNCHANGED <<world, files, sub, cutShort, byHand>>

\* The current binary is read and rdda.prev opened, then written.
OpenPrev ==
    /\ At("verified")
    /\ prev' = [tag |-> Torn, exec |-> IF prev = NoFile THEN ~proc.masked ELSE prev.exec]
    /\ proc' = [proc EXCEPT !.at = "prev", !.bytes = bin.tag]
    /\ UNCHANGED <<world, bin, new, sub, outcome, counts>>

\* Mutant: the backup is the new binary.
WritePrevNew ==
    /\ At("prev")
    /\ prev' = [prev EXCEPT !.tag = proc.to]
    /\ proc' = [proc EXCEPT !.at = "open", !.bytes = proc.to]
    /\ UNCHANGED <<world, bin, new, sub, outcome, counts>>

WritePrev ==
    /\ At("prev")
    /\ prev' = [prev EXCEPT !.tag = proc.bytes]
    /\ proc' = [proc EXCEPT !.at = "open", !.bytes = proc.to]
    /\ UNCHANGED <<world, bin, new, sub, outcome, counts>>

(***************************************************************************)
(* writeBin, for the new binary and for a rollback: rdda.new is opened (a  *)
(* file that is there keeps its mode), written, renamed over the path, and *)
(* only then made world-executable.                                        *)
(***************************************************************************)
OpenNew ==
    /\ At("open")
    /\ new' = [tag |-> Torn, exec |-> IF new = NoFile THEN ~proc.masked ELSE new.exec]
    /\ Go("write")
    /\ UNCHANGED <<world, bin, prev, sub, outcome, counts>>

WriteNew ==
    /\ At("write")
    /\ new' = [new EXCEPT !.tag = proc.bytes]
    /\ Go("swap")
    /\ UNCHANGED <<world, bin, prev, sub, outcome, counts>>

Swap ==
    /\ At("swap")
    /\ bin' = new
    /\ new' = NoFile
    /\ Go("chmod")
    /\ UNCHANGED <<world, prev, sub, outcome, counts>>

\* Mutant: the mode is left to the umask.
ChmodNothing ==
    /\ At("chmod")
    /\ Go(IF proc.task = "update" THEN "check" ELSE "restart")
    /\ UNCHANGED <<world, files, sub, outcome, counts>>

Chmod ==
    /\ At("chmod")
    /\ bin' = [bin EXCEPT !.exec = TRUE]
    /\ Go(IF proc.task = "update" THEN "check" ELSE "restart")
    /\ UNCHANGED <<world, prev, new, sub, outcome, counts>>

-----------------------------------------------------------------------------
(***************************************************************************)
(* The self-check, the restart, and waitActive, which is content with the  *)
(* first look that finds the unit active.                                  *)
(***************************************************************************)

\* Mutants: any output of rdda version will do, or none.
PassesAnything == TRUE
PassesNothing == FALSE

Passes == Runs(bin) /\ bin.tag = proc.to

SelfCheck ==
    /\ At("check")
    /\ Go(IF Passes THEN "restart" ELSE "restore")
    /\ UNCHANGED <<world, files, sub, outcome, counts>>

\* How a task that has come to its end reports it.
Report == CASE proc.task = "update" -> "updated"
            [] proc.task = "revert" -> "rolled back"
            [] proc.task = "rollback" -> "restored"

\* systemctl restart of a simple service succeeds once the process is forked.
\* Only an update waits for what becomes of it.
Restart ==
    /\ At("restart")
    /\ IF hasSub
       THEN /\ sub' = Started(bin)
            /\ IF proc.task = "update" THEN Go("poll") /\ UNCHANGED outcome ELSE End(Report)
       ELSE /\ End(Report)
            /\ UNCHANGED sub
    /\ UNCHANGED <<world, files, counts>>

\* systemctl restart fails: an update is reverted; a rollback has put its binary
\* back, and ends with an error.
RestartFails ==
    /\ At("restart")
    /\ hasSub
    /\ faults < MaxFaults /\ faults' = faults + 1
    /\ sub' = [sub EXCEPT !.state = "waiting"]
    /\ IF proc.task = "update" THEN Go("restore") /\ UNCHANGED outcome ELSE End("failed")
    /\ UNCHANGED <<world, files, cutShort, byHand>>

\* Mutant: waitActive never gives up.
NotUpAgain == FALSE

NotUp == sub.state # "active" /\ proc.polls + 1 = MaxPolls

Poll ==
    /\ At("poll")
    /\ IF sub.state = "active"
       THEN End(Report)
       ELSE /\ proc' = [proc EXCEPT !.polls = @ + 1, !.at = IF NotUp THEN "restore" ELSE "poll"]
            /\ UNCHANGED outcome
    /\ UNCHANGED <<world, files, sub, counts>>

(***************************************************************************)
(* rollback: read rdda.prev, whatever it holds, and put it back.           *)
(***************************************************************************)
Restore ==
    /\ At("restore")
    /\ proc' = [proc EXCEPT !.at = "open", !.bytes = prev.tag,
                            !.task = IF @ = "update" THEN "revert" ELSE @]
    /\ UNCHANGED <<world, files, sub, outcome, counts>>

\* rdda update --rollback, by hand: rdda.prev must exist.
StartRollback ==
    /\ At("idle")
    /\ Runs(bin)
    /\ prev # NoFile
    /\ byHand < MaxByHand /\ byHand' = byHand + 1
    /\ \E masked \in Umasks :
          proc' = [Idle EXCEPT !.at = "restore", !.task = "rollback", !.masked = masked]
    /\ UNCHANGED <<world, files, sub, outcome, cutShort, faults>>

-----------------------------------------------------------------------------
(***************************************************************************)
(* What can go wrong with the process.                                     *)
(***************************************************************************)

\* From the swap to the verdict, and while rdda.prev is torn, it holds what the
\* node depends on.
Critical == proc.at \in {"prev", "chmod", "check", "restart", "poll", "restore"}
                \/ proc.task = "revert"

Crash ==
    /\ ~At("idle")
    /\ faults < MaxFaults /\ faults' = faults + 1
    /\ End("crashed")
    /\ cutShort' = (cutShort \/ Critical)
    /\ UNCHANGED <<world, files, sub, byHand>>

\* A write fails: rdda.prev is left as it is, rdda.new is removed.  A chmod that
\* fails leaves the new binary live; all return an error without a rollback.
Fail ==
    /\ proc.at \in {"prev", "open", "write", "swap", "chmod"}
    /\ faults < MaxFaults /\ faults' = faults + 1
    /\ End("failed")
    /\ new' = IF proc.at \in {"open", "write", "swap"} THEN NoFile ELSE new
    /\ cutShort' = (cutShort \/ Critical)
    /\ UNCHANGED <<world, bin, prev, sub, byHand>>

-----------------------------------------------------------------------------
(***************************************************************************)
(* The rest of the node.                                                   *)
(***************************************************************************)
Publish ==
    /\ latest < MaxTag
    /\ latest' = latest + 1
    /\ UNCHANGED <<quality, hasSub, files, proc, sub, outcome, counts>>

\* rdda-sub exits: it could not be executed, or its release dies.
SubExits ==
    /\ hasSub
    /\ sub.state = "active"
    /\ ~sub.ok
    /\ sub' = [sub EXCEPT !.state = "waiting"]
    /\ UNCHANGED <<world, files, proc, outcome, counts>>

\* systemd (Restart=on-failure), or rdda heal after its start limit, starts it.
SubStarts ==
    /\ hasSub
    /\ sub.state = "waiting"
    /\ sub' = Started(bin)
    /\ UNCHANGED <<world, files, proc, outcome, counts>>

UpdateStep ==
    \/ StartUpdate \/ OpenPrev \/ WritePrev \/ OpenNew \/ WriteNew \/ Swap \/ Chmod
    \/ SelfCheck \/ Restart \/ Poll \/ Restore

Next ==
    \/ UpdateStep
    \/ Refuse
    \/ StartRollback
    \/ Crash
    \/ Fail
    \/ RestartFails
    \/ Publish
    \/ SubExits
    \/ SubStarts

Spec == Init /\ [][Next]_vars

\* rdda-update.timer, once enabled, fires again and again; a process that does
\* not crash goes on; systemd restarts what has failed.
FairSpec == Spec /\ WF_vars(UpdateStep) /\ WF_vars(SubExits) /\ WF_vars(SubStarts)

-----------------------------------------------------------------------------
FileType == [tag : -1..MaxTag, exec : BOOLEAN]
Stages == {"idle", "verified", "prev", "open", "write", "swap", "chmod", "check", "restart",
           "poll", "restore"}
ProcType == [at : Stages,
             task : {"none", "update", "revert", "rollback"},
             from : 0..MaxTag, to : 0..MaxTag, bytes : -1..MaxTag,
             masked : BOOLEAN, polls : 0..MaxPolls]
SubType == [state : {"active", "waiting"}, tag : 0..MaxTag, ok : BOOLEAN]

TypeOK ==
    /\ quality \in [Tags -> {"good", "broken", "dies"}]
    /\ latest \in Tags /\ hasSub \in BOOLEAN
    /\ bin \in FileType /\ prev \in FileType /\ new \in FileType
    /\ bin # NoFile
    /\ proc \in ProcType
    /\ sub \in SubType
    /\ outcome \in {"none", "refused", "updated", "rolled back", "restored", "crashed", "failed"}
    /\ cutShort \in BOOLEAN /\ faults \in 0..MaxFaults /\ byHand \in 0..MaxByHand

\* selfupdate.go:85-87: unless an update was cut short at a critical point, the
\* node rests with a binary that is whole, executable by rdda-sub and runs.
RestsOnRunnable == At("idle") /\ ~cutShort => Runs(bin) /\ bin.exec

\* selfupdate.go:149-152: "rolled back" is never said of a node that did not
\* revert: whatever went wrong, the binary that ran before the update is back.
RevertRestores ==
    [][outcome' = "rolled back" /\ proc'.at = "idle" /\ proc.at # "idle" =>
          bin'.tag = proc.from /\ bin'.exec]_vars

\* W5 design, flow step 8: after a good update rdda.prev is the generation
\* before, whole, for a later rollback by hand.
KeepsOneGeneration ==
    [][outcome' = "updated" /\ proc'.at = "idle" /\ proc.at # "idle" =>
          prev'.tag = proc.from /\ bin'.tag = proc.to]_vars

\* A node whose timer is enabled ends up on the last release if that is good,
\* whatever failed before and whatever broken releases came between.
EventuallyCurrent ==
    quality[MaxTag] = "good" /\ <>[](latest = MaxTag) /\ [](~cutShort)
        => <>[](bin.tag = MaxTag /\ (hasSub => sub = Started(bin)))

\* docs/superpowers/specs/2026-06-30-0.3-w5-update-autoheal-design.md:58 "The
\* path always points at a complete, executable binary."
PathIsWhole == bin.tag \in Tags /\ bin.exec
=============================================================================
