-------------------------- MODULE SelfUpdateProofs --------------------------
(***************************************************************************)
(* Theorems about rdda update and its rollback, for every number of        *)
(* releases of whatever quality, every length of the wait, every umask and *)
(* every number of crashes, failed writes and rollbacks by hand.           *)
(***************************************************************************)
EXTENDS SelfUpdate, TLAPS

\* Which stage belongs to which task; a wait that goes on has a look left.
TaskInv ==
    /\ At("idle") <=> proc.task = "none"
    /\ proc.at \in {"verified", "prev", "check", "poll"} => proc.task = "update"
    /\ At("restore") => proc.task # "revert"
    /\ proc.task = "update" /\ ~At("restore") => proc.polls < MaxPolls

\* What writeBin is given to install.
Source == IF proc.task = "update" THEN proc.to ELSE prev.tag

\* From which release an update goes to which, and that rdda.prev holds the
\* first from the moment it is written until the update, or its revert, ends.
PrevInv ==
    /\ prev = NoFile \/ prev.tag >= 0
    /\ proc.task \in {"update", "revert"} => proc.from \in Tags /\ quality[proc.from] # "broken"
    /\ proc.task = "update" => proc.to \in Tags
    /\ At("verified") => bin.tag = proc.from
    /\ At("prev") => proc.bytes = proc.from
    /\ proc.task \in {"update", "revert"} /\ proc.at \notin {"verified", "prev"} => prev.tag = proc.from
    /\ proc.task = "rollback" => prev # NoFile

\* What is on its way into the path, and what is there once it has been swapped.
BinInv ==
    /\ bin.tag >= 0
    /\ proc.at \in {"open", "write", "swap"} => proc.bytes = Source
    /\ At("swap") => new.tag = proc.bytes
    /\ proc.at \in {"chmod", "check", "restart", "poll"} => bin.tag = Source
    /\ proc.at \in {"check", "restart", "poll"} => bin.exec
    /\ proc.at \in {"restart", "poll"} /\ proc.task = "update" => Runs(bin)

\* The stages at which the path still holds what it held when the task began.
Untouched ==
    \/ proc.at \in {"idle", "verified", "prev"}
    \/ proc.at \in {"open", "write", "swap"} /\ proc.task # "revert"
    \/ At("restore") /\ proc.task = "rollback"

\* Unless a task was cut short in a critical stage, whatever is in rdda.prev runs
\* - save while it is being written - and so does what has not been touched.
RestInv ==
    ~cutShort => /\ prev # NoFile /\ ~At("prev") => Runs(prev)
                 /\ Untouched => Runs(bin) /\ bin.exec

IInv == TypeOK /\ TaskInv /\ PrevInv /\ BinInv /\ RestInv

-----------------------------------------------------------------------------
\* What the steps below use of the constants.
LEMMA Settings ==
    /\ MaxTag \in Nat \ {0} /\ MaxPolls \in Nat \ {0}
    /\ MaxFaults \in Nat /\ MaxByHand \in Nat
    /\ Umasks \subseteq BOOLEAN
BY TagAssumption, PollsAssumption, UmaskAssumption, BoundAssumption

USE Settings

\* What systemd starts is a process, whether it can go on or not.
LEMMA StartedIsSub ==
    ASSUME NEW f \in FileType, f.tag >= 0
    PROVE  Started(f) \in SubType
<1> DEFINE ok == Runs(f) /\ f.exec /\ quality[f.tag] = "good"
<1>1. ok \in BOOLEAN
  OBVIOUS
<1>2. f.tag \in 0..MaxTag
  BY DEF FileType
<1> HIDE DEF ok
<1>3. [state |-> "active", tag |-> f.tag, ok |-> ok] \in SubType
  BY <1>1, <1>2 DEF SubType
<1>4. QED
  BY <1>3 DEF Started, ok

\* The process before it starts anything, and at its next stage.
LEMMA IdleIsProc == Idle \in ProcType
BY DEF Idle, ProcType, Stages

LEMMA ProcMoves ==
    ASSUME NEW p \in ProcType, NEW s \in Stages
    PROVE  [p EXCEPT !.at = s] \in ProcType
BY DEF ProcType

LEMMA ProcTakesBytes ==
    ASSUME NEW p \in ProcType, NEW s \in Stages, NEW b \in -1..MaxTag,
           NEW k \in {"none", "update", "revert", "rollback"}
    PROVE  /\ [p EXCEPT !.at = s, !.bytes = b] \in ProcType
           /\ [p EXCEPT !.at = s, !.bytes = b, !.task = k] \in ProcType
BY DEF ProcType

LEMMA ProcPolls ==
    ASSUME NEW p \in ProcType, p.polls < MaxPolls, NEW s \in Stages
    PROVE  [p EXCEPT !.polls = @ + 1, !.at = s] \in ProcType
<1>1. p.polls + 1 \in 0..MaxPolls
  BY DEF ProcType
<1>2. QED
  BY <1>1 DEF ProcType

\* A file that is opened, written, or made executable is a file.
LEMMA FileChanges ==
    ASSUME NEW f \in FileType, NEW t \in -1..MaxTag, NEW e \in BOOLEAN
    PROVE  /\ [tag |-> t, exec |-> e] \in FileType
           /\ [f EXCEPT !.tag = t] \in FileType
           /\ [f EXCEPT !.exec = e] \in FileType
BY DEF FileType

LEMMA FileIsOpened ==
    ASSUME NEW f \in FileType, NEW m \in BOOLEAN
    PROVE  [tag |-> Torn, exec |-> IF f = NoFile THEN ~m ELSE f.exec] \in FileType
<1>1. f.exec \in BOOLEAN
  BY DEF FileType
<1>2. (~m) \in BOOLEAN
  OBVIOUS
<1>3. (IF f = NoFile THEN ~m ELSE f.exec) \in BOOLEAN
  BY <1>1, <1>2
<1>4. Torn \in -1..MaxTag
  BY DEF Torn
<1>5. QED
  BY <1>3, <1>4, FileChanges

LEMMA NoFileIsFile == NoFile \in FileType
BY DEF NoFile, FileType

LEMMA SubWaits ==
    ASSUME NEW x \in SubType
    PROVE  [x EXCEPT !.state = "waiting"] \in SubType
BY DEF SubType

\* Nothing is under way when a node is set up, and the path runs.
LEMMA InitIInv == Init => IInv
<1> SUFFICES ASSUME Init PROVE IInv
  OBVIOUS
<1>1. TypeOK
  <2>1. bin \in FileType /\ NoFile \in FileType /\ bin.tag >= 0
    BY DEF Init, FileType, NoFile
  <2>2. sub \in SubType
    BY <2>1, StartedIsSub DEF Init
  <2>3. latest \in Tags /\ faults \in 0..MaxFaults /\ byHand \in 0..MaxByHand
    BY DEF Init, Tags
  <2>4. bin # NoFile
    BY DEF Init, NoFile
  <2>5. QED
    BY <2>1, <2>2, <2>3, <2>4, IdleIsProc DEF Init, TypeOK
<1>2. TaskInv
  BY DEF Init, TaskInv, At, Idle
<1>3. PrevInv
  BY DEF Init, PrevInv, At, Idle, NoFile
<1>4. BinInv
  BY DEF Init, BinInv, At, Idle
<1>5. RestInv
  BY DEF Init, RestInv, Runs, Tags
<1>6. QED
  BY <1>1, <1>2, <1>3, <1>4, <1>5 DEF IInv

\* Each action keeps the tasks to their stages.
LEMMA NextTaskInv == TypeOK /\ TaskInv /\ [Next]_vars => TaskInv'
<1> SUFFICES ASSUME TypeOK, TaskInv, [Next]_vars PROVE TaskInv'
  OBVIOUS
<1>0. proc \in ProcType
  BY DEF TypeOK
<1> USE DEF TaskInv, At, Go, End
<1>1. CASE StartUpdate
  BY <1>0, <1>1 DEF StartUpdate, ProcType, Idle
<1>2. CASE Refuse
  BY <1>0, <1>2 DEF Refuse, ProcType, Idle
<1>3. CASE OpenPrev
  BY <1>0, <1>3 DEF OpenPrev, ProcType
<1>4. CASE WritePrev
  BY <1>0, <1>4 DEF WritePrev, ProcType
<1>5. CASE OpenNew
  BY <1>0, <1>5 DEF OpenNew, ProcType
<1>6. CASE WriteNew
  BY <1>0, <1>6 DEF WriteNew, ProcType
<1>7. CASE Swap
  BY <1>0, <1>7 DEF Swap, ProcType
<1>8. CASE Chmod
  BY <1>0, <1>8 DEF Chmod, ProcType
<1>9. CASE SelfCheck
  BY <1>0, <1>9 DEF SelfCheck, ProcType
<1>10. CASE Restart
  <2>1. CASE hasSub /\ proc.task = "update"
    BY <1>0, <1>10, <2>1 DEF Restart, ProcType
  <2>2. CASE ~(hasSub /\ proc.task = "update")
    BY <1>10, <2>2 DEF Restart, Idle
  <2>3. QED
    BY <2>1, <2>2
<1>11. CASE RestartFails
  BY <1>0, <1>11 DEF RestartFails, ProcType, Idle
<1>12. CASE Poll
  <2>1. CASE sub.state = "active"
    BY <1>0, <1>12, <2>1 DEF Poll, ProcType, Idle
  <2>2. CASE sub.state # "active"
    <3>1. proc.polls + 1 # MaxPolls => proc.polls + 1 < MaxPolls
      BY <1>0, <1>12 DEF Poll, ProcType
    <3>2. proc' = [proc EXCEPT !.polls = @ + 1, !.at = IF NotUp THEN "restore" ELSE "poll"]
      BY <1>12, <2>2 DEF Poll
    <3>3. NotUp <=> proc.polls + 1 = MaxPolls
      BY <2>2 DEF NotUp
    <3>4. /\ proc'.task = proc.task /\ proc'.polls = proc.polls + 1
          /\ proc'.at = IF NotUp THEN "restore" ELSE "poll"
      BY <1>0, <3>2 DEF ProcType
    <3>5. proc.task = "update"
      BY <1>12 DEF Poll
    <3>6. QED
      BY <3>1, <3>3, <3>4, <3>5
  <2>3. QED
    BY <2>1, <2>2
<1>13. CASE Restore
  BY <1>0, <1>13 DEF Restore, ProcType
<1>14. CASE StartRollback
  BY <1>0, <1>14 DEF StartRollback, ProcType, Idle
<1>15. CASE Crash
  BY <1>0, <1>15 DEF Crash, ProcType, Idle
<1>16. CASE Fail
  BY <1>0, <1>16 DEF Fail, ProcType, Idle
<1>17. CASE Publish \/ SubExits \/ SubStarts
  BY <1>0, <1>17 DEF Publish, ProcType, SubExits, SubStarts
<1>18. CASE UNCHANGED vars
  BY <1>0, <1>18 DEF vars, ProcType
<1>19. QED
  BY <1>1, <1>2, <1>3, <1>4, <1>5, <1>6, <1>7, <1>8, <1>9, <1>10, <1>11, <1>12, <1>13,
     <1>14, <1>15, <1>16, <1>17, <1>18 DEF Next, UpdateStep

\* Each action keeps the types.
LEMMA NextTypeOK == TypeOK /\ TaskInv /\ PrevInv /\ BinInv /\ [Next]_vars => TypeOK'
<1> SUFFICES ASSUME TypeOK, TaskInv, PrevInv, BinInv, [Next]_vars PROVE TypeOK'
  OBVIOUS
<1>0. /\ proc \in ProcType /\ sub \in SubType
      /\ bin \in FileType /\ prev \in FileType /\ new \in FileType
  BY DEF TypeOK
<1>c. /\ faults < MaxFaults => faults + 1 \in 0..MaxFaults
      /\ byHand < MaxByHand => byHand + 1 \in 0..MaxByHand
      /\ latest < MaxTag => latest + 1 \in Tags
  <2>1. faults \in 0..MaxFaults /\ byHand \in 0..MaxByHand /\ latest \in 1..MaxTag
    BY DEF TypeOK, Tags
  <2>2. QED
    BY <2>1 DEF Tags
<1> USE IdleIsProc DEF At, Go, End, world, files, counts
<1>1. CASE StartUpdate
  <2>1. bin.tag \in Tags /\ latest \in Tags
    BY <1>1 DEF StartUpdate, Runs, TypeOK
  <2>2. proc' \in ProcType
    <3>1. PICK m \in Umasks : proc' = [Idle EXCEPT !.at = "verified", !.task = "update",
                                        !.from = bin.tag, !.to = latest, !.masked = m]
      BY <1>1 DEF StartUpdate
    <3>2. m \in BOOLEAN /\ bin.tag \in 0..MaxTag /\ latest \in 0..MaxTag
      BY <2>1 DEF Tags
    <3>3. QED
      BY <3>1, <3>2, IdleIsProc DEF ProcType, Stages
  <2>3. QED
    BY <1>1, <2>2 DEF StartUpdate, TypeOK
<1>2. CASE Refuse
  BY <1>c, <1>2 DEF Refuse, TypeOK
<1>3. CASE OpenPrev
  <2>1. bin.tag \in -1..MaxTag /\ proc.masked \in BOOLEAN
    BY <1>0 DEF FileType, ProcType
  <2>2. proc' \in ProcType
    BY <1>0, <1>3, <2>1, ProcTakesBytes DEF OpenPrev, Stages
  <2>3. prev' \in FileType
    BY <1>0, <1>3, <2>1, FileIsOpened DEF OpenPrev
  <2>4. QED
    BY <1>3, <2>2, <2>3 DEF OpenPrev, TypeOK
<1>4. CASE WritePrev
  <2>1. proc.bytes \in -1..MaxTag /\ proc.to \in -1..MaxTag
    BY <1>0 DEF ProcType
  <2>2. proc' \in ProcType
    BY <1>0, <1>4, <2>1, ProcTakesBytes DEF WritePrev, Stages
  <2>3. prev' \in FileType
    BY <1>0, <1>4, <2>1, FileChanges DEF WritePrev
  <2>4. QED
    BY <1>4, <2>2, <2>3 DEF WritePrev, TypeOK
<1>5. CASE OpenNew
  <2>1. proc.masked \in BOOLEAN
    BY <1>0 DEF ProcType
  <2>2. proc' \in ProcType
    BY <1>0, <1>5, ProcMoves DEF OpenNew, Stages
  <2>3. new' \in FileType
    BY <1>0, <1>5, <2>1, FileIsOpened DEF OpenNew
  <2>4. QED
    BY <1>5, <2>2, <2>3 DEF OpenNew, TypeOK
<1>6. CASE WriteNew
  <2>1. proc.bytes \in -1..MaxTag
    BY <1>0 DEF ProcType
  <2>2. proc' \in ProcType
    BY <1>0, <1>6, ProcMoves DEF WriteNew, Stages
  <2>3. new' \in FileType
    BY <1>0, <1>6, <2>1, FileChanges DEF WriteNew
  <2>4. QED
    BY <1>6, <2>2, <2>3 DEF WriteNew, TypeOK
<1>7. CASE Swap
  <2>1. proc' \in ProcType
    BY <1>0, <1>7, ProcMoves DEF Swap, Stages
  <2>2. new # NoFile
    <3>1. new.tag = Source
      BY <1>7 DEF Swap, BinInv
    <3>2. proc.task = "update" => proc.to \in Tags
      BY DEF PrevInv
    <3>3. proc.task # "update" => prev.tag >= 0
      BY <1>0, <1>7 DEF Swap, PrevInv, TaskInv, ProcType, Tags
    <3>4. new.tag >= 0
      BY <3>1, <3>2, <3>3 DEF Source, Tags
    <3>5. QED
      BY <3>4 DEF NoFile
  <2>3. QED
    BY <1>0, <1>7, <2>1, <2>2, NoFileIsFile DEF Swap, TypeOK
<1>8. CASE Chmod
  <2>1. proc' \in ProcType
    BY <1>0, <1>8, ProcMoves DEF Chmod, Stages
  <2>2. bin' \in FileType
    <3>1. TRUE \in BOOLEAN /\ bin.tag \in -1..MaxTag
      BY <1>0 DEF FileType
    <3>2. QED
      BY <1>0, <1>8, <3>1, FileChanges DEF Chmod
  <2>3. bin' # NoFile
    BY <1>0, <1>8 DEF Chmod, NoFile, FileType
  <2>4. QED
    BY <1>8, <2>1, <2>2, <2>3 DEF Chmod, TypeOK
<1>9. CASE SelfCheck
  <2>1. proc' \in ProcType
    BY <1>0, <1>9, ProcMoves DEF SelfCheck, Stages
  <2>2. QED
    BY <1>9, <2>1 DEF SelfCheck, TypeOK
<1>10. CASE Restart
  <2>1. proc' \in ProcType
    BY <1>0, <1>10, ProcMoves DEF Restart, Stages
  <2>2. sub' \in SubType
    BY <1>0, <1>10, StartedIsSub DEF Restart, BinInv
  <2>3. Report \in {"updated", "rolled back", "restored"}
    BY <1>0, <1>10 DEF Restart, Report, TaskInv, ProcType
  <2>4. QED
    BY <1>10, <2>1, <2>2, <2>3 DEF Restart, TypeOK
<1>11. CASE RestartFails
  <2>1. proc' \in ProcType
    BY <1>0, <1>11, ProcMoves DEF RestartFails, Stages
  <2>2. sub' \in SubType
    BY <1>0, <1>11, SubWaits DEF RestartFails
  <2>3. QED
    BY <1>c, <1>11, <2>1, <2>2 DEF RestartFails, TypeOK
<1>12. CASE Poll
  <2>1. proc.polls < MaxPolls
    BY <1>0, <1>12 DEF Poll, TaskInv
  <2>2. proc' \in ProcType
    BY <1>0, <1>12, <2>1, ProcPolls DEF Poll, Stages
  <2>3. Report \in {"updated", "rolled back", "restored"}
    BY <1>0, <1>12 DEF Poll, Report, TaskInv, ProcType
  <2>4. QED
    BY <1>12, <2>2, <2>3 DEF Poll, TypeOK
<1>13. CASE Restore
  <2>1. prev.tag \in -1..MaxTag /\ proc.task \in {"none", "update", "revert", "rollback"}
    BY <1>0 DEF FileType, ProcType
  <2>2. proc' \in ProcType
    BY <1>0, <1>13, <2>1, ProcTakesBytes DEF Restore, Stages
  <2>3. QED
    BY <1>13, <2>2 DEF Restore, TypeOK
<1>14. CASE StartRollback
  <2>1. proc' \in ProcType
    BY <1>14 DEF StartRollback, Idle, ProcType, Stages
  <2>2. QED
    BY <1>c, <1>14, <2>1 DEF StartRollback, TypeOK
<1>15. CASE Crash
  <2>1. cutShort' \in BOOLEAN
    BY <1>15 DEF Crash, Critical
  <2>2. QED
    BY <1>c, <1>15, <2>1 DEF Crash, TypeOK
<1>16. CASE Fail
  <2>1. new' \in FileType
    BY <1>0, <1>16, NoFileIsFile DEF Fail
  <2>2. cutShort' \in BOOLEAN
    BY <1>16 DEF Fail, Critical
  <2>3. QED
    BY <1>c, <1>16, <2>1, <2>2 DEF Fail, TypeOK
<1>17. CASE Publish
  BY <1>c, <1>17 DEF Publish, TypeOK
<1>18. CASE SubExits
  BY <1>0, <1>18, SubWaits DEF SubExits, TypeOK
<1>19. CASE SubStarts
  BY <1>0, <1>19, StartedIsSub DEF SubStarts, BinInv, TypeOK
<1>20. CASE UNCHANGED vars
  BY <1>20 DEF vars, TypeOK
<1>21. QED
  BY <1>1, <1>2, <1>3, <1>4, <1>5, <1>6, <1>7, <1>8, <1>9, <1>10, <1>11, <1>12, <1>13,
     <1>14, <1>15, <1>16, <1>17, <1>18, <1>19, <1>20 DEF Next, UpdateStep

\* rdda.prev holds what the update found, and only OpenPrev and WritePrev touch it.
LEMMA NextPrevInv == TypeOK /\ TaskInv /\ PrevInv /\ [Next]_vars => PrevInv'
<1> SUFFICES ASSUME TypeOK, TaskInv, PrevInv, [Next]_vars PROVE PrevInv'
  OBVIOUS
<1>0. /\ proc \in ProcType /\ bin \in FileType /\ prev \in FileType /\ new \in FileType
  BY DEF TypeOK
<1> USE DEF TaskInv, PrevInv, At, Go, End, world, files, counts
<1>1. CASE StartUpdate
  BY <1>0, <1>1 DEF StartUpdate, ProcType, FileType, Idle, Runs, TypeOK
<1>2. CASE Refuse
  BY <1>0, <1>2 DEF Refuse, ProcType, FileType, Idle
<1>3. CASE OpenPrev
  BY <1>0, <1>3 DEF OpenPrev, ProcType, FileType, NoFile, Torn
<1>4. CASE WritePrev
  BY <1>0, <1>4 DEF WritePrev, ProcType, FileType, NoFile, Tags
<1>5. CASE OpenNew
  BY <1>0, <1>5 DEF OpenNew, ProcType, FileType
<1>6. CASE WriteNew
  BY <1>0, <1>6 DEF WriteNew, ProcType, FileType
<1>7. CASE Swap
  BY <1>0, <1>7 DEF Swap, ProcType, FileType
<1>8. CASE Chmod
  BY <1>0, <1>8 DEF Chmod, ProcType, FileType
<1>9. CASE SelfCheck
  BY <1>0, <1>9 DEF SelfCheck, ProcType, FileType
<1>10. CASE Restart
  BY <1>0, <1>10 DEF Restart, ProcType, FileType, Idle
<1>11. CASE RestartFails
  BY <1>0, <1>11 DEF RestartFails, ProcType, FileType, Idle
<1>12. CASE Poll
  <2>1. CASE sub.state = "active"
    BY <1>12, <2>1 DEF Poll, Idle
  <2>2. CASE sub.state # "active"
    <3>1. proc' = [proc EXCEPT !.polls = @ + 1, !.at = IF NotUp THEN "restore" ELSE "poll"]
      BY <1>12, <2>2 DEF Poll
    <3>2. /\ proc'.at \in {"restore", "poll"} /\ proc'.task = proc.task
          /\ proc'.from = proc.from /\ proc'.to = proc.to /\ proc'.bytes = proc.bytes
      BY <1>0, <3>1 DEF ProcType
    <3>3. QED
      BY <1>12, <3>2 DEF Poll
  <2>3. QED
    BY <2>1, <2>2
<1>13. CASE Restore
  BY <1>0, <1>13 DEF Restore, ProcType, FileType
<1>14. CASE StartRollback
  BY <1>0, <1>14 DEF StartRollback, ProcType, FileType, Idle
<1>15. CASE Crash
  BY <1>0, <1>15 DEF Crash, ProcType, FileType, Idle
<1>16. CASE Fail
  BY <1>0, <1>16 DEF Fail, ProcType, FileType, Idle
<1>17. CASE Publish \/ SubExits \/ SubStarts
  BY <1>17 DEF Publish, SubExits, SubStarts
<1>18. CASE UNCHANGED vars
  BY <1>18 DEF vars
<1>19. QED
  BY <1>1, <1>2, <1>3, <1>4, <1>5, <1>6, <1>7, <1>8, <1>9, <1>10, <1>11, <1>12, <1>13,
     <1>14, <1>15, <1>16, <1>17, <1>18 DEF Next, UpdateStep

\* What is installed is what writeBin was given.
LEMMA NextBinInv == TypeOK /\ TaskInv /\ PrevInv /\ BinInv /\ [Next]_vars => BinInv'
<1> SUFFICES ASSUME TypeOK, TaskInv, PrevInv, BinInv, [Next]_vars PROVE BinInv'
  OBVIOUS
<1>0. /\ proc \in ProcType /\ bin \in FileType /\ prev \in FileType /\ new \in FileType
  BY DEF TypeOK
<1> USE DEF TaskInv, BinInv, Source, At, Go, End, world, files, counts, Runs
<1>1. CASE StartUpdate
  BY <1>0, <1>1 DEF StartUpdate, ProcType, FileType, Idle
<1>2. CASE Refuse
  BY <1>0, <1>2 DEF Refuse, ProcType, FileType, Idle
<1>3. CASE OpenPrev
  BY <1>0, <1>3 DEF OpenPrev, ProcType, FileType
<1>4. CASE WritePrev
  BY <1>0, <1>4 DEF WritePrev, ProcType, FileType
<1>5. CASE OpenNew
  BY <1>0, <1>5 DEF OpenNew, ProcType, FileType
<1>6. CASE WriteNew
  BY <1>0, <1>6 DEF WriteNew, ProcType, FileType
<1>7. CASE Swap
  BY <1>0, <1>7 DEF Swap, ProcType, FileType, PrevInv, Tags, NoFile
<1>8. CASE Chmod
  BY <1>0, <1>8 DEF Chmod, ProcType, FileType
<1>9. CASE SelfCheck
  BY <1>0, <1>9 DEF SelfCheck, ProcType, FileType, Passes
<1>10. CASE Restart
  BY <1>0, <1>10 DEF Restart, ProcType, FileType, Idle
<1>11. CASE RestartFails
  BY <1>0, <1>11 DEF RestartFails, ProcType, FileType, Idle
<1>12. CASE Poll
  <2>1. CASE sub.state = "active"
    BY <1>12, <2>1 DEF Poll, Idle
  <2>2. CASE sub.state # "active"
    <3>1. proc' = [proc EXCEPT !.polls = @ + 1, !.at = IF NotUp THEN "restore" ELSE "poll"]
      BY <1>12, <2>2 DEF Poll
    <3>2. /\ proc'.at \in {"restore", "poll"} /\ proc'.task = proc.task
          /\ proc'.from = proc.from /\ proc'.to = proc.to /\ proc'.bytes = proc.bytes
      BY <1>0, <3>1 DEF ProcType
    <3>3. QED
      BY <1>12, <3>2 DEF Poll
  <2>3. QED
    BY <2>1, <2>2
<1>13. CASE Restore
  BY <1>0, <1>13 DEF Restore, ProcType, FileType
<1>14. CASE StartRollback
  BY <1>0, <1>14 DEF StartRollback, ProcType, FileType, Idle
<1>15. CASE Crash
  BY <1>0, <1>15 DEF Crash, ProcType, FileType, Idle
<1>16. CASE Fail
  BY <1>0, <1>16 DEF Fail, ProcType, FileType, Idle
<1>17. CASE Publish \/ SubExits \/ SubStarts
  BY <1>17 DEF Publish, SubExits, SubStarts
<1>18. CASE UNCHANGED vars
  BY <1>18 DEF vars
<1>19. QED
  BY <1>1, <1>2, <1>3, <1>4, <1>5, <1>6, <1>7, <1>8, <1>9, <1>10, <1>11, <1>12, <1>13,
     <1>14, <1>15, <1>16, <1>17, <1>18 DEF Next, UpdateStep

\* A stage that is cut short and leaves something that does not run is critical.
LEMMA NextRestInv == TypeOK /\ TaskInv /\ PrevInv /\ BinInv /\ RestInv /\ [Next]_vars => RestInv'
<1> SUFFICES ASSUME TypeOK, TaskInv, PrevInv, BinInv, RestInv, [Next]_vars PROVE RestInv'
  OBVIOUS
<1>0. /\ proc \in ProcType /\ bin \in FileType /\ prev \in FileType /\ new \in FileType
  BY DEF TypeOK
<1> USE DEF TaskInv, RestInv, Untouched, At, Go, End, world, files, counts, Runs
<1>1. CASE StartUpdate
  BY <1>0, <1>1 DEF StartUpdate, ProcType, FileType, Idle
<1>2. CASE Refuse
  BY <1>0, <1>2 DEF Refuse, ProcType, FileType, Idle
<1>3. CASE OpenPrev
  BY <1>0, <1>3 DEF OpenPrev, ProcType, FileType
<1>4. CASE WritePrev
  BY <1>0, <1>4 DEF WritePrev, ProcType, FileType, PrevInv
<1>5. CASE OpenNew
  BY <1>0, <1>5 DEF OpenNew, ProcType, FileType
<1>6. CASE WriteNew
  BY <1>0, <1>6 DEF WriteNew, ProcType, FileType
<1>7. CASE Swap
  BY <1>0, <1>7 DEF Swap, ProcType, FileType
<1>8. CASE Chmod
  BY <1>0, <1>8 DEF Chmod, ProcType, FileType
<1>9. CASE SelfCheck
  BY <1>0, <1>9 DEF SelfCheck, ProcType, FileType
<1>10. CASE Restart
  BY <1>0, <1>10 DEF Restart, ProcType, FileType, Idle, PrevInv, BinInv, Source
<1>11. CASE RestartFails
  BY <1>0, <1>11 DEF RestartFails, ProcType, FileType, Idle, PrevInv, BinInv, Source
<1>12. CASE Poll
  BY <1>0, <1>12 DEF Poll, ProcType, FileType, Idle, PrevInv, BinInv, Source
<1>13. CASE Restore
  BY <1>0, <1>13 DEF Restore, ProcType, FileType
<1>14. CASE StartRollback
  BY <1>0, <1>14 DEF StartRollback, ProcType, FileType, Idle
<1>15. CASE Crash
  <2>1. proc'.at = "idle" /\ UNCHANGED <<quality, bin, prev>>
    BY <1>15 DEF Crash, Idle
  <2>2. ~cutShort' => ~cutShort /\ ~Critical
    BY <1>15 DEF Crash
  <2>3. ~Critical => Untouched /\ ~At("prev")
    BY <1>0, <1>15 DEF Crash, Critical, ProcType, Stages
  <2>4. QED
    BY <2>1, <2>2, <2>3
<1>16. CASE Fail
  BY <1>0, <1>16 DEF Fail, ProcType, FileType, Idle, Critical
<1>17. CASE Publish \/ SubExits \/ SubStarts
  BY <1>17 DEF Publish, SubExits, SubStarts
<1>18. CASE UNCHANGED vars
  BY <1>18 DEF vars
<1>19. QED
  BY <1>1, <1>2, <1>3, <1>4, <1>5, <1>6, <1>7, <1>8, <1>9, <1>10, <1>11, <1>12, <1>13,
     <1>14, <1>15, <1>16, <1>17, <1>18 DEF Next, UpdateStep

\* The inductive invariant holds throughout.
LEMMA SpecIInv == Spec => []IInv
<1>1. IInv /\ [Next]_vars => IInv'
  BY NextTypeOK, NextTaskInv, NextPrevInv, NextBinInv, NextRestInv DEF IInv
<1>2. QED
  BY InitIInv, <1>1, PTL DEF Spec

\* A task that ends otherwise than by a failure ends where it restarts the unit
\* or waits for it, and touches no file there.
LEMMA TaskEnds ==
    ASSUME IInv, [Next]_vars, ~At("idle"), At("idle")'
    PROVE  \/ outcome' \in {"refused", "crashed", "failed"}
           \/ /\ proc.at \in {"restart", "poll"}
              /\ outcome' = Report
              /\ UNCHANGED <<bin, prev>>
<1>0. proc \in ProcType
  BY DEF IInv, TypeOK
<1> USE DEF At, Go, End, files
<1>1. CASE StartUpdate \/ StartRollback
  BY <1>1 DEF StartUpdate, StartRollback
<1>2. CASE Refuse \/ Crash \/ Fail \/ RestartFails
  BY <1>0, <1>2 DEF Refuse, Crash, Fail, RestartFails, ProcType
<1>3. CASE OpenPrev \/ WritePrev \/ OpenNew \/ WriteNew \/ Swap
  BY <1>0, <1>3 DEF OpenPrev, WritePrev, OpenNew, WriteNew, Swap, ProcType
<1>4. CASE Chmod \/ SelfCheck \/ Restore
  BY <1>0, <1>4 DEF Chmod, SelfCheck, Restore, ProcType
<1>5. CASE Restart
  BY <1>0, <1>5 DEF Restart, ProcType
<1>6. CASE Poll
  <2>1. CASE sub.state = "active"
    BY <1>6, <2>1 DEF Poll
  <2>2. CASE sub.state # "active"
    BY <1>0, <1>6, <2>2 DEF Poll, ProcType
  <2>3. QED
    BY <2>1, <2>2
<1>7. CASE Publish \/ SubExits \/ SubStarts \/ UNCHANGED vars
  BY <1>7 DEF Publish, SubExits, SubStarts, vars
<1>8. QED
  BY <1>1, <1>2, <1>3, <1>4, <1>5, <1>6, <1>7 DEF Next, UpdateStep

\* Which task gives which report.
LEMMA ReportTells ==
    ASSUME IInv, ~At("idle")
    PROVE  /\ Report = "rolled back" => proc.task = "revert"
           /\ Report = "updated" => proc.task = "update"
BY DEF IInv, TypeOK, TaskInv, ProcType, Report, At

-----------------------------------------------------------------------------
\* Every file, the process, the unit and the counters stay what they are declared
\* to be; above all the path never loses its file (selfupdate.go:88-147, 181-205).
THEOREM SpecTypeOK == Spec => []TypeOK
<1>1. IInv => TypeOK
  BY DEF IInv
<1>2. QED
  BY SpecIInv, <1>1, PTL

\* selfupdate.go:85-87: unless one was cut short at a critical stage, the node
\* rests with a binary that runs, and that rdda-sub may execute.
THEOREM SpecRestsOnRunnable == Spec => []RestsOnRunnable
<1>1. IInv => RestsOnRunnable
  BY DEF IInv, RestInv, Untouched, RestsOnRunnable, At
<1>2. QED
  BY SpecIInv, <1>1, PTL

\* selfupdate.go:149-158: whoever is told "rolled back" has the binary back that
\* ran before the update, executable.
THEOREM SpecRevertRestores == Spec => RevertRestores
<1> DEFINE A == outcome' = "rolled back" /\ proc'.at = "idle" /\ proc.at # "idle" =>
                    bin'.tag = proc.from /\ bin'.exec
<1>1. IInv /\ [Next]_vars => A
  <2> SUFFICES ASSUME IInv, [Next]_vars, outcome' = "rolled back", At("idle")', ~At("idle")
               PROVE  bin'.tag = proc.from /\ bin'.exec
    BY DEF At
  <2>1. /\ proc.at \in {"restart", "poll"} /\ proc.task = "revert"
        /\ UNCHANGED <<bin, prev>>
    BY TaskEnds, ReportTells
  <2>2. bin.tag = prev.tag /\ bin.exec
    BY <2>1 DEF IInv, BinInv, Source
  <2>3. prev.tag = proc.from
    BY <2>1 DEF IInv, PrevInv
  <2>4. QED
    BY <2>1, <2>2, <2>3
<1>2. QED
  BY SpecIInv, <1>1, PTL DEF Spec, RevertRestores

\* W5 design, flow step 8: an update that ends well leaves the release before it
\* in rdda.prev, whole, and the one it went for at the path.
THEOREM SpecKeepsOneGeneration == Spec => KeepsOneGeneration
<1> DEFINE A == outcome' = "updated" /\ proc'.at = "idle" /\ proc.at # "idle" =>
                    prev'.tag = proc.from /\ bin'.tag = proc.to
<1>1. IInv /\ [Next]_vars => A
  <2> SUFFICES ASSUME IInv, [Next]_vars, outcome' = "updated", At("idle")', ~At("idle")
               PROVE  prev'.tag = proc.from /\ bin'.tag = proc.to
    BY DEF At
  <2>1. /\ proc.at \in {"restart", "poll"} /\ proc.task = "update"
        /\ UNCHANGED <<bin, prev>>
    BY TaskEnds, ReportTells
  <2>2. bin.tag = proc.to
    BY <2>1 DEF IInv, BinInv, Source
  <2>3. prev.tag = proc.from
    BY <2>1 DEF IInv, PrevInv
  <2>4. QED
    BY <2>1, <2>2, <2>3
<1>2. QED
  BY SpecIInv, <1>1, PTL DEF Spec, KeepsOneGeneration
=============================================================================
