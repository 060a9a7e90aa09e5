------------------------------- MODULE Backup -------------------------------
(***************************************************************************)
(* internal/backup on a live EU node: rdda backup reads the store file by  *)
(* file while the operator changes it, and rdda restore --force replaces   *)
(* it while other commands may open it (rdda-alert.timer does so every     *)
(* five minutes).                                                          *)
(*                                                                         *)
(* Backups run by themselves (cron, --push); a restore is a command of the *)
(* operator's, and takes its place in cmd.  A restore without --force, or  *)
(* of an archive that does not decrypt or unpack, changes nothing.         *)
(***************************************************************************)
EXTENDS EuStore

CONSTANTS
    MaxBackups,   \* bound on the backups that begin
    MaxRestores   \* bound on the restores that begin

ASSUME MaxBackupsAssumption == MaxBackups \in Nat /\ MaxRestores \in Nat

VARIABLES
    backup,     \* the running rdda backup
    archive,    \* the last archive that was written, or NoArchive
    restoring,  \* the archive that the last restore has unpacked
    backups, restores,
    before      \* the store as the last restore found it, for the properties

backupVars == <<backup, archive, backups>>
restoreVars == <<restoring, before, restores>>
vars == <<storeVars, backupVars, restoreVars>>

Nothing == [id |-> -1, made |-> 0]
Content(n) == [id |-> files[n].id, made |-> files[n].made]

\* must: the clients that could be read when the backup began and that no restore
\* has removed since, for the properties.
NoArchive == [config |-> Truncated("root"), files |-> [n \in Names |-> Nothing], must |-> {}]
NoBackup == [at |-> "idle", todo |-> {}, got |-> NoArchive]

Ids(a) == {a.files[n].id : n \in Names} \ {-1}

\* What an operator has lost or kept: the configuration and the client files.
Holdings ==
    [rev |-> config.rev, token |-> config.token,
     clients |-> {files[n].id : n \in {m \in Names : Exists(m)}}]

Init ==
    /\ StoreInit
    /\ backup = NoBackup /\ archive = NoArchive /\ backups = 0
    /\ restores = 0 /\ restoring = NoArchive /\ before = Holdings

-----------------------------------------------------------------------------
(***************************************************************************)
(* Create, as root: config.yaml, the directory, then one file per entry.   *)
(* It parses nothing: a truncated config or an empty client file is        *)
(* archived as it is.                                                      *)
(***************************************************************************)
CreateConfig ==
    /\ backup.at = "idle"
    /\ backups < MaxBackups
    /\ backups' = backups + 1
    /\ backup' = [NoBackup EXCEPT !.at = "list", !.got.config = config, !.got.must = Live]
    /\ UNCHANGED <<storeVars, archive, restoreVars>>

\* A missing directory is an archive without clients.
CreateReadDir ==
    /\ backup.at = "list"
    /\ backup' = [backup EXCEPT !.at = "read", !.todo = {n \in Names : Exists(n)}]
    /\ UNCHANGED <<storeVars, archive, backups, restoreVars>>

\* Mutant: a file that is gone by now ends the archive instead of the backup.
AddFileStops(n) ==
    IF Exists(n) THEN [backup EXCEPT !.todo = @ \ {n}, !.got.files[n] = Content(n)]
                 ELSE [backup EXCEPT !.todo = {}]

\* Mutant: the error of reading it is dropped, and the entry made of no bytes.
AddFileUnread(n) == [backup EXCEPT !.todo = @ \ {n}, !.got.files[n] = Content(n)]

\* addFile: a file that is gone by now fails the whole backup.
AddFile(n) ==
    IF Exists(n) THEN [backup EXCEPT !.todo = @ \ {n}, !.got.files[n] = Content(n)]
                 ELSE NoBackup

CreateAddFile ==
    /\ backup.at = "read"
    /\ backup.todo # {}
    /\ backup' = AddFile(Min(backup.todo))
    /\ UNCHANGED <<storeVars, archive, backups, restoreVars>>

\* Encrypted, pushed and written.
CreateDone ==
    /\ backup.at = "read"
    /\ backup.todo = {}
    /\ archive' = backup.got
    /\ backup' = NoBackup
    /\ UNCHANGED <<storeVars, backups, restoreVars>>

-----------------------------------------------------------------------------
(***************************************************************************)
(* Restore --force, once the archive is unpacked into a directory of its   *)
(* own: the config is renamed into place, clients/ is removed, the new one *)
(* is renamed into place, and everything is handed to the service user.    *)
(***************************************************************************)
RestoreUnpack ==
    /\ cmd.at = "idle"
    /\ archive # NoArchive
    /\ restores < MaxRestores
    /\ restores' = restores + 1
    /\ cmd' = [NoCmd EXCEPT !.at = "config"]
    /\ restoring' = archive
    /\ before' = Holdings
    /\ UNCHANGED <<config, dir, files, fresh, revoked, kills, backupVars>>

RestoreConfig ==
    /\ cmd.at = "config"
    /\ config' = [restoring.config EXCEPT !.owner = "root"]
    /\ cmd' = [cmd EXCEPT !.at = "clear"]
    /\ UNCHANGED <<dir, files, fresh, revoked, kills, backupVars, restoreVars>>

\* RemoveAll: file after file, and the directory last.
RestoreClear ==
    /\ cmd.at = "clear"
    /\ \E n \in Names :
          /\ Exists(n)
          /\ files' = [files EXCEPT ![n] = Absent]
          /\ backup' = [backup EXCEPT !.got.must = @ \ {files[n].id}]
    /\ UNCHANGED <<config, dir, cmd, fresh, revoked, kills, archive, backups, restoreVars>>

RestoreCleared ==
    /\ cmd.at = "clear"
    /\ \A n \in Names : ~Exists(n)
    /\ dir' = "missing"
    /\ cmd' = [cmd EXCEPT !.at = "move"]
    /\ UNCHANGED <<config, files, fresh, revoked, kills, backupVars, restoreVars>>

\* The client files of the archive, as unpacked by root.
Unpacked ==
    [n \in Names |->
        IF restoring.files[n] = Nothing THEN Absent
        ELSE [id |-> restoring.files[n].id, made |-> restoring.files[n].made, owner |-> "root"]]

\* Mutant: a directory that exists again is taken for the one just moved there.
RestoreMoveOver ==
    /\ cmd.at = "move"
    /\ dir' = Opened("root")
    /\ files' = IF dir = "missing" THEN Unpacked ELSE files
    /\ cmd' = [cmd EXCEPT !.at = "chown clients"]
    /\ UNCHANGED <<config, fresh, revoked, kills, backupVars, restoreVars>>

\* os.Rename refuses if some command has made the directory again; the
\* restore then ends with an error, and its temporary directory goes with it.
RestoreMove ==
    /\ cmd.at = "move"
    /\ IF dir = "missing"
       THEN /\ dir' = "root"
            /\ files' = Unpacked
            /\ cmd' = [cmd EXCEPT !.at = "chown clients"]
       ELSE cmd' = NoCmd /\ UNCHANGED <<dir, files>>
    /\ UNCHANGED <<config, fresh, revoked, kills, backupVars, restoreVars>>

\* chownToRdda walks in lexical order: clients/ comes before config.yaml.
RestoreChownClients ==
    /\ cmd.at = "chown clients"
    /\ dir' = "rdda"
    /\ files' = [n \in Names |-> IF Exists(n) THEN [files[n] EXCEPT !.owner = "rdda"] ELSE Absent]
    /\ cmd' = [cmd EXCEPT !.at = "chown config"]
    /\ UNCHANGED <<config, fresh, revoked, kills, backupVars, restoreVars>>

RestoreChownConfig ==
    /\ cmd.at = "chown config"
    /\ config' = [config EXCEPT !.owner = "rdda"]
    /\ cmd' = NoCmd
    /\ UNCHANGED <<dir, files, fresh, revoked, kills, backupVars, restoreVars>>

-----------------------------------------------------------------------------
\* Any other command that opens the store, as rdda or as root.
OpenStore ==
    /\ dir = "missing"
    /\ \E user \in {"rdda", "root"} : dir' = Opened(user)
    /\ UNCHANGED <<config, files, cmd, fresh, revoked, kills, backupVars, restoreVars>>

\* The backup is killed, or its push or its write fails.
BackupFails ==
    /\ backup.at # "idle"
    /\ backup' = NoBackup
    /\ UNCHANGED <<storeVars, archive, backups, restoreVars>>

RestoreStep ==
    \/ RestoreConfig \/ RestoreClear \/ RestoreCleared \/ RestoreMove
    \/ RestoreChownClients \/ RestoreChownConfig

Next ==
    \/ StoreNext /\ UNCHANGED <<backupVars, restoreVars>>
    \/ CreateConfig \/ CreateReadDir \/ CreateAddFile \/ CreateDone
    \/ RestoreUnpack \/ RestoreStep
    \/ OpenStore
    \/ BackupFails

Spec == Init /\ [][Next]_vars

-----------------------------------------------------------------------------
\* An entry of an archive is what some file of the store once held, complete or
\* cut short: there is none that no file was behind.
Entries == {e \in [id : 0..MaxIds, made : 1..MaxIds] : e.id \in {Empty, e.made}}

TypeOK ==
    /\ StoreTypeOK
    /\ dir = "missing" => \A n \in Names : ~Exists(n)
    /\ backup.at \in {"idle", "list", "read"} /\ backup.todo \subseteq Names
    /\ \A a \in {backup.got, archive, restoring} :
          /\ a.config \in ConfigType
          /\ a.files \in [Names -> {Nothing} \cup Entries]

\* backup.go:20-34: whatever the operator's commands do between its reads, an
\* archive holds every client that was there from the backup's start to its end.
ArchiveIsComplete == archive.must \ revoked \subseteq Ids(archive)

\* backup.go:118-123, restore.go:30-34: a restore that reports success leaves
\* exactly what the archive holds, all of it readable by the service, whatever
\* killed restores and commands it found and whatever opened the store meanwhile.
CompletedRestoreIsArchive ==
    [][cmd.at = "chown config" /\ cmd'.at = "idle" /\ kills' = kills =>
          /\ config' = [restoring.config EXCEPT !.owner = "rdda"]
          /\ dir' = "rdda"
          /\ files' = [n \in Names |-> IF Unpacked[n] = Absent THEN Absent
                                       ELSE [Unpacked[n] EXCEPT !.owner = "rdda"]]]_vars

\* backup.go:57-58 "It unpacks to a temp dir first, so a failure leaves any
\* existing state untouched": when a restore ends with an error, the operator
\* still has the configuration and the clients from before it.
FailureLeavesState ==
    [][cmd.at = "move" /\ cmd'.at = "idle" /\ kills' = kills =>
          Holdings' = before]_vars
=============================================================================
