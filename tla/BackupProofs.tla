---------------------------- MODULE BackupProofs ----------------------------
(***************************************************************************)
(* Theorems about backups and restores of a live EU node, for every finite *)
(* set of client names and every number of commands, backups and restores. *)
(***************************************************************************)
EXTENDS Backup, WellFoundedInduction, TLAPS

FileType == [id : 0..MaxIds, owner : {"none", "root", "rdda"}, made : 0..MaxIds]
CmdType == [at : {"idle", "create", "write", "chown", "truncate", "save",
                  "config", "clear", "move", "chown clients", "chown config"},
            name : Names \cup {0}, id : 0..MaxIds, saving : ConfigType]
ContentType == [id : -1..MaxIds, made : 0..MaxIds]
ArchiveType == [config : ConfigType, files : [Names -> ContentType], must : SUBSET (1..MaxIds)]
BackupType == [at : {"idle", "list", "read"}, todo : SUBSET Names, got : ArchiveType]

StoreInv ==
    /\ fresh \in 0..MaxIds /\ kills \in 0..MaxKills /\ revoked \subseteq 0..MaxIds
    /\ dir \in {"rdda", "root", "missing"}
    /\ config \in ConfigType /\ files \in [Names -> FileType] /\ cmd \in CmdType

\* A file is empty or holds the identity it was made for; where there is no
\* directory there is none.
FilesInv ==
    /\ \A n \in Names : Exists(n) =>
          files[n].made \in 1..MaxIds /\ files[n].id \in {Empty, files[n].made}
    /\ dir = "missing" => \A n \in Names : ~Exists(n)

\* How far client add is.
AddInv ==
    /\ cmd.at \in {"create", "write", "chown"} => cmd.name \in Names /\ dir # "missing"
    /\ cmd.at = "create" => ~Exists(cmd.name) /\ cmd.id \in 1..MaxIds
    /\ cmd.at = "write" => /\ Exists(cmd.name) /\ files[cmd.name].made = cmd.id
                           /\ files[cmd.name].id = Empty
    /\ cmd.at = "chown" => Exists(cmd.name)

\* How far a restore is: what it has put in place so far is the archive's, but
\* for the owner, and in the end with the owner.
Handed(c) == [c EXCEPT !.owner = "rdda"]
HandedFile(f) == IF f = Absent THEN Absent ELSE [f EXCEPT !.owner = "rdda"]
RestoreInv ==
    /\ cmd.at \in {"clear", "move", "chown clients", "chown config"} =>
          Handed(config) = Handed(restoring.config)
    /\ cmd.at \in {"chown clients", "chown config"} =>
          /\ dir # "missing"
          /\ \A n \in Names : HandedFile(files[n]) = HandedFile(Unpacked[n])
    /\ cmd.at = "chown config" =>
          dir = "rdda" /\ \A n \in Names : files[n] = HandedFile(Unpacked[n])

\* An archive is made of files.
ContentOK(c) == c = Nothing \/ (c.made \in 1..MaxIds /\ c.id \in {Empty, c.made})
ArchiveInv(a) == a \in ArchiveType /\ \A n \in Names : ContentOK(a.files[n])

\* What a backup has still to archive of what it must, it will find.
BackupInv ==
    /\ backup \in BackupType /\ ArchiveInv(backup.got)
    /\ backup.at # "read" => backup.got.files = [n \in Names |-> Nothing]
    /\ \A n \in backup.todo : backup.got.files[n] = Nothing
    /\ \A id \in backup.got.must \ revoked :
          \/ \E n \in Names : backup.got.files[n].id = id
          \/ \E n \in Names : Exists(n) /\ files[n].id = id
                              /\ (backup.at = "read" => n \in backup.todo)

IInv ==
    /\ StoreInv /\ FilesInv /\ AddInv /\ RestoreInv
    /\ ArchiveInv(archive) /\ ArchiveInv(restoring)
    /\ BackupInv /\ ArchiveIsComplete

-----------------------------------------------------------------------------
LEMMA Bounds == Names \subseteq Nat /\ MaxIds \in Nat \ {0} /\ MaxKills \in Nat
BY NamesAssumption, MaxIdsAssumption

\* The first of some directory entries is one of them.
LEMMA MinIsIn ==
    ASSUME NEW S, S \subseteq Nat, S # {}
    PROVE  Min(S) \in S
<1>1. PICK x \in S : \A y \in S : <<y, x>> \notin OpToRel(<, Nat)
  BY NatLessThanWellFounded, WFMin
<1>2. \A y \in S : ~(y < x)
  <2> TAKE y \in S
  <2>1. y < x => <<y, x>> \in {ss \in Nat \X Nat : ss[1] < ss[2]}
    OBVIOUS
  <2>2. OpToRel(<, Nat) = {ss \in Nat \X Nat : ss[1] < ss[2]}
    BY Zenon DEF OpToRel
  <2>3. QED
    BY Zenon, <2>1, <2>2, <1>1
<1>3. \A y \in S : x <= y
  BY <1>2
<1>4. QED
  BY <1>3 DEF Min

LEMMA NoCmdIs ==
    /\ NoCmd \in CmdType /\ NoCmd.at = "idle" /\ NoCmd.name = 0 /\ NoCmd.id = 0
    /\ Truncated("root") \in ConfigType /\ Absent \in FileType
BY Bounds DEF NoCmd, CmdType, Truncated, ConfigType, Absent, FileType

\* What it means to be handed to the service user.
LEMMA HandedIs ==
    /\ \A c \in ConfigType : Handed(c) \in ConfigType /\ Handed(Handed(c)) = Handed(c)
    /\ HandedFile(Absent) = Absent
    /\ \A f \in FileType : f # Absent =>
          /\ HandedFile(f) \in FileType /\ HandedFile(f) # Absent
          /\ HandedFile(f).id = f.id /\ HandedFile(f).made = f.made
          /\ HandedFile(HandedFile(f)) = HandedFile(f)
<1>1. \A c \in ConfigType : Handed(c) \in ConfigType /\ Handed(Handed(c)) = Handed(c)
  BY DEF Handed, ConfigType
<1>2. ASSUME NEW f \in FileType, f # Absent
      PROVE  /\ HandedFile(f) \in FileType /\ HandedFile(f) # Absent
             /\ HandedFile(f).id = f.id /\ HandedFile(f).made = f.made
             /\ HandedFile(HandedFile(f)) = HandedFile(f)
  <2>1. HandedFile(f) = [f EXCEPT !.owner = "rdda"]
    BY <1>2 DEF HandedFile
  <2>2. /\ HandedFile(f) \in FileType /\ HandedFile(f).owner = "rdda"
        /\ HandedFile(f).id = f.id /\ HandedFile(f).made = f.made
    BY <2>1 DEF FileType
  <2>3. HandedFile(f) # Absent
    BY <2>2 DEF Absent
  <2>4. HandedFile(HandedFile(f)) = HandedFile(f)
    BY <2>1, <2>2, <2>3 DEF HandedFile, FileType
  <2>5. QED
    BY <2>2, <2>3, <2>4
<1>3. QED
  BY <1>1, <1>2 DEF HandedFile

\* What a restore unpacks.
LEMMA UnpackedIs ==
    ASSUME ArchiveInv(restoring), NEW n \in Names
    PROVE  /\ Unpacked[n] \in FileType
           /\ Unpacked[n] # Absent =>
                 Unpacked[n].made \in 1..MaxIds /\ Unpacked[n].id \in {Empty, Unpacked[n].made}
<1>1. CASE restoring.files[n] = Nothing
  BY <1>1, NoCmdIs DEF Unpacked
<1>2. CASE restoring.files[n] # Nothing
  <2> DEFINE c == restoring.files[n]
  <2>1. c.made \in 1..MaxIds /\ c.id \in {Empty, c.made}
    BY <1>2 DEF ArchiveInv, ContentOK
  <2>2. c.made \in 0..MaxIds /\ c.id \in 0..MaxIds
    BY <2>1, Bounds DEF Empty
  <2>3. Unpacked[n] = [id |-> c.id, made |-> c.made, owner |-> "root"]
    BY <1>2 DEF Unpacked
  <2> HIDE DEF c
  <2>4. QED
    BY <2>1, <2>2, <2>3 DEF FileType
<1>3. QED
  BY <1>1, <1>2

\* The steps of the operator's other commands.
LEMMA StoreStep ==
    ASSUME StoreInv, FilesInv, AddInv, RestoreInv, ArchiveInv(restoring), StoreNext,
           UNCHANGED restoring
    PROVE  (StoreInv /\ FilesInv /\ AddInv /\ RestoreInv)'
<1> DEFINE Goal == (StoreInv /\ FilesInv /\ AddInv /\ RestoreInv)'
<1>0. /\ fresh \in 0..MaxIds /\ MaxIds \in Nat
      /\ fresh < MaxIds => fresh + 1 \in 1..MaxIds /\ fresh + 1 \in 0..MaxIds
  BY Bounds DEF StoreInv
<1>1. ASSUME NEW n \in Names, AddClient(n)
      PROVE  Goal
  <2>1. /\ cmd' = [NoCmd EXCEPT !.at = "create", !.name = n, !.id = fresh + 1]
        /\ fresh' = fresh + 1 /\ fresh + 1 \in 1..MaxIds /\ fresh + 1 \in 0..MaxIds
        /\ UNCHANGED <<config, files, revoked, kills>> /\ ~Exists(n)
    BY <1>0, <1>1 DEF AddClient
  <2>2. cmd'.at = "create" /\ cmd'.name = n /\ cmd'.id = fresh + 1 /\ cmd' \in CmdType
    BY <2>1, NoCmdIs DEF CmdType
  <2>3. dir' \in {"rdda", "root"}
    BY <1>1 DEF AddClient, Opened, StoreInv
  <2>4. StoreInv' /\ FilesInv'
    BY <2>1, <2>2, <2>3 DEF StoreInv, FilesInv, Exists
  <2>5. AddInv' /\ RestoreInv'
    BY <2>1, <2>2, <2>3 DEF AddInv, RestoreInv, Exists
  <2>6. QED
    BY <2>4, <2>5
<1>2. CASE AddCreate
  <2> DEFINE n == cmd.name
             f == [id |-> Empty, owner |-> "root", made |-> cmd.id]
  <2>1. n \in Names /\ dir # "missing" /\ cmd.id \in 1..MaxIds /\ cmd.id \in 0..MaxIds
    BY <1>2 DEF AddCreate, AddInv, StoreInv, CmdType
  <2>2. /\ cmd'.at = "write" /\ cmd'.name = n /\ cmd'.id = cmd.id /\ cmd' \in CmdType
        /\ files' = [files EXCEPT ![n] = f]
        /\ UNCHANGED <<config, dir, fresh, revoked, kills>>
    BY <1>2 DEF AddCreate, StoreInv, CmdType
  <2>3. f \in FileType /\ f.id = Empty /\ f.made = cmd.id /\ f # Absent
    <3>1. f \in FileType /\ f.id = Empty /\ f.made = cmd.id /\ f.owner = "root"
      BY <2>1, Bounds DEF FileType, Empty
    <3>2. Absent.owner = "none"
      BY DEF Absent
    <3>3. QED
      BY <3>1, <3>2
  <2> HIDE DEF f
  <2>4. /\ files' \in [Names -> FileType] /\ files'[n] = f
        /\ \A m \in Names \ {n} : files'[m] = files[m]
    BY <2>1, <2>2, <2>3 DEF StoreInv
  <2>5. StoreInv' /\ FilesInv'
    BY <2>1, <2>2, <2>3, <2>4 DEF StoreInv, FilesInv, Exists
  <2>6. AddInv' /\ RestoreInv'
    BY <2>1, <2>2, <2>3, <2>4 DEF AddInv, RestoreInv, Exists
  <2>7. QED
    BY <2>5, <2>6
<1>3. CASE AddWrite
  <2> DEFINE n == cmd.name
  <2>1. /\ n \in Names /\ dir # "missing" /\ Exists(n) /\ files[n].made = cmd.id
        /\ cmd.id \in 1..MaxIds /\ cmd.id \in 0..MaxIds
    BY <1>3 DEF AddWrite, AddInv, FilesInv, StoreInv, CmdType
  <2>2. /\ cmd'.at = "chown" /\ cmd'.name = n /\ cmd' \in CmdType
        /\ files' = [files EXCEPT ![n].id = cmd.id]
        /\ UNCHANGED <<config, dir, fresh, revoked, kills>>
    BY <1>3 DEF AddWrite, StoreInv, CmdType
  <2>3. /\ files' \in [Names -> FileType]
        /\ files'[n].id = cmd.id /\ files'[n].made = cmd.id
        /\ \A m \in Names \ {n} : files'[m] = files[m]
    BY <2>1, <2>2 DEF StoreInv, FileType
  <2>4. files'[n] # Absent
    BY <2>1, <2>3 DEF Absent
  <2>5. StoreInv' /\ FilesInv'
    BY <2>1, <2>2, <2>3, <2>4 DEF StoreInv, FilesInv, Exists
  <2>6. AddInv' /\ RestoreInv'
    BY <2>1, <2>2, <2>3, <2>4 DEF AddInv, RestoreInv, Exists
  <2>7. QED
    BY <2>5, <2>6
<1>4. CASE AddChown
  <2> DEFINE n == cmd.name
  <2>1. n \in Names /\ dir # "missing" /\ Exists(n)
    BY <1>4 DEF AddChown, AddInv
  <2>2. /\ cmd' = NoCmd /\ files' = [files EXCEPT ![n].owner = "rdda"]
        /\ UNCHANGED <<config, dir, fresh, revoked, kills>>
    BY <1>4 DEF AddChown
  <2>3. /\ files' \in [Names -> FileType]
        /\ files'[n].id = files[n].id /\ files'[n].made = files[n].made
        /\ \A m \in Names \ {n} : files'[m] = files[m]
    BY <2>1, <2>2 DEF StoreInv, FileType
  <2>4. StoreInv' /\ FilesInv'
    BY <2>1, <2>2, <2>3, NoCmdIs DEF StoreInv, FilesInv, Exists
  <2>5. AddInv' /\ RestoreInv'
    BY <2>2, NoCmdIs DEF AddInv, RestoreInv
  <2>6. QED
    BY <2>4, <2>5
<1>5. ASSUME NEW n \in Names, RemoveClient(n)
      PROVE  Goal
  <2>1. /\ Exists(n) /\ cmd.at = "idle" /\ files' = [files EXCEPT ![n] = Absent]
        /\ revoked' = revoked \cup {files[n].made}
        /\ UNCHANGED <<config, dir, cmd, fresh, kills>>
    BY <1>5 DEF RemoveClient
  <2>2. /\ files' \in [Names -> FileType] /\ files'[n] = Absent
        /\ \A m \in Names \ {n} : files'[m] = files[m]
    BY <2>1, NoCmdIs DEF StoreInv
  <2>3. files[n].made \in 0..MaxIds
    BY DEF StoreInv, FileType
  <2>4. StoreInv' /\ FilesInv'
    BY <2>1, <2>2, <2>3 DEF StoreInv, FilesInv, Exists
  <2>5. AddInv' /\ RestoreInv'
    BY <2>1 DEF AddInv, RestoreInv
  <2>6. QED
    BY <2>4, <2>5
<1>6. CASE InitConfig \/ EditConfig
  <2> DEFINE new == IF InitConfig THEN [config EXCEPT !.rev = fresh + 1, !.token = fresh + 1]
                    ELSE [config EXCEPT !.rev = fresh + 1]
  <2>1. /\ fresh' = fresh + 1 /\ fresh + 1 \in 0..MaxIds
        /\ UNCHANGED <<config, files, revoked, kills>>
        /\ cmd' = [NoCmd EXCEPT !.at = "truncate", !.saving = new]
    BY <1>0, <1>6 DEF InitConfig, EditConfig
  <2>2. dir' \in {"rdda", "root"}
    BY <1>6 DEF InitConfig, EditConfig, Opened, StoreInv
  <2>3. new \in ConfigType
    <3>1. fresh + 1 \in -1..MaxIds
      BY <1>0, <2>1
    <3>2. QED
      BY <3>1 DEF StoreInv, ConfigType
  <2> HIDE DEF new
  <2>4. cmd' \in CmdType /\ cmd'.at = "truncate"
    BY <2>1, <2>3, NoCmdIs DEF CmdType
  <2>5. StoreInv' /\ FilesInv'
    BY <2>1, <2>2, <2>4 DEF StoreInv, FilesInv, Exists
  <2>6. AddInv' /\ RestoreInv'
    BY <2>4 DEF AddInv, RestoreInv
  <2>7. QED
    BY <2>5, <2>6
<1>7. CASE SaveTruncate
  <2>1. /\ cmd'.at = "save" /\ cmd' \in CmdType
        /\ config' = Truncated(config.owner)
        /\ UNCHANGED <<dir, files, fresh, revoked, kills>>
    BY <1>7 DEF SaveTruncate, StoreInv, CmdType
  <2>2. config' \in ConfigType
    BY <2>1, Bounds DEF StoreInv, ConfigType, Truncated
  <2>3. StoreInv' /\ FilesInv'
    BY <2>1, <2>2 DEF StoreInv, FilesInv, Exists
  <2>4. AddInv' /\ RestoreInv'
    BY <2>1 DEF AddInv, RestoreInv
  <2>5. QED
    BY <2>3, <2>4
<1>8. CASE SaveWrite
  <2>1. /\ cmd' = NoCmd /\ config' = [cmd.saving EXCEPT !.owner = config.owner]
        /\ UNCHANGED <<dir, files, fresh, revoked, kills>>
    BY <1>8 DEF SaveWrite
  <2>2. config' \in ConfigType
    BY <2>1 DEF StoreInv, CmdType, ConfigType
  <2>3. StoreInv' /\ FilesInv'
    BY <2>1, <2>2, NoCmdIs DEF StoreInv, FilesInv, Exists
  <2>4. AddInv' /\ RestoreInv'
    BY <2>1, NoCmdIs DEF AddInv, RestoreInv
  <2>5. QED
    BY <2>3, <2>4
<1>9. CASE ChownTree
  <2>1. /\ config' = Handed(config) /\ UNCHANGED <<cmd, fresh, revoked, kills>>
        /\ dir' \in {"rdda", "root", "missing"} /\ (dir' = "missing" <=> dir = "missing")
        /\ dir = "rdda" => dir' = "rdda"
    BY <1>9 DEF ChownTree, StoreInv, Handed
  <2>2. files' = [n \in Names |-> HandedFile(files[n])]
    BY <1>9 DEF ChownTree, HandedFile, Exists
  <2>3. \A n \in Names : /\ files'[n] \in FileType /\ (files'[n] = Absent <=> files[n] = Absent)
                         /\ files[n] # Absent =>
                               files'[n].id = files[n].id /\ files'[n].made = files[n].made
    BY <2>2, HandedIs, NoCmdIs DEF StoreInv
  <2>4. config' \in ConfigType /\ Handed(config') = Handed(config)
    BY <2>1, HandedIs DEF StoreInv
  <2>5. files' \in [Names -> FileType]
    BY <2>2, <2>3
  <2>6. StoreInv' /\ FilesInv'
    BY <2>1, <2>3, <2>4, <2>5 DEF StoreInv, FilesInv, Exists
  <2>7. AddInv'
    BY <2>1, <2>3 DEF AddInv, Exists
  <2>8. RestoreInv'
    <3>1. Unpacked' = Unpacked
      BY DEF Unpacked
    <3>2. \A n \in Names : HandedFile(files'[n]) = HandedFile(files[n])
      BY <2>2, HandedIs DEF StoreInv
    <3>3. \A n \in Names : HandedFile(HandedFile(Unpacked[n])) = HandedFile(Unpacked[n])
      BY UnpackedIs, HandedIs
    <3>4. QED
      BY <2>1, <2>2, <2>4, <3>1, <3>2, <3>3 DEF RestoreInv
  <2>9. QED
    BY <2>6, <2>7, <2>8
<1>10. CASE KillCommand
  <2>1. cmd' = NoCmd /\ kills' \in 0..MaxKills /\ UNCHANGED <<config, dir, files, fresh, revoked>>
    BY <1>10, Bounds DEF KillCommand, StoreInv
  <2>2. StoreInv' /\ FilesInv'
    BY <2>1, NoCmdIs DEF StoreInv, FilesInv, Exists
  <2>3. AddInv' /\ RestoreInv'
    BY <2>1, NoCmdIs DEF AddInv, RestoreInv
  <2>4. QED
    BY <2>2, <2>3
<1>11. QED
  BY <1>1, <1>2, <1>3, <1>4, <1>5, <1>6, <1>7, <1>8, <1>9, <1>10 DEF StoreNext, CommandStep

\* What no command of the operator's does: take back a revocation, or touch the
\* identity of a client that is not revoked.
Kept == \A n \in Names : Exists(n) /\ files[n].id # Empty =>
            (Exists(n)' /\ files'[n].id = files[n].id) \/ files[n].id \in revoked'

LEMMA StoreKeeps ==
    ASSUME StoreInv, FilesInv, AddInv, StoreNext
    PROVE  revoked \subseteq revoked' /\ Kept
<1>1. ASSUME NEW n \in Names, AddClient(n)
      PROVE  revoked \subseteq revoked' /\ Kept
  BY <1>1 DEF AddClient, Kept, Exists
<1>2. CASE AddCreate
  <2>1. /\ ~Exists(cmd.name) /\ revoked' = revoked
        /\ \A m \in Names \ {cmd.name} : files'[m] = files[m]
    BY <1>2 DEF AddCreate, AddInv, StoreInv
  <2>2. QED
    BY <2>1 DEF Kept, Exists
<1>3. CASE AddWrite
  <2>1. /\ files[cmd.name].id = Empty /\ revoked' = revoked
        /\ \A m \in Names \ {cmd.name} : files'[m] = files[m]
    BY <1>3 DEF AddWrite, AddInv, StoreInv
  <2>2. QED
    BY <2>1 DEF Kept, Exists
<1>4. CASE AddChown
  <2>1. /\ \A n \in Names : files'[n].id = files[n].id
        /\ \A n \in Names \ {cmd.name} : files'[n] = files[n]
        /\ revoked' = revoked
    BY <1>4 DEF AddChown, StoreInv, FileType
  <2>2. \A n \in Names : files[n].id # Empty => files'[n] # Absent
    BY <2>1 DEF Absent, Empty
  <2>3. QED
    BY <2>1, <2>2 DEF Kept, Exists
<1>5. ASSUME NEW n \in Names, RemoveClient(n)
      PROVE  revoked \subseteq revoked' /\ Kept
  <2>1. /\ Exists(n) /\ revoked' = revoked \cup {files[n].made}
        /\ \A m \in Names \ {n} : files'[m] = files[m]
    BY <1>5 DEF RemoveClient, StoreInv
  <2>2. files[n].id # Empty => files[n].id \in revoked'
    BY <2>1 DEF FilesInv
  <2>3. QED
    BY <2>1, <2>2 DEF Kept, Exists
<1>6. CASE InitConfig \/ EditConfig \/ SaveTruncate \/ SaveWrite \/ KillCommand
  <2>1. UNCHANGED <<files, revoked>>
    BY <1>6 DEF InitConfig, EditConfig, SaveTruncate, SaveWrite, KillCommand
  <2>2. QED
    BY <2>1 DEF Kept, Exists
<1>7. CASE ChownTree
  <2>1. files' = [n \in Names |-> HandedFile(files[n])] /\ revoked' = revoked
    BY <1>7 DEF ChownTree, HandedFile, Exists
  <2>2. QED
    BY <2>1, HandedIs DEF Kept, Exists, StoreInv
<1>8. QED
  BY <1>1, <1>2, <1>3, <1>4, <1>5, <1>6, <1>7 DEF StoreNext, CommandStep

\* A running backup loses nothing to a step that keeps the clients' files.
LEMMA BackupKept ==
    ASSUME BackupInv, revoked \subseteq revoked', Kept, UNCHANGED backup
    PROVE  BackupInv'
<1>1. /\ backup' \in BackupType /\ ArchiveInv(backup.got)' /\ backup' = backup
      /\ backup'.at # "read" => backup'.got.files = [n \in Names |-> Nothing]
      /\ \A n \in backup'.todo : backup'.got.files[n] = Nothing
  BY DEF BackupInv, ArchiveInv, ContentOK
<1>2. ASSUME NEW id \in backup.got.must \ revoked', ~ \E n \in Names : backup.got.files[n].id = id
      PROVE  \E n \in Names : Exists(n)' /\ files'[n].id = id
                              /\ (backup.at = "read" => n \in backup.todo)
  <2>1. PICK n \in Names : Exists(n) /\ files[n].id = id /\ (backup.at = "read" => n \in backup.todo)
    BY <1>2 DEF BackupInv
  <2>2. id # Empty
    <3>1. backup.got.must \subseteq 1..MaxIds
      BY DEF BackupInv, ArchiveInv, ArchiveType
    <3>2. QED
      BY <1>2, <3>1 DEF Empty
  <2>3. Exists(n)' /\ files'[n].id = id
    BY <1>2, <2>1, <2>2 DEF Kept
  <2>4. QED
    BY <2>1, <2>3
<1>3. QED
  BY <1>1, <1>2 DEF BackupInv

\* The steps of a restore that is under way.
LEMMA RestoreStepOK ==
    ASSUME StoreInv, FilesInv, AddInv, RestoreInv, ArchiveInv(restoring), RestoreStep
    PROVE  (StoreInv /\ FilesInv /\ AddInv /\ RestoreInv)' /\ UNCHANGED <<archive, restoring>>
<1> DEFINE Goal == (StoreInv /\ FilesInv /\ AddInv /\ RestoreInv)' /\ UNCHANGED <<archive, restoring>>
<1>0. ASSUME UNCHANGED restoring
      PROVE  Unpacked' = Unpacked
  BY <1>0 DEF Unpacked
<1>1. CASE RestoreConfig
  <2>1. /\ cmd.at = "config" /\ cmd' = [cmd EXCEPT !.at = "clear"]
        /\ config' = [restoring.config EXCEPT !.owner = "root"]
        /\ UNCHANGED <<dir, files, fresh, revoked, kills, archive, restoring>>
    BY <1>1 DEF RestoreConfig, backupVars, restoreVars
  <2>2. cmd' \in CmdType /\ cmd'.at = "clear"
    BY <2>1 DEF StoreInv, CmdType
  <2>3. restoring.config \in ConfigType
    BY DEF ArchiveInv, ArchiveType
  <2>4. config' \in ConfigType /\ Handed(config') = Handed(restoring.config)
    BY <2>1, <2>3 DEF ConfigType, Handed
  <2>5. StoreInv' /\ FilesInv'
    BY <2>1, <2>2, <2>4 DEF StoreInv, FilesInv, Exists
  <2>6. AddInv' /\ RestoreInv'
    BY <2>1, <2>2, <2>4 DEF AddInv, RestoreInv
  <2>7. QED
    BY <2>1, <2>5, <2>6
<1>2. CASE RestoreClear
  <2>1. /\ cmd.at = "clear"
        /\ UNCHANGED <<config, dir, cmd, fresh, revoked, kills, archive, restoring>>
    BY <1>2 DEF RestoreClear, restoreVars
  <2>2. PICK n \in Names : files' = [files EXCEPT ![n] = Absent]
    BY <1>2 DEF RestoreClear
  <2>3. /\ files' \in [Names -> FileType] /\ files'[n] = Absent
        /\ \A m \in Names \ {n} : files'[m] = files[m]
    BY <2>2, NoCmdIs DEF StoreInv
  <2>4. StoreInv' /\ FilesInv'
    BY <2>1, <2>3 DEF StoreInv, FilesInv, Exists
  <2>5. AddInv' /\ RestoreInv'
    BY <2>1 DEF AddInv, RestoreInv
  <2>6. QED
    BY <2>1, <2>4, <2>5
<1>3. CASE RestoreCleared
  <2>1. /\ cmd.at = "clear" /\ cmd' = [cmd EXCEPT !.at = "move"] /\ dir' = "missing"
        /\ \A n \in Names : ~Exists(n)
        /\ UNCHANGED <<config, files, fresh, revoked, kills, archive, restoring>>
    BY <1>3 DEF RestoreCleared, backupVars, restoreVars
  <2>2. cmd' \in CmdType /\ cmd'.at = "move"
    BY <2>1 DEF StoreInv, CmdType
  <2>3. StoreInv' /\ FilesInv'
    BY <2>1, <2>2 DEF StoreInv, FilesInv, Exists
  <2>4. AddInv' /\ RestoreInv'
    BY <2>1, <2>2 DEF AddInv, RestoreInv
  <2>5. QED
    BY <2>1, <2>3, <2>4
<1>4. CASE RestoreMove /\ dir = "missing"
  <2>1. /\ cmd.at = "move" /\ cmd' = [cmd EXCEPT !.at = "chown clients"]
        /\ dir' = "root" /\ files' = Unpacked
        /\ UNCHANGED <<config, fresh, revoked, kills, archive, restoring>>
    BY <1>4 DEF RestoreMove, backupVars, restoreVars
  <2>2. cmd' \in CmdType /\ cmd'.at = "chown clients"
    BY <2>1 DEF StoreInv, CmdType
  <2>3. /\ \A n \in Names : files'[n] \in FileType
        /\ \A n \in Names : files'[n] # Absent =>
              files'[n].made \in 1..MaxIds /\ files'[n].id \in {Empty, files'[n].made}
    BY <2>1, UnpackedIs
  <2>4. files' \in [Names -> FileType]
    BY <2>1, <2>3 DEF Unpacked
  <2>5. StoreInv' /\ FilesInv'
    BY <2>1, <2>2, <2>3, <2>4 DEF StoreInv, FilesInv, Exists
  <2>6. AddInv'
    BY <2>2 DEF AddInv
  <2>7. RestoreInv'
    BY <1>0, <2>1, <2>2 DEF RestoreInv
  <2>8. QED
    BY <2>1, <2>5, <2>6, <2>7
<1>5. CASE RestoreMove /\ dir # "missing"
  <2>1. cmd' = NoCmd /\ UNCHANGED <<config, dir, files, fresh, revoked, kills, archive, restoring>>
    BY <1>5 DEF RestoreMove, backupVars, restoreVars
  <2>2. StoreInv' /\ FilesInv'
    BY <2>1, NoCmdIs DEF StoreInv, FilesInv, Exists
  <2>3. AddInv' /\ RestoreInv'
    BY <2>1, NoCmdIs DEF AddInv, RestoreInv
  <2>4. QED
    BY <2>1, <2>2, <2>3
<1>6. CASE RestoreChownClients
  <2>1. /\ cmd.at = "chown clients" /\ cmd' = [cmd EXCEPT !.at = "chown config"]
        /\ dir' = "rdda"
        /\ UNCHANGED <<config, fresh, revoked, kills, archive, restoring>>
    BY <1>6 DEF RestoreChownClients, backupVars, restoreVars
  <2>2. files' = [n \in Names |-> HandedFile(files[n])]
    BY <1>6 DEF RestoreChownClients, HandedFile, Exists
  <2>3. cmd' \in CmdType /\ cmd'.at = "chown config"
    BY <2>1 DEF StoreInv, CmdType
  <2>4. \A n \in Names : /\ files'[n] \in FileType /\ (files'[n] = Absent <=> files[n] = Absent)
                         /\ files[n] # Absent =>
                               files'[n].id = files[n].id /\ files'[n].made = files[n].made
    BY <2>2, HandedIs, NoCmdIs DEF StoreInv
  <2>5. files' \in [Names -> FileType]
    BY <2>2, <2>4
  <2>6. StoreInv' /\ FilesInv'
    BY <2>1, <2>3, <2>4, <2>5 DEF StoreInv, FilesInv, Exists
  <2>7. AddInv'
    BY <2>3 DEF AddInv
  <2>8. RestoreInv'
    <3>1. \A n \in Names : HandedFile(files[n]) = HandedFile(Unpacked[n])
      BY <2>1 DEF RestoreInv
    <3>2. \A n \in Names : HandedFile(HandedFile(Unpacked[n])) = HandedFile(Unpacked[n])
      BY UnpackedIs, HandedIs
    <3>3. \A n \in Names : files'[n] = HandedFile(Unpacked[n])
      BY <2>2, <3>1
    <3>4. \A n \in Names : HandedFile(files'[n]) = HandedFile(Unpacked[n])
      BY <3>2, <3>3
    <3>5. Handed(config) = Handed(restoring.config)
      BY <2>1 DEF RestoreInv
    <3>6. QED
      BY <1>0, <2>1, <3>3, <3>4, <3>5 DEF RestoreInv
  <2>9. QED
    BY <2>1, <2>6, <2>7, <2>8
<1>7. CASE RestoreChownConfig
  <2>1. /\ cmd' = NoCmd /\ config' = Handed(config)
        /\ UNCHANGED <<dir, files, fresh, revoked, kills, archive, restoring>>
    BY <1>7 DEF RestoreChownConfig, Handed, backupVars, restoreVars
  <2>2. config' \in ConfigType
    BY <2>1, HandedIs DEF StoreInv
  <2>3. StoreInv' /\ FilesInv'
    BY <2>1, <2>2, NoCmdIs DEF StoreInv, FilesInv, Exists
  <2>4. AddInv' /\ RestoreInv'
    BY <2>1, NoCmdIs DEF AddInv, RestoreInv
  <2>5. QED
    BY <2>1, <2>3, <2>4
<1>8. QED
  BY <1>1, <1>2, <1>3, <1>4, <1>5, <1>6, <1>7 DEF RestoreStep

\* What they do to a backup that is running: RemoveAll takes the clients it
\* removes out of what the backup must hold, and the move finds no files.
LEMMA RestoreStepBackup ==
    ASSUME StoreInv, FilesInv, RestoreInv, BackupInv, RestoreStep
    PROVE  BackupInv' /\ revoked' = revoked
<1>1. CASE RestoreClear
  <2>1. PICK n \in Names : /\ Exists(n) /\ files' = [files EXCEPT ![n] = Absent]
                           /\ backup' = [backup EXCEPT !.got.must = @ \ {files[n].id}]
    BY <1>1 DEF RestoreClear
  <2>2. revoked' = revoked
    BY <1>1 DEF RestoreClear
  <2>3. /\ backup'.at = backup.at /\ backup'.todo = backup.todo
        /\ backup'.got.files = backup.got.files /\ backup'.got.config = backup.got.config
        /\ backup'.got.must = backup.got.must \ {files[n].id}
        /\ backup' \in BackupType
    BY <2>1 DEF BackupInv, BackupType, ArchiveType
  <2>4. \A m \in Names : Exists(m) /\ files[m].id # files[n].id => Exists(m)' /\ files'[m] = files[m]
    BY <2>1 DEF StoreInv, Exists
  <2>5. ArchiveInv(backup.got)'
    BY <2>3 DEF BackupInv, BackupType, ArchiveInv, ContentOK
  <2>6. \A id \in backup'.got.must \ revoked :
            \/ \E m \in Names : backup'.got.files[m].id = id
            \/ \E m \in Names : Exists(m)' /\ files'[m].id = id
                                /\ (backup'.at = "read" => m \in backup'.todo)
    BY <2>3, <2>4 DEF BackupInv
  <2>7. QED
    BY <2>2, <2>3, <2>5, <2>6 DEF BackupInv
<1>2. CASE RestoreConfig \/ RestoreCleared \/ RestoreChownConfig \/ (RestoreMove /\ dir # "missing")
  <2>1. UNCHANGED <<files, revoked, backup>>
    BY <1>2 DEF RestoreConfig, RestoreCleared, RestoreChownConfig, RestoreMove, backupVars, restoreVars
  <2>2. Kept
    BY <2>1 DEF Kept, Exists
  <2>3. QED
    BY <2>1, <2>2, BackupKept
<1>3. CASE RestoreMove /\ dir = "missing"
  <2>1. UNCHANGED <<revoked, backup>>
    BY <1>3 DEF RestoreMove, backupVars, restoreVars
  <2>2. \A n \in Names : ~Exists(n)
    BY <1>3 DEF FilesInv
  <2>3. Kept
    BY <2>2 DEF Kept
  <2>4. QED
    BY <2>1, <2>3, BackupKept
<1>4. CASE RestoreChownClients
  <2>1. files' = [n \in Names |-> HandedFile(files[n])] /\ UNCHANGED <<revoked, backup>>
    BY <1>4 DEF RestoreChownClients, HandedFile, Exists, backupVars, restoreVars
  <2>2. Kept
    BY <2>1, HandedIs DEF Kept, Exists, StoreInv
  <2>3. QED
    BY <2>1, <2>2, BackupKept
<1>5. QED
  BY <1>1, <1>2, <1>3, <1>4 DEF RestoreStep

\* The steps of a backup.
BackupStep == CreateConfig \/ CreateReadDir \/ CreateAddFile \/ CreateDone \/ BackupFails

LEMMA NothingIs ==
    /\ ArchiveInv(NoArchive) /\ NoBackup \in BackupType /\ NoBackup.at = "idle"
    /\ NoBackup.todo = {} /\ NoBackup.got = NoArchive /\ NoArchive.must = {}
    /\ NoArchive.files = [n \in Names |-> Nothing]
<1>1. NoArchive \in ArchiveType
  BY Bounds, NoCmdIs DEF NoArchive, ArchiveType, ContentType, Nothing
<1>2. QED
  BY <1>1 DEF NoArchive, NoBackup, BackupType, ArchiveInv, ContentOK

LEMMA NoBackupInv ==
    ASSUME backup' = NoBackup
    PROVE  BackupInv'
BY NothingIs DEF BackupInv, ArchiveInv, ContentOK

\* A client that can be read has a file with its identity.
LEMMA LiveIs ==
    ASSUME StoreInv, FilesInv
    PROVE  /\ Live \subseteq 1..MaxIds
           /\ \A id \in Live : \E n \in Names : Exists(n) /\ files[n].id = id
<1>1. \A id \in Live : \E n \in Names : Usable(n) /\ files[n].id = id
  BY DEF Live
<1>2. \A n \in Names : Usable(n) => Exists(n) /\ files[n].id \in 1..MaxIds
  BY DEF Usable, FilesInv
<1>3. QED
  BY <1>1, <1>2

\* What is put into an archive is a file.
LEMMA ContentIs ==
    ASSUME StoreInv, FilesInv, NEW n \in Names, Exists(n)
    PROVE  Content(n) \in ContentType /\ ContentOK(Content(n)) /\ Content(n).id = files[n].id
<1>1. files[n].made \in 1..MaxIds /\ files[n].id \in {Empty, files[n].made}
  BY DEF FilesInv
<1>2. files[n].made \in 0..MaxIds /\ files[n].id \in -1..MaxIds
  BY <1>1, Bounds DEF Empty
<1>3. QED
  BY <1>1, <1>2 DEF Content, ContentType, ContentOK

LEMMA BackupStepOK ==
    ASSUME StoreInv, FilesInv, BackupInv, ArchiveInv(archive), ArchiveIsComplete, BackupStep
    PROVE  (BackupInv /\ ArchiveInv(archive) /\ ArchiveIsComplete)' /\ UNCHANGED <<storeVars, restoreVars>>
<1> DEFINE Rest == UNCHANGED <<storeVars, restoreVars>>
           Same == Rest /\ UNCHANGED archive
<1>0. ASSUME Same
      PROVE  (ArchiveInv(archive) /\ ArchiveIsComplete)'
  BY <1>0 DEF ArchiveInv, ContentOK, ArchiveIsComplete, Ids, storeVars
<1>1. CASE CreateConfig
  <2>1. /\ backup' = [NoBackup EXCEPT !.at = "list", !.got.config = config, !.got.must = Live]
        /\ Same
    BY <1>1 DEF CreateConfig
  <2>2. /\ backup'.at = "list" /\ backup'.todo = {} /\ backup'.got.must = Live
        /\ backup'.got.files = [n \in Names |-> Nothing]
        /\ backup' \in BackupType
    BY <2>1, NothingIs, LiveIs DEF StoreInv, BackupType, ArchiveInv, ArchiveType
  <2>3. ArchiveInv(backup.got)'
    BY <2>2 DEF ArchiveInv, ContentOK, BackupType
  <2>4. \A id \in backup'.got.must : \E n \in Names : Exists(n)' /\ files'[n].id = id
    BY <2>1, <2>2, LiveIs DEF storeVars, Exists
  <2>5. BackupInv'
    BY <2>2, <2>3, <2>4 DEF BackupInv
  <2>6. QED
    BY <1>0, <2>1, <2>5
<1>2. CASE CreateReadDir
  <2>1. /\ backup.at = "list" /\ Same
        /\ backup' = [backup EXCEPT !.at = "read", !.todo = {n \in Names : Exists(n)}]
    BY <1>2 DEF CreateReadDir
  <2>2. /\ backup'.at = "read" /\ backup'.todo = {n \in Names : Exists(n)}
        /\ backup'.got = backup.got /\ backup' \in BackupType
    BY <2>1 DEF BackupInv, BackupType
  <2>3. backup.got.files = [n \in Names |-> Nothing]
    BY <2>1 DEF BackupInv
  <2>4. \A n \in Names : Exists(n)' = Exists(n) /\ files'[n] = files[n]
    BY <2>1 DEF storeVars, Exists
  <2>5. ArchiveInv(backup.got)'
    BY <2>2 DEF BackupInv, ArchiveInv, ContentOK
  <2>6. \A id \in backup'.got.must \ revoked' :
            \/ \E m \in Names : backup'.got.files[m].id = id
            \/ \E m \in Names : Exists(m)' /\ files'[m].id = id /\ m \in backup'.todo
    BY <2>1, <2>2, <2>4 DEF BackupInv, storeVars
  <2>7. BackupInv'
    BY <2>2, <2>3, <2>5, <2>6 DEF BackupInv
  <2>8. QED
    BY <1>0, <2>1, <2>7
<1>3. CASE CreateAddFile
  <2> DEFINE n == Min(backup.todo)
  <2>1. backup.at = "read" /\ backup' = AddFile(n) /\ Same /\ n \in backup.todo /\ n \in Names
    <3>1. backup.todo \subseteq Names /\ backup.todo # {}
      BY <1>3 DEF CreateAddFile, BackupInv, BackupType
    <3>2. n \in backup.todo
      BY <3>1, MinIsIn, Bounds
    <3>3. QED
      BY <1>3, <3>1, <3>2 DEF CreateAddFile
  <2> HIDE DEF n
  <2>2. CASE ~Exists(n)
    <3>1. backup' = NoBackup
      BY <2>1, <2>2 DEF AddFile
    <3>2. QED
      BY <1>0, <2>1, <3>1, NoBackupInv
  <2>3. CASE Exists(n)
    <3>1. backup' = [backup EXCEPT !.todo = @ \ {n}, !.got.files[n] = Content(n)]
      BY <2>1, <2>3 DEF AddFile
    <3>2. Content(n) \in ContentType /\ ContentOK(Content(n)) /\ Content(n).id = files[n].id
      BY <2>1, <2>3, ContentIs
    <3>3. backup \in BackupType /\ backup.got \in ArchiveType
      BY DEF BackupInv, BackupType
    <3>4. /\ backup'.at = "read" /\ backup'.todo = backup.todo \ {n}
          /\ backup'.got = [backup.got EXCEPT !.files[n] = Content(n)]
          /\ backup' = [backup EXCEPT !.todo = @ \ {n}, !.got = backup'.got]
      BY <2>1, <3>1, <3>3 DEF BackupType
    <3>5. /\ backup'.got.must = backup.got.must /\ backup'.got \in ArchiveType
          /\ backup'.got.files[n] = Content(n)
          /\ \A m \in Names \ {n} : backup'.got.files[m] = backup.got.files[m]
      BY <2>1, <3>2, <3>3, <3>4 DEF ArchiveType
    <3>6. backup' \in BackupType
      BY <3>3, <3>4, <3>5 DEF BackupType
    <3>7. ArchiveInv(backup.got)'
      BY <3>2, <3>5 DEF BackupInv, ArchiveInv, ContentOK
    <3>8. \A m \in backup'.todo : backup'.got.files[m] = Nothing
      BY <3>3, <3>4, <3>5 DEF BackupInv, BackupType
    <3>9. /\ revoked' = revoked
          /\ \A m \in Names : Exists(m)' = Exists(m) /\ files'[m] = files[m]
      BY <2>1 DEF storeVars, Exists
    <3>10. ASSUME NEW id \in backup.got.must \ revoked
           PROVE  \/ \E m \in Names : backup'.got.files[m].id = id
                  \/ \E m \in Names : Exists(m)' /\ files'[m].id = id /\ m \in backup'.todo
      <4>1. CASE \E m \in Names : backup.got.files[m].id = id
        <5>1. PICK m \in Names : backup.got.files[m].id = id
          BY <4>1
        <5>2. m # n
          <6>1. backup.got.files[n] = Nothing
            BY <2>1 DEF BackupInv
          <6>2. id # -1
            BY <3>3 DEF ArchiveType
          <6>3. QED
            BY <5>1, <6>1, <6>2 DEF Nothing
        <5>3. QED
          BY <3>5, <5>1, <5>2
      <4>2. CASE \E m \in Names : Exists(m) /\ files[m].id = id /\ m \in backup.todo
        <5>1. PICK m \in Names : Exists(m) /\ files[m].id = id /\ m \in backup.todo
          BY <4>2
        <5>2. CASE m = n
          BY <2>1, <3>2, <3>5, <5>1, <5>2
        <5>3. CASE m # n
          BY <3>4, <3>9, <5>1, <5>3
        <5>4. QED
          BY <5>2, <5>3
      <4>3. QED
        BY <2>1, <4>1, <4>2 DEF BackupInv
    <3>11. BackupInv'
      BY <3>4, <3>5, <3>6, <3>7, <3>8, <3>9, <3>10 DEF BackupInv
    <3>12. QED
      BY <1>0, <2>1, <3>11
  <2>4. QED
    BY <2>2, <2>3
<1>4. CASE CreateDone
  <2>1. /\ backup.at = "read" /\ backup.todo = {} /\ archive' = backup.got /\ backup' = NoBackup
        /\ Rest
    BY <1>4 DEF CreateDone
  <2>2. BackupInv'
    BY <2>1, NoBackupInv
  <2>3. ArchiveInv(archive)'
    BY <2>1 DEF BackupInv, ArchiveInv, ContentOK
  <2>4. ArchiveIsComplete'
    <3> SUFFICES ASSUME NEW id \in backup.got.must \ revoked
                 PROVE  id \in Ids(backup.got)
      BY <2>1 DEF ArchiveIsComplete, Ids, storeVars
    <3>1. PICK n \in Names : backup.got.files[n].id = id
      BY <2>1 DEF BackupInv
    <3>2. id # -1
      BY DEF BackupInv, ArchiveInv, ArchiveType
    <3>3. QED
      BY <3>1, <3>2 DEF Ids
  <2>5. QED
    BY <2>1, <2>2, <2>3, <2>4
<1>5. CASE BackupFails
  BY <1>0, <1>5, NoBackupInv DEF BackupFails
<1>6. QED
  BY <1>1, <1>2, <1>3, <1>4, <1>5 DEF BackupStep

-----------------------------------------------------------------------------
LEMMA InitIInv == Init => IInv
<1> SUFFICES ASSUME Init PROVE IInv
  OBVIOUS
<1>1. /\ backup = NoBackup /\ archive = NoArchive /\ restoring = NoArchive
      /\ cmd = NoCmd /\ revoked = {} /\ kills = 0 /\ fresh = 1 /\ dir = "rdda"
      /\ config = [rev |-> 1, token |-> 1, owner |-> "rdda"]
      /\ files = [n \in Names |-> IF n = Min(Names) THEN [id |-> 1, owner |-> "rdda", made |-> 1]
                                  ELSE Absent]
  BY DEF Init, StoreInit
<1>2. [id |-> 1, owner |-> "rdda", made |-> 1] \in FileType /\ 1 \in 1..MaxIds
  BY Bounds DEF FileType
<1>3. StoreInv
  BY <1>1, <1>2, Bounds, NoCmdIs DEF StoreInv, ConfigType
<1>4. FilesInv
  BY <1>1, <1>2 DEF FilesInv, Exists
<1>5. AddInv /\ RestoreInv
  BY <1>1, NoCmdIs DEF AddInv, RestoreInv
<1>6. ArchiveInv(archive) /\ ArchiveInv(restoring)
  BY <1>1, NothingIs
<1>7. BackupInv
  BY <1>1, NothingIs DEF BackupInv
<1>8. ArchiveIsComplete
  BY <1>1, NothingIs DEF ArchiveIsComplete
<1>9. QED
  BY <1>3, <1>4, <1>5, <1>6, <1>7, <1>8 DEF IInv

LEMMA NextIInv == IInv /\ [Next]_vars => IInv'
<1> SUFFICES ASSUME IInv, [Next]_vars PROVE IInv'
  OBVIOUS
<1> USE DEF IInv
<1>0. ASSUME UNCHANGED archive, revoked \subseteq revoked'
      PROVE  (ArchiveInv(archive) /\ ArchiveIsComplete)'
  BY <1>0 DEF ArchiveInv, ContentOK, ArchiveIsComplete, Ids
<1>1. ASSUME UNCHANGED restoring
      PROVE  ArchiveInv(restoring)'
  BY <1>1 DEF ArchiveInv, ContentOK
<1>2. CASE StoreNext /\ UNCHANGED <<backupVars, restoreVars>>
  <2>1. StoreNext /\ UNCHANGED <<backup, archive, restoring>>
    BY <1>2 DEF backupVars, restoreVars
  <2>2. (StoreInv /\ FilesInv /\ AddInv /\ RestoreInv)'
    BY <2>1, StoreStep
  <2>3. revoked \subseteq revoked' /\ Kept
    BY <2>1, StoreKeeps
  <2>4. BackupInv'
    BY <2>1, <2>3, BackupKept
  <2>5. QED
    BY <1>0, <1>1, <2>1, <2>2, <2>3, <2>4
<1>3. CASE BackupStep
  <2>1. /\ (BackupInv /\ ArchiveInv(archive) /\ ArchiveIsComplete)'
        /\ UNCHANGED <<config, dir, files, cmd, fresh, revoked, kills, restoring>>
    BY <1>3, BackupStepOK DEF storeVars, restoreVars
  <2>2. StoreInv' /\ FilesInv' /\ AddInv'
    BY <2>1 DEF StoreInv, FilesInv, AddInv, Exists
  <2>3. RestoreInv'
    BY <2>1 DEF RestoreInv, Unpacked
  <2>4. QED
    BY <1>1, <2>1, <2>2, <2>3
<1>4. CASE RestoreUnpack
  <2>1. /\ cmd' = [NoCmd EXCEPT !.at = "config"] /\ restoring' = archive
        /\ UNCHANGED <<config, dir, files, fresh, revoked, kills, backup, archive>>
    BY <1>4 DEF RestoreUnpack, backupVars
  <2>2. cmd' \in CmdType /\ cmd'.at = "config"
    BY <2>1, NoCmdIs DEF CmdType
  <2>3. StoreInv' /\ FilesInv'
    BY <2>1, <2>2 DEF StoreInv, FilesInv, Exists
  <2>4. AddInv' /\ RestoreInv'
    BY <2>2 DEF AddInv, RestoreInv
  <2>5. ArchiveInv(restoring)'
    BY <2>1 DEF ArchiveInv, ContentOK
  <2>6. BackupInv'
    BY <2>1, BackupKept DEF Kept, Exists
  <2>7. QED
    BY <1>0, <2>1, <2>3, <2>4, <2>5, <2>6
<1>5. CASE RestoreStep
  <2>1. (StoreInv /\ FilesInv /\ AddInv /\ RestoreInv)' /\ UNCHANGED <<archive, restoring>>
    BY <1>5, RestoreStepOK
  <2>2. BackupInv' /\ revoked' = revoked
    BY <1>5, RestoreStepBackup
  <2>3. QED
    BY <1>0, <1>1, <2>1, <2>2
<1>6. CASE OpenStore
  <2>1. /\ dir = "missing" /\ dir' \in {"rdda", "root"}
        /\ UNCHANGED <<config, files, cmd, fresh, revoked, kills, backup, archive, restoring>>
    BY <1>6 DEF OpenStore, Opened, backupVars, restoreVars
  <2>2. StoreInv' /\ FilesInv' /\ AddInv'
    BY <2>1 DEF StoreInv, FilesInv, AddInv, Exists
  <2>3. RestoreInv'
    BY <2>1 DEF RestoreInv, Unpacked
  <2>4. BackupInv'
    BY <2>1, BackupKept DEF Kept, Exists
  <2>5. QED
    BY <1>0, <1>1, <2>1, <2>2, <2>3, <2>4
<1>7. CASE UNCHANGED vars
  <2>1. UNCHANGED <<config, dir, files, cmd, fresh, revoked, kills, backup, archive, restoring>>
    BY <1>7 DEF vars, storeVars, backupVars, restoreVars
  <2>2. StoreInv' /\ FilesInv' /\ AddInv'
    BY <2>1 DEF StoreInv, FilesInv, AddInv, Exists
  <2>3. RestoreInv'
    BY <2>1 DEF RestoreInv, Unpacked
  <2>4. BackupInv'
    BY <2>1, BackupKept DEF Kept, Exists
  <2>5. QED
    BY <1>0, <1>1, <2>1, <2>2, <2>3, <2>4
<1>8. QED
  BY <1>2, <1>3, <1>4, <1>5, <1>6, <1>7 DEF Next, BackupStep

LEMMA SpecIInv == Spec => []IInv
BY InitIInv, NextIInv, PTL DEF Spec

-----------------------------------------------------------------------------
\* Every variable has its type, where there is no clients directory there is no
\* client file, and each entry of an archive is what a file held (backup/backup.go:15-54, 59-124; state/client.go:59-103).
THEOREM SpecTypeOK == Spec => []TypeOK
<1>1. IInv => TypeOK
  <2> SUFFICES ASSUME IInv PROVE TypeOK
    OBVIOUS
  <2>1. StoreTypeOK
    BY DEF IInv, StoreInv, StoreTypeOK, FileType, CmdType
  <2>2. backup.at \in {"idle", "list", "read"} /\ backup.todo \subseteq Names
    BY DEF IInv, BackupInv, BackupType
  <2>3. ASSUME NEW a, ArchiveInv(a)
        PROVE  a.config \in ConfigType /\ a.files \in [Names -> {Nothing} \cup Entries]
    <3>1. a.config \in ConfigType /\ a.files \in [Names -> ContentType]
      BY <2>3 DEF ArchiveInv, ArchiveType
    <3>2. ASSUME NEW e \in ContentType, ContentOK(e)
          PROVE  e \in {Nothing} \cup Entries
      BY <3>2, Bounds DEF ContentType, ContentOK, Entries, Empty
    <3>3. QED
      BY <2>3, <3>1, <3>2 DEF ArchiveInv
  <2>4. QED
    BY <2>1, <2>2, <2>3 DEF TypeOK, IInv, BackupInv, FilesInv
<1>2. QED
  BY SpecIInv, <1>1, PTL

\* backup/backup.go:20-34 Create: an archive that was finished holds every client
\* that could be read when it began, but for the revoked ones and those that a
\* restore removed, whatever the operator's commands and restores, killed ones
\* too, did between its reads.
THEOREM SpecArchiveIsComplete == Spec => []ArchiveIsComplete
<1>1. IInv => ArchiveIsComplete
  BY DEF IInv
<1>2. QED
  BY SpecIInv, <1>1, PTL

\* A kill is counted.
LEMMA KillsCount ==
    ASSUME StoreInv, KillCommand
    PROVE  kills' # kills
<1>1. kills \in 0..MaxKills /\ kills' = kills + 1
  BY DEF StoreInv, KillCommand
<1>2. QED
  BY <1>1, Bounds

\* backup/backup.go:118-123 and cli/restore.go:30-34: a restore that reports
\* success leaves exactly what the archive holds, handed to the service user.
THEOREM SpecCompletedRestoreIsArchive == Spec => CompletedRestoreIsArchive
<1> DEFINE Done == cmd.at = "chown config" /\ cmd'.at = "idle" /\ kills' = kills
           Result == /\ config' = [restoring.config EXCEPT !.owner = "rdda"]
                     /\ dir' = "rdda"
                     /\ files' = [n \in Names |-> IF Unpacked[n] = Absent THEN Absent
                                                  ELSE [Unpacked[n] EXCEPT !.owner = "rdda"]]
<1>1. IInv /\ [Next]_vars => [Done => Result]_vars
  <2> SUFFICES ASSUME IInv, Next, Done PROVE Result
    OBVIOUS
  <2>1. StoreInv
    BY DEF IInv
  <2>2. RestoreChownConfig
    <3>1. ~BackupStep /\ ~OpenStore
      <4>1. BackupStep \/ OpenStore => cmd' = cmd
        BY DEF BackupStep, CreateConfig, CreateReadDir, CreateAddFile, CreateDone, BackupFails,
               OpenStore, storeVars
      <4>2. QED
        BY <4>1
    <3>2. ~RestoreUnpack
      BY DEF RestoreUnpack
    <3>3. ~(RestoreConfig \/ RestoreClear \/ RestoreCleared \/ RestoreMove \/ RestoreChownClients)
      BY DEF RestoreConfig, RestoreClear, RestoreCleared, RestoreMove, RestoreChownClients
    <3>4. ~StoreNext
      <4>1. ~(\E n \in Names : AddClient(n) \/ RemoveClient(n)) /\ ~InitConfig /\ ~EditConfig
        BY DEF AddClient, RemoveClient, InitConfig, EditConfig
      <4>2. ~CommandStep
        BY DEF CommandStep, AddCreate, AddWrite, AddChown, SaveTruncate, SaveWrite
      <4>3. ~ChownTree
        BY DEF ChownTree
      <4>4. ~KillCommand
        BY <2>1, KillsCount
      <4>5. QED
        BY <4>1, <4>2, <4>3, <4>4 DEF StoreNext
    <3>5. QED
      BY <3>1, <3>2, <3>3, <3>4 DEF Next, BackupStep, RestoreStep
  <2>3. config' = Handed(config) /\ dir' = dir /\ files' = files
    BY <2>2 DEF RestoreChownConfig, Handed
  <2>4. /\ Handed(config) = Handed(restoring.config) /\ dir = "rdda"
        /\ \A n \in Names : files[n] = HandedFile(Unpacked[n])
        /\ files \in [Names -> FileType]
    BY DEF IInv, RestoreInv, StoreInv
  <2>5. files = [n \in Names |-> HandedFile(Unpacked[n])]
    BY <2>4
  <2>6. QED
    BY <2>3, <2>4, <2>5 DEF Handed, HandedFile
<1>2. QED
  BY SpecIInv, <1>1, PTL DEF Spec, CompletedRestoreIsArchive
=============================================================================
