-------------------------- MODULE ConfigSyncProofs --------------------------
(***************************************************************************)
(* Theorems about the pulls of the RU node, for every finite set of client *)
(* names, every number of pulls at once, of commands and of faults.        *)
(***************************************************************************)
EXTENDS ConfigSync, WellFoundedInduction, TLAPS

Ids == 1..MaxIds
FileType == [id : 0..MaxIds, owner : {"none", "root", "rdda"}, made : 0..MaxIds]
CmdType == [at : {"idle", "create", "write", "chown", "truncate", "save"},
            name : Names \cup {0}, id : 0..MaxIds, saving : ConfigType]
StartType == [rev : -1..MaxIds, live : SUBSET Ids, revoked : SUBSET (0..MaxIds)]
PullType == [at : {"idle", "sent", "list", "read", "ok", "refused", "installed"},
             token : 0..MaxIds, rev : 0..MaxIds, todo : SUBSET Names, clients : SUBSET Ids,
             start : StartType]
BodyType == [rev : Ids, clients : SUBSET Ids]

\* A config that somebody has written, not a truncated one.
Written(c) == c.rev \in 1..fresh /\ c.token \in 1..fresh

StoreInv ==
    /\ fresh \in 1..MaxIds /\ kills \in 0..MaxKills /\ revoked \subseteq 1..fresh
    /\ dir \in {"rdda", "root"}
    /\ config \in ConfigType /\ (ConfigWhole => Written(config))
    /\ files \in [Names -> FileType] /\ cmd \in CmdType

\* A file is empty or holds the identity it was made for, which is its own and
\* was never revoked.
FilesInv ==
    /\ \A n \in Names : Exists(n) =>
          files[n].made \in (1..fresh) \ revoked /\ files[n].id \in {Empty, files[n].made}
    /\ \A m, n \in Names :
          Exists(m) /\ Exists(n) /\ files[m].made = files[n].made => m = n

\* How far a command is.
CmdInv ==
    /\ cmd.at \in {"create", "write", "chown"} => cmd.name \in Names
    /\ cmd.at = "create" =>
          /\ ~Exists(cmd.name) /\ cmd.id \in (1..fresh) \ revoked
          /\ \A n \in Names : Exists(n) => files[n].made # cmd.id
    /\ cmd.at = "write" =>
          Exists(cmd.name) /\ files[cmd.name].made = cmd.id /\ files[cmd.name].id = Empty
    /\ cmd.at = "chown" => Exists(cmd.name)
    /\ cmd.at \in {"truncate", "save"} => Written(cmd.saving) /\ config.rev <= cmd.saving.rev

\* No config older than r is there, or will be.
Since(r) ==
    /\ r <= fresh
    /\ ConfigWhole => r <= config.rev
    /\ cmd.at \in {"truncate", "save"} => r <= cmd.saving.rev

\* What a request has met so far is no older than its start.
FreshInv(p) ==
    /\ pull[p].start.revoked \subseteq revoked
    /\ Since(pull[p].start.rev)
    /\ pull[p].clients \cap pull[p].start.revoked = {}
    /\ pull[p].at \in {"list", "read", "ok", "installed"} =>
          pull[p].rev \in Ids /\ pull[p].rev >= pull[p].start.rev

\* A client that was there at its start and is not revoked has its file still,
\* and the request has read that or is going to.
CompleteInv(p) ==
    \A id \in pull[p].start.live \ revoked :
        \E n \in Names :
            /\ Exists(n) /\ files[n].id = id
            /\ pull[p].at = "read" => n \in pull[p].todo \/ id \in pull[p].clients
            /\ Answered(p) => id \in pull[p].clients

RuInv ==
    /\ pull \in [Pulls -> PullType]
    /\ dest \in BodyType /\ running \in BodyType \cup {Down}
    /\ ruToken \in Ids /\ faults \in 0..MaxFaults
    /\ expelled \subseteq revoked

IInv ==
    /\ StoreInv /\ FilesInv /\ CmdInv /\ RuInv
    /\ \A p \in Pulls : FreshInv(p) /\ CompleteInv(p)

\* What holds besides when the timer is the only one to pull: a request that is
\* under way began after everyone who is known to be out was revoked.
TimerInv ==
    /\ \A p \in Pulls : pull[p].at # "idle" => expelled \subseteq pull[p].start.revoked
    /\ RevokedStaysOut

-----------------------------------------------------------------------------
LEMMA Bounds ==
    /\ Names \subseteq Nat /\ MaxIds \in Nat \ {0} /\ MaxKills \in Nat /\ MaxFaults \in Nat
BY NamesAssumption, MaxIdsAssumption, MaxFaultsAssumption

\* The first of some directory entries is one of them.
LEMMA MinIsIn ==
    ASSUME NEW S, S \subseteq Nat, S # {}
    PROVE  Min(S) \in S
<1>1. PICK x \in S : \A y \in S : <<y, x>> \notin OpToRel(<, Nat)
  BY NatLessThanWellFounded, WFMin
<1>2. \A y \in S : ~(y < x)
  <2> TAKE y \in S
  <2>1. y < x => <<y, x>> \in {ss \in Nat \X Nat : ss[1] < ss[2]}
    OBVIOUS
  <2>2. OpToRel(<, Nat) = {ss \in Nat \X Nat : ss[1] < ss[2]}
    BY Zenon DEF OpToRel
  <2>3. QED
    BY Zenon, <2>1, <2>2, <1>1
<1>3. \A y \in S : x <= y
  BY <1>2
<1>4. QED
  BY <1>3 DEF Min

\* The actions of the store, as they leave its files and its command.
LEMMA NoCmdIs ==
    /\ NoCmd \in CmdType /\ NoCmd.at = "idle"
    /\ Truncated("root") \in ConfigType
BY Bounds DEF NoCmd, CmdType, Truncated, ConfigType

LEMMA ExistingHasMade ==
    ASSUME StoreInv, FilesInv, NEW n \in Names
    PROVE  Exists(n) <=> files[n].made # 0
BY DEF StoreInv, FilesInv, Exists, Absent, FileType

LEMMA StoreStep ==
    StoreInv /\ FilesInv /\ CmdInv /\ StoreNext => (StoreInv /\ FilesInv /\ CmdInv)'
<1> SUFFICES ASSUME StoreInv, FilesInv, CmdInv, StoreNext
             PROVE  (StoreInv /\ FilesInv /\ CmdInv)'
  OBVIOUS
<1>0. fresh \in 1..MaxIds /\ (fresh < MaxIds => fresh + 1 \in 1..MaxIds)
  BY Bounds DEF StoreInv
<1>1. ASSUME NEW n \in Names, AddClient(n)
      PROVE  (StoreInv /\ FilesInv /\ CmdInv)'
  <2>1. /\ cmd'.at = "create" /\ cmd'.name = n /\ cmd'.id = fresh + 1 /\ cmd' \in CmdType
        /\ fresh' = fresh + 1 /\ fresh' \in 1..MaxIds
        /\ dir' = dir /\ UNCHANGED <<config, files, revoked, kills>>
        /\ ~Exists(n) /\ ConfigWhole
    <3>1. cmd' = [NoCmd EXCEPT !.at = "create", !.name = n, !.id = fresh + 1]
      BY <1>1 DEF AddClient
    <3>2. cmd'.at = "create" /\ cmd'.name = n /\ cmd'.id = fresh + 1
      BY <3>1 DEF NoCmd
    <3>3. fresh' = fresh + 1 /\ fresh' \in 1..MaxIds
      BY <1>0, <1>1 DEF AddClient
    <3>4. fresh + 1 \in 0..MaxIds
      BY <1>0, <3>3
    <3>5. cmd' \in CmdType
      BY <3>1, <3>4, NoCmdIs DEF CmdType
    <3>6. dir' = dir
      BY <1>1 DEF AddClient, Opened, StoreInv
    <3>7. QED
      BY <1>1, <3>2, <3>3, <3>5, <3>6 DEF AddClient
  <2>2. StoreInv'
    BY <1>0, <2>1 DEF StoreInv, ConfigWhole, Written
  <2>3. FilesInv'
    BY <1>0, <2>1 DEF FilesInv, Exists
  <2>4. CmdInv'
    BY <1>0, <2>1 DEF CmdInv, StoreInv, FilesInv, Exists
  <2>5. QED
    BY <2>2, <2>3, <2>4
<1>2. CASE AddCreate
  <2> DEFINE n == cmd.name
             f == [id |-> Empty, owner |-> "root", made |-> cmd.id]
  <2>1. /\ n \in Names /\ ~Exists(n) /\ cmd.id \in (1..fresh) \ revoked
        /\ \A m \in Names : Exists(m) => files[m].made # cmd.id
    BY <1>2 DEF AddCreate, CmdInv
  <2>2. /\ cmd'.at = "write" /\ cmd'.name = n /\ cmd'.id = cmd.id /\ cmd' \in CmdType
        /\ files' = [files EXCEPT ![n] = f]
        /\ UNCHANGED <<config, dir, fresh, revoked, kills>>
    BY <1>2 DEF AddCreate, StoreInv, CmdType
  <2>3. f \in FileType /\ f.id = Empty /\ f.made = cmd.id /\ f # Absent
    <3>1. cmd.id \in 0..MaxIds /\ 0 \in 0..MaxIds /\ cmd.id # 0
      BY <1>0, <2>1, Bounds
    <3>2. f \in FileType
      BY <3>1 DEF FileType, Empty
    <3>3. f.made = cmd.id /\ f.id = Empty
      OBVIOUS
    <3>4. Absent.made = 0
      BY DEF Absent
    <3>5. QED
      BY <3>1, <3>2, <3>3, <3>4
  <2> HIDE DEF f
  <2>4. /\ files' \in [Names -> FileType] /\ files'[n] = f
        /\ \A m \in Names \ {n} : files'[m] = files[m]
    BY <2>1, <2>2, <2>3 DEF StoreInv
  <2>5. StoreInv'
    BY <2>2, <2>4 DEF StoreInv, ConfigWhole, Written
  <2>6. FilesInv'
    BY <2>1, <2>2, <2>3, <2>4 DEF FilesInv, Exists
  <2>7. CmdInv'
    BY <2>1, <2>2, <2>3, <2>4 DEF CmdInv, Exists
  <2>8. QED
    BY <2>5, <2>6, <2>7
<1>3. CASE AddWrite
  <2> DEFINE n == cmd.name
  <2>1. n \in Names /\ Exists(n) /\ files[n].made = cmd.id /\ files[n].id = Empty /\ cmd.id \in 1..fresh
    BY <1>3 DEF AddWrite, CmdInv, FilesInv
  <2>2. /\ cmd'.at = "chown" /\ cmd'.name = n /\ cmd' \in CmdType
        /\ files' = [files EXCEPT ![n].id = cmd.id]
        /\ UNCHANGED <<config, dir, fresh, revoked, kills>>
    BY <1>3 DEF AddWrite, StoreInv, CmdType
  <2>3. /\ files' \in [Names -> FileType]
        /\ files'[n].id = cmd.id /\ files'[n].made = cmd.id
        /\ \A m \in Names \ {n} : files'[m] = files[m]
    BY <1>0, <2>1, <2>2 DEF StoreInv, FileType
  <2>4. files'[n] # Absent
    BY <2>1, <2>3 DEF Absent
  <2>5. StoreInv'
    BY <2>2, <2>3 DEF StoreInv, ConfigWhole, Written
  <2>6. FilesInv'
    BY <2>1, <2>2, <2>3 DEF FilesInv, Exists
  <2>7. CmdInv'
    BY <2>1, <2>2, <2>4 DEF CmdInv, Exists
  <2>8. QED
    BY <2>5, <2>6, <2>7
<1>4. CASE AddChown
  <2> DEFINE n == cmd.name
  <2>1. n \in Names /\ Exists(n)
    BY <1>4 DEF AddChown, CmdInv
  <2>2. /\ cmd' = NoCmd /\ files' = [files EXCEPT ![n].owner = "rdda"]
        /\ UNCHANGED <<config, dir, fresh, revoked, kills>>
    BY <1>4 DEF AddChown
  <2>3. /\ files' \in [Names -> FileType]
        /\ files'[n].id = files[n].id /\ files'[n].made = files[n].made
        /\ \A m \in Names \ {n} : files'[m] = files[m]
    BY <2>1, <2>2 DEF StoreInv, FileType
  <2>4. StoreInv'
    BY <2>2, <2>3, NoCmdIs DEF StoreInv, ConfigWhole, Written
  <2>5. FilesInv'
    BY <2>1, <2>2, <2>3 DEF FilesInv, Exists
  <2>6. CmdInv'
    BY <2>2, NoCmdIs DEF CmdInv
  <2>7. QED
    BY <2>4, <2>5, <2>6
<1>5. ASSUME NEW n \in Names, RemoveClient(n)
      PROVE  (StoreInv /\ FilesInv /\ CmdInv)'
  <2>1. /\ Exists(n) /\ cmd.at = "idle" /\ files' = [files EXCEPT ![n] = Absent]
        /\ revoked' = revoked \cup {files[n].made}
        /\ UNCHANGED <<config, dir, cmd, fresh, kills>>
    BY <1>5 DEF RemoveClient
  <2>2. /\ files' \in [Names -> FileType] /\ files'[n] = Absent
        /\ \A m \in Names \ {n} : files'[m] = files[m]
    BY <2>1, Bounds DEF StoreInv, FileType, Absent
  <2>3. files[n].made \in 1..fresh
    BY <2>1 DEF FilesInv
  <2>4. StoreInv'
    BY <2>1, <2>2, <2>3 DEF StoreInv, ConfigWhole, Written
  <2>5. FilesInv'
    BY <2>1, <2>2 DEF FilesInv, Exists
  <2>6. CmdInv'
    BY <2>1 DEF CmdInv
  <2>7. QED
    BY <2>4, <2>5, <2>6
<1>6. CASE InitConfig \/ EditConfig
  <2>1. /\ fresh' = fresh + 1 /\ fresh' \in 1..MaxIds
        /\ UNCHANGED <<config, files, revoked, kills>>
    BY <1>0, <1>6 DEF InitConfig, EditConfig
  <2>2. dir' = dir
    BY <1>6 DEF InitConfig, EditConfig, Opened, StoreInv
  <2> DEFINE new == IF InitConfig THEN [config EXCEPT !.rev = fresh + 1, !.token = fresh + 1]
                    ELSE [config EXCEPT !.rev = fresh + 1]
  <2>3. cmd' = [NoCmd EXCEPT !.at = "truncate", !.saving = new]
    BY <1>6 DEF InitConfig, EditConfig
  <2>4. new \in ConfigType /\ new.rev = fresh + 1 /\ new.token \in 1..(fresh + 1)
    <3>1. new.rev = fresh + 1 /\ new.rev \in -1..MaxIds
      BY <1>0, <2>1 DEF StoreInv, ConfigType
    <3>2. new.token \in 1..(fresh + 1)
      <4>1. CASE InitConfig
        BY <1>0, <4>1 DEF StoreInv, ConfigType
      <4>2. CASE ~InitConfig
        <5>1. config.token \in 1..fresh
          BY <1>6, <4>2 DEF EditConfig, StoreInv, Written
        <5>2. QED
          BY <1>0, <4>2, <5>1 DEF StoreInv, ConfigType
      <4>3. QED
        BY <4>1, <4>2
    <3>3. new \in ConfigType
      <4>1. fresh + 1 \in -1..MaxIds
        BY <1>0, <2>1
      <4>2. QED
        BY <4>1 DEF StoreInv, ConfigType
    <3>4. QED
      BY <3>1, <3>2, <3>3
  <2> HIDE DEF new
  <2>5. cmd' \in CmdType /\ cmd'.at = "truncate" /\ cmd'.saving = new
    BY <2>3, <2>4, NoCmdIs DEF CmdType
  <2>6. config.rev <= fresh + 1
    BY <1>0 DEF StoreInv, ConfigWhole, Written
  <2>7. StoreInv'
    BY <1>0, <2>1, <2>2, <2>5 DEF StoreInv, ConfigWhole, Written
  <2>8. FilesInv'
    BY <1>0, <2>1 DEF FilesInv, Exists
  <2>9. CmdInv'
    BY <1>0, <2>1, <2>4, <2>5, <2>6 DEF CmdInv, Written
  <2>10. QED
    BY <2>7, <2>8, <2>9
<1>7. CASE SaveTruncate
  <2>1. /\ cmd.at = "truncate" /\ cmd'.at = "save" /\ cmd'.saving = cmd.saving /\ cmd' \in CmdType
        /\ config' = Truncated(config.owner)
        /\ UNCHANGED <<dir, files, fresh, revoked, kills>>
    BY <1>7 DEF SaveTruncate, StoreInv, CmdType
  <2>2. config' \in ConfigType /\ config'.rev = -1
    BY <2>1, Bounds DEF StoreInv, ConfigType, Truncated
  <2>3. StoreInv'
    BY <2>1, <2>2 DEF StoreInv, ConfigWhole, Written
  <2>4. FilesInv'
    BY <2>1 DEF FilesInv, Exists
  <2>5. CmdInv'
    BY <1>0, <2>1, <2>2 DEF CmdInv, Written
  <2>6. QED
    BY <2>3, <2>4, <2>5
<1>8. CASE SaveWrite
  <2>1. /\ cmd.at = "save" /\ cmd' = NoCmd
        /\ config' = [cmd.saving EXCEPT !.owner = config.owner]
        /\ UNCHANGED <<dir, files, fresh, revoked, kills>>
    BY <1>8 DEF SaveWrite
  <2>2. /\ config' \in ConfigType
        /\ config'.rev = cmd.saving.rev /\ config'.token = cmd.saving.token
    BY <2>1 DEF StoreInv, CmdType, ConfigType
  <2>3. StoreInv'
    BY <2>1, <2>2, NoCmdIs DEF StoreInv, CmdInv, ConfigWhole, Written
  <2>4. FilesInv'
    BY <2>1 DEF FilesInv, Exists
  <2>5. CmdInv'
    BY <2>1, NoCmdIs DEF CmdInv
  <2>6. QED
    BY <2>3, <2>4, <2>5
<1>9. CASE ChownTree
  <2>1. /\ config' = [config EXCEPT !.owner = "rdda"]
        /\ files' = [n \in Names |-> IF Exists(n) THEN [files[n] EXCEPT !.owner = "rdda"] ELSE Absent]
        /\ dir' \in {"rdda", "root"}
        /\ UNCHANGED <<cmd, fresh, revoked, kills>>
    BY <1>9 DEF ChownTree, StoreInv
  <2>2. /\ config' \in ConfigType /\ config'.rev = config.rev /\ config'.token = config.token
    BY <2>1 DEF StoreInv, ConfigType
  <2>3. \A n \in Names : /\ files'[n] \in FileType
                         /\ Exists(n) => files'[n].id = files[n].id /\ files'[n].made = files[n].made
                         /\ ~Exists(n) => files'[n] = Absent
    BY <2>1, Bounds DEF StoreInv, FileType, Absent
  <2>4. files' \in [Names -> FileType]
    BY <2>1, <2>3
  <2>5. \A n \in Names : Exists(n)' <=> Exists(n)
    <3>1. \A n \in Names : Exists(n) => files'[n].made # 0
      BY <2>3 DEF FilesInv
    <3>2. \A n \in Names : Exists(n) => files'[n] # Absent
      BY <3>1 DEF Absent
    <3>3. QED
      BY <2>3, <3>2 DEF Exists
  <2>6. StoreInv'
    BY <2>1, <2>2, <2>4 DEF StoreInv, ConfigWhole, Written
  <2>7. FilesInv'
    BY <2>1, <2>3, <2>5 DEF FilesInv
  <2>8. CmdInv'
    BY <2>1, <2>2, <2>3, <2>5 DEF CmdInv, Written
  <2>9. QED
    BY <2>6, <2>7, <2>8
<1>10. CASE KillCommand
  <2>1. cmd' = NoCmd /\ kills' \in 0..MaxKills /\ UNCHANGED <<config, dir, files, fresh, revoked>>
    BY <1>10, Bounds DEF KillCommand, StoreInv
  <2>2. StoreInv'
    BY <2>1, NoCmdIs DEF StoreInv, ConfigWhole, Written
  <2>3. FilesInv'
    BY <2>1 DEF FilesInv, Exists
  <2>4. CmdInv'
    BY <2>1, NoCmdIs DEF CmdInv
  <2>5. QED
    BY <2>2, <2>3, <2>4
<1>11. QED
  BY <1>1, <1>2, <1>3, <1>4, <1>5, <1>6, <1>7, <1>8, <1>9, <1>10 DEF StoreNext, CommandStep

\* What no command of the operator's does: take back a revocation, touch the
\* identity of a client that is not revoked, or put back an older config.
LEMMA StoreKeeps ==
    ASSUME StoreInv, FilesInv, CmdInv, StoreNext
    PROVE  /\ revoked \subseteq revoked'
           /\ \A n \in Names : Exists(n) /\ files[n].id # Empty =>
                 (Exists(n)' /\ files'[n].id = files[n].id) \/ files[n].id \in revoked'
           /\ \A r \in -1..MaxIds : Since(r) => Since(r)'
<1> DEFINE Kept == \A n \in Names : Exists(n) /\ files[n].id # Empty =>
                      (Exists(n)' /\ files'[n].id = files[n].id) \/ files[n].id \in revoked'
           Newer == \A r \in -1..MaxIds : Since(r) => Since(r)'
<1>0. fresh \in 1..MaxIds /\ MaxIds \in Nat /\ config.rev \in -1..MaxIds
  BY Bounds DEF StoreInv, ConfigType
<1>1. ASSUME NEW n \in Names, AddClient(n)
      PROVE  revoked \subseteq revoked' /\ Kept /\ Newer
  <2>1. /\ cmd' = [NoCmd EXCEPT !.at = "create", !.name = n, !.id = fresh + 1]
        /\ fresh' = fresh + 1 /\ UNCHANGED <<config, files, revoked>>
    BY <1>1 DEF AddClient
  <2>2. cmd'.at = "create"
    BY <2>1 DEF NoCmd
  <2>3. QED
    BY <1>0, <2>1, <2>2 DEF Exists, Since, ConfigWhole
<1>2. CASE AddCreate
  <2>1. /\ ~Exists(cmd.name) /\ cmd'.at = "write"
        /\ \A m \in Names \ {cmd.name} : files'[m] = files[m]
        /\ UNCHANGED <<config, fresh, revoked>>
    BY <1>2 DEF AddCreate, CmdInv, StoreInv, CmdType
  <2>2. QED
    BY <2>1 DEF Exists, Since, ConfigWhole
<1>3. CASE AddWrite
  <2>1. /\ files[cmd.name].id = Empty /\ cmd'.at = "chown"
        /\ \A m \in Names \ {cmd.name} : files'[m] = files[m]
        /\ UNCHANGED <<config, fresh, revoked>>
    BY <1>3 DEF AddWrite, CmdInv, StoreInv, CmdType
  <2>2. QED
    BY <2>1 DEF Exists, Since, ConfigWhole
<1>4. CASE AddChown
  <2>1. /\ cmd' = NoCmd /\ cmd.name \in Names /\ files' = [files EXCEPT ![cmd.name].owner = "rdda"]
        /\ UNCHANGED <<config, fresh, revoked>>
    BY <1>4 DEF AddChown, CmdInv
  <2>2. \A n \in Names : files'[n].id = files[n].id /\ files'[n].made = files[n].made
    BY <2>1 DEF StoreInv, FileType
  <2>3. \A n \in Names : Exists(n) => Exists(n)'
    <3>1. \A n \in Names : Exists(n) => files'[n].made # 0
      BY <2>2 DEF FilesInv
    <3>2. QED
      BY <3>1 DEF Exists, Absent
  <2>4. QED
    BY <2>1, <2>2, <2>3, NoCmdIs DEF Since, ConfigWhole
<1>5. ASSUME NEW n \in Names, RemoveClient(n)
      PROVE  revoked \subseteq revoked' /\ Kept /\ Newer
  <2>1. /\ Exists(n) /\ revoked' = revoked \cup {files[n].made}
        /\ \A m \in Names \ {n} : files'[m] = files[m]
        /\ UNCHANGED <<config, fresh, cmd>>
    BY <1>5 DEF RemoveClient, StoreInv
  <2>2. files[n].id # Empty => files[n].id = files[n].made
    BY <2>1 DEF FilesInv
  <2>3. QED
    BY <2>1, <2>2 DEF Exists, Since, ConfigWhole
<1>6. CASE InitConfig \/ EditConfig
  <2>1. /\ fresh' = fresh + 1 /\ UNCHANGED <<config, files, revoked>>
        /\ cmd'.at = "truncate" /\ cmd'.saving.rev = fresh + 1
    BY <1>6 DEF InitConfig, EditConfig, NoCmd, StoreInv, ConfigType
  <2>2. QED
    BY <1>0, <2>1 DEF Exists, Since, ConfigWhole
<1>7. CASE SaveTruncate
  <2>1. /\ cmd.at = "truncate" /\ cmd'.at = "save" /\ cmd'.saving = cmd.saving
        /\ config'.rev = -1 /\ UNCHANGED <<files, fresh, revoked>>
    BY <1>7 DEF SaveTruncate, StoreInv, CmdType, Truncated
  <2>2. QED
    BY <2>1 DEF Exists, Since, ConfigWhole
<1>8. CASE SaveWrite
  <2>1. /\ cmd.at = "save" /\ cmd' = NoCmd
        /\ config'.rev = cmd.saving.rev /\ UNCHANGED <<files, fresh, revoked>>
    BY <1>8 DEF SaveWrite, StoreInv, CmdType, ConfigType
  <2>2. QED
    BY <2>1, NoCmdIs DEF Exists, Since, ConfigWhole
<1>9. CASE ChownTree
  <2>1. /\ config'.rev = config.rev /\ UNCHANGED <<cmd, fresh, revoked>>
        /\ \A n \in Names : Exists(n) => files'[n] = [files[n] EXCEPT !.owner = "rdda"]
    BY <1>9 DEF ChownTree, StoreInv, ConfigType
  <2>2. \A n \in Names : Exists(n) => files'[n].id = files[n].id /\ files'[n].made = files[n].made
    BY <2>1 DEF StoreInv, FileType
  <2>3. \A n \in Names : Exists(n) => Exists(n)'
    <3>1. \A n \in Names : Exists(n) => files'[n].made # 0
      BY <2>2 DEF FilesInv
    <3>2. QED
      BY <3>1 DEF Exists, Absent
  <2>4. QED
    BY <2>1, <2>2, <2>3 DEF Since, ConfigWhole
<1>10. CASE KillCommand
  <2>1. cmd' = NoCmd /\ UNCHANGED <<config, files, fresh, revoked>>
    BY <1>10 DEF KillCommand
  <2>2. QED
    BY <2>1, NoCmdIs DEF Exists, Since, ConfigWhole
<1>11. QED
  BY <1>1, <1>2, <1>3, <1>4, <1>5, <1>6, <1>7, <1>8, <1>9, <1>10 DEF StoreNext, CommandStep

-----------------------------------------------------------------------------
\* What a request starts from, and what its handler reads.
LEMMA LiveIs ==
    ASSUME StoreInv, FilesInv
    PROVE  /\ Live \subseteq Ids
           /\ \A n \in Names : Usable(n) => files[n].id \in Ids \ revoked
           /\ \A id \in Live : \E n \in Names : Exists(n) /\ files[n].id = id
<1>1. \A n \in Names : Usable(n) => files[n].id \in Ids \ revoked
  <2>1. \A n \in Names : Usable(n) => files[n].id \in (1..fresh) \ revoked
    BY DEF Usable, FilesInv
  <2>2. 1..fresh \subseteq Ids
    BY Bounds DEF StoreInv, Ids
  <2>3. QED
    BY <2>1, <2>2
<1>2. QED
  BY <1>1 DEF Live, Usable

LEMMA NoPullIs == NoPull \in PullType /\ NoPull.at = "idle"
BY Bounds DEF NoPull, NoStart, PullType, StartType

\* A step of one pull: the others, and the store, stay as they are.
LEMMA OthersStay ==
    ASSUME StoreInv, RuInv, UNCHANGED storeVars, NEW p \in Pulls, NEW new \in PullType,
           pull' = [pull EXCEPT ![p] = new]
    PROVE  /\ pull' \in [Pulls -> PullType] /\ pull'[p] = new
           /\ \A q \in Pulls \ {p} :
                 /\ pull'[q] = pull[q]
                 /\ FreshInv(q) => FreshInv(q)'
                 /\ CompleteInv(q) => CompleteInv(q)'
<1>1. /\ pull' \in [Pulls -> PullType] /\ pull'[p] = new
      /\ \A q \in Pulls \ {p} : pull'[q] = pull[q]
  BY DEF RuInv
<1>2. QED
  BY <1>1 DEF storeVars, FreshInv, CompleteInv, Since, ConfigWhole, Exists, Answered

\* A pull that has ended owes nothing.
LEMMA IdleOwesNothing ==
    ASSUME StoreInv, CmdInv, UNCHANGED storeVars, NEW p \in Pulls, pull'[p] = NoPull
    PROVE  FreshInv(p)' /\ CompleteInv(p)'
<1>1. /\ pull'[p].start = NoStart /\ pull'[p].at = "idle" /\ pull'[p].clients = {}
      /\ NoStart.rev = 0 /\ NoStart.live = {} /\ NoStart.revoked = {}
  BY DEF NoPull, NoStart
<1>2. Since(0)
  BY Bounds DEF StoreInv, CmdInv, Written, Since
<1>3. Since(0)'
  BY <1>2 DEF storeVars, Since, ConfigWhole
<1>4. QED
  BY <1>1, <1>3 DEF FreshInv, CompleteInv

\* A step that changes only how far the pull is, out of the ones that answer.
LEMMA SendKeeps ==
    ASSUME IInv, NEW p \in Pulls, Send(p)
    PROVE  RuInv' /\ \A q \in Pulls : FreshInv(q)' /\ CompleteInv(q)'
<1> DEFINE start == [rev |-> config.rev, live |-> Live, revoked |-> revoked]
           new == [NoPull EXCEPT !.at = "sent", !.token = ruToken, !.start = start]
<1>1. start \in StartType
  <2>1. revoked \in SUBSET (0..MaxIds)
    BY Bounds DEF IInv, StoreInv
  <2>2. config.rev \in -1..MaxIds
    BY DEF IInv, StoreInv, ConfigType
  <2>3. QED
    BY <2>1, <2>2, LiveIs DEF StartType, IInv
<1>2. start.rev = config.rev /\ start.live = Live /\ start.revoked = revoked
  OBVIOUS
<1> HIDE DEF start
<1>3. new \in PullType /\ new.at = "sent" /\ new.clients = {} /\ new.start = start
  <2>1. ruToken \in 0..MaxIds
    BY DEF IInv, RuInv, Ids
  <2>2. QED
    BY <1>1, <2>1, NoPullIs DEF PullType, NoPull
<1>4. pull' = [pull EXCEPT ![p] = new] /\ UNCHANGED <<storeVars, dest, running, ruToken, faults, expelled>>
  BY <1>2 DEF Send, start
<1> HIDE DEF new
<1>5. /\ pull' \in [Pulls -> PullType] /\ pull'[p] = new
      /\ \A q \in Pulls \ {p} : FreshInv(q)' /\ CompleteInv(q)'
  BY <1>3, <1>4, OthersStay DEF IInv
<1>6. Since(config.rev)
  BY Bounds DEF IInv, StoreInv, CmdInv, ConfigType, Written, Since, ConfigWhole
<1>7. FreshInv(p)'
  BY <1>2, <1>3, <1>4, <1>5, <1>6 DEF FreshInv, storeVars, Since, ConfigWhole
<1>8. CompleteInv(p)'
  <2>1. \A id \in Live : \E n \in Names : Exists(n) /\ files[n].id = id
    BY LiveIs DEF IInv
  <2>2. QED
    BY <1>2, <1>3, <1>4, <1>5, <2>1 DEF CompleteInv, storeVars, Exists, Answered
<1>9. RuInv'
  BY <1>4, <1>5 DEF IInv, RuInv, storeVars
<1>10. QED
  BY <1>5, <1>7, <1>8, <1>9

\* The config is one that was current since the request began.
LEMMA ServeConfigKeeps ==
    ASSUME IInv, NEW p \in Pulls, ServeConfig(p)
    PROVE  RuInv' /\ \A q \in Pulls : FreshInv(q)' /\ CompleteInv(q)'
<1> DEFINE r == pull[p]
           new == IF ConfigUsable /\ r.token = config.token
                  THEN [r EXCEPT !.at = "list", !.rev = config.rev]
                  ELSE [r EXCEPT !.at = "refused"]
<1>1. r \in PullType /\ r.at = "sent"
  BY DEF IInv, RuInv, ServeConfig
<1>2. pull' = [pull EXCEPT ![p] = new] /\ UNCHANGED <<storeVars, dest, running, ruToken, faults, expelled>>
  BY DEF ServeConfig
<1>3. ConfigUsable => config.rev \in Ids /\ config.rev \in 0..MaxIds /\ config.rev >= r.start.rev
  <2>1. ConfigUsable => config.rev \in Ids /\ config.rev \in 0..MaxIds
    BY Bounds DEF IInv, StoreInv, Written, ConfigUsable, Ids
  <2>2. ConfigUsable => r.start.rev <= config.rev
    BY DEF IInv, FreshInv, Since, ConfigUsable
  <2>3. r.start.rev \in -1..MaxIds
    BY <1>1 DEF PullType, StartType
  <2>4. QED
    BY <2>1, <2>2, <2>3, Bounds DEF Ids
<1>4. /\ new \in PullType /\ new.start = r.start /\ new.clients = r.clients
      /\ new.at \in {"list", "refused"}
      /\ new.at = "list" => new.rev \in Ids /\ new.rev >= r.start.rev
  <2>1. CASE ConfigUsable /\ r.token = config.token
    BY <1>1, <1>3, <2>1 DEF PullType
  <2>2. CASE ~(ConfigUsable /\ r.token = config.token)
    BY <1>1, <2>2 DEF PullType
  <2>3. QED
    BY <2>1, <2>2
<1> HIDE DEF new
<1>5. /\ pull' \in [Pulls -> PullType] /\ pull'[p] = new
      /\ \A q \in Pulls \ {p} : FreshInv(q)' /\ CompleteInv(q)'
  BY <1>2, <1>4, OthersStay DEF IInv
<1>6. FreshInv(p)'
  BY <1>2, <1>4, <1>5 DEF IInv, FreshInv, storeVars, Since, ConfigWhole
<1>7. CompleteInv(p)'
  BY <1>1, <1>2, <1>4, <1>5 DEF IInv, CompleteInv, storeVars, Exists, Answered
<1>8. RuInv'
  BY <1>2, <1>5 DEF IInv, RuInv, storeVars
<1>9. QED
  BY <1>5, <1>6, <1>7, <1>8

\* Every client that is to be listed has its entry in the directory.
LEMMA ServeReadDirKeeps ==
    ASSUME IInv, NEW p \in Pulls, ServeReadDir(p)
    PROVE  RuInv' /\ \A q \in Pulls : FreshInv(q)' /\ CompleteInv(q)'
<1> DEFINE r == pull[p]
           entries == {n \in Names : Exists(n)}
           new == IF dir = "rdda" THEN [r EXCEPT !.at = "read", !.todo = entries]
                                  ELSE [r EXCEPT !.at = "refused"]
<1>1. r \in PullType /\ r.at = "list"
  BY DEF IInv, RuInv, ServeReadDir
<1>2. pull' = [pull EXCEPT ![p] = new] /\ UNCHANGED <<storeVars, dest, running, ruToken, faults, expelled>>
  BY DEF ServeReadDir
<1>3. /\ new \in PullType /\ new.start = r.start /\ new.clients = r.clients /\ new.rev = r.rev
      /\ new.at \in {"read", "refused"}
      /\ new.at = "read" => new.todo = entries
  BY <1>1 DEF PullType
<1> HIDE DEF new
<1>4. /\ pull' \in [Pulls -> PullType] /\ pull'[p] = new
      /\ \A q \in Pulls \ {p} : FreshInv(q)' /\ CompleteInv(q)'
  BY <1>2, <1>3, OthersStay DEF IInv
<1>5. FreshInv(p)'
  BY <1>1, <1>2, <1>3, <1>4 DEF IInv, FreshInv, storeVars, Since, ConfigWhole
<1>6. CompleteInv(p)'
  BY <1>1, <1>2, <1>3, <1>4 DEF IInv, CompleteInv, storeVars, Exists, Answered
<1>7. RuInv'
  BY <1>2, <1>4 DEF IInv, RuInv, storeVars
<1>8. QED
  BY <1>4, <1>5, <1>6, <1>7

\* An entry that is done with is listed, or the whole list fails.
LEMMA ServeReadFileKeeps ==
    ASSUME IInv, NEW p \in Pulls, ServeReadFile(p)
    PROVE  RuInv' /\ \A q \in Pulls : FreshInv(q)' /\ CompleteInv(q)'
<1> DEFINE r == pull[p]
           n == Min(r.todo)
           new == ReadFile(p)
<1>1. r \in PullType /\ r.at = "read" /\ r.todo # {}
  BY DEF IInv, RuInv, ServeReadFile
<1>2. pull' = [pull EXCEPT ![p] = new] /\ UNCHANGED <<storeVars, dest, running, ruToken, faults, expelled>>
  BY DEF ServeReadFile
<1>3. n \in Names
  BY <1>1, MinIsIn, Bounds DEF PullType
<1>4. Usable(n) => files[n].id \in Ids \ revoked
  BY <1>3, LiveIs DEF IInv
<1>5. CASE Usable(n)
  <2> DEFINE todo == r.todo \ {n}
             clients == r.clients \cup {files[n].id}
  <2>1. new = [r EXCEPT !.todo = todo, !.clients = clients]
    BY <1>5 DEF ReadFile
  <2>2. /\ new \in PullType /\ new.start = r.start /\ new.rev = r.rev /\ new.at = "read"
        /\ new.todo = r.todo \ {n} /\ new.clients = r.clients \cup {files[n].id}
    <3>1. todo \in SUBSET Names /\ clients \in SUBSET Ids
      BY <1>1, <1>4, <1>5 DEF PullType
    <3> HIDE DEF todo, clients, new
    <3>2. new \in PullType /\ new.todo = todo /\ new.clients = clients
          /\ new.start = r.start /\ new.rev = r.rev /\ new.at = "read"
      BY <1>1, <2>1, <3>1 DEF PullType
    <3>3. QED
      BY <3>2 DEF todo, clients
  <2> HIDE DEF new, n
  <2>3. /\ pull' \in [Pulls -> PullType] /\ pull'[p] = new
        /\ \A q \in Pulls \ {p} : FreshInv(q)' /\ CompleteInv(q)'
    BY <1>2, <2>2, OthersStay DEF IInv
  <2>4. FreshInv(p)'
    BY <1>1, <1>2, <1>4, <1>5, <2>2, <2>3 DEF IInv, FreshInv, storeVars, Since, ConfigWhole
  <2>5. CompleteInv(p)'
    BY <1>1, <1>2, <2>2, <2>3 DEF IInv, CompleteInv, storeVars, Exists, Answered
  <2>6. RuInv'
    BY <1>2, <2>3 DEF IInv, RuInv, storeVars
  <2>7. QED
    BY <2>3, <2>4, <2>5, <2>6
<1>6. CASE ~Usable(n)
  <2>1. new = [r EXCEPT !.at = "refused"]
    BY <1>6 DEF ReadFile, Answer
  <2>2. new \in PullType /\ new.start = r.start /\ new.clients = r.clients /\ new.at = "refused"
    BY <1>1, <2>1 DEF PullType
  <2> HIDE DEF new, n
  <2>3. /\ pull' \in [Pulls -> PullType] /\ pull'[p] = new
        /\ \A q \in Pulls \ {p} : FreshInv(q)' /\ CompleteInv(q)'
    BY <1>2, <2>2, OthersStay DEF IInv
  <2>4. FreshInv(p)'
    BY <1>2, <2>2, <2>3 DEF IInv, FreshInv, storeVars, Since, ConfigWhole
  <2>5. CompleteInv(p)'
    BY <1>2, <2>2, <2>3 DEF IInv, CompleteInv, storeVars, Exists, Answered
  <2>6. RuInv'
    BY <1>2, <2>3 DEF IInv, RuInv, storeVars
  <2>7. QED
    BY <2>3, <2>4, <2>5, <2>6
<1>7. QED
  BY <1>5, <1>6

\* No entry is left: what was to be listed is.
LEMMA ServeRenderKeeps ==
    ASSUME IInv, NEW p \in Pulls, ServeRender(p)
    PROVE  RuInv' /\ \A q \in Pulls : FreshInv(q)' /\ CompleteInv(q)'
<1> DEFINE r == pull[p]
           new == [r EXCEPT !.at = "ok"]
<1>1. r \in PullType /\ r.at = "read" /\ r.todo = {}
  BY DEF IInv, RuInv, ServeRender
<1>2. pull' = [pull EXCEPT ![p] = new] /\ UNCHANGED <<storeVars, dest, running, ruToken, faults, expelled>>
  BY DEF ServeRender, Answer
<1>3. /\ new \in PullType /\ new.start = r.start /\ new.rev = r.rev /\ new.clients = r.clients
      /\ new.at = "ok"
  BY <1>1 DEF PullType
<1> HIDE DEF new
<1>4. /\ pull' \in [Pulls -> PullType] /\ pull'[p] = new
      /\ \A q \in Pulls \ {p} : FreshInv(q)' /\ CompleteInv(q)'
  BY <1>2, <1>3, OthersStay DEF IInv
<1>5. FreshInv(p)'
  BY <1>1, <1>2, <1>3, <1>4 DEF IInv, FreshInv, storeVars, Since, ConfigWhole
<1>6. CompleteInv(p)'
  BY <1>1, <1>2, <1>3, <1>4 DEF IInv, CompleteInv, storeVars, Exists, Answered
<1>7. RuInv'
  BY <1>2, <1>4 DEF IInv, RuInv, storeVars
<1>8. QED
  BY <1>4, <1>5, <1>6, <1>7

\* What gets installed is a whole list of a whole config.
LEMMA InstallKeeps ==
    ASSUME IInv, NEW p \in Pulls, Install(p)
    PROVE  RuInv' /\ \A q \in Pulls : FreshInv(q)' /\ CompleteInv(q)'
<1> DEFINE r == pull[p]
           new == [r EXCEPT !.at = "installed"]
<1>1. r \in PullType /\ r.at = "ok" /\ r.rev \in Ids /\ r.start.revoked \subseteq revoked
  BY DEF IInv, RuInv, FreshInv, Install
<1>2. pull' = [pull EXCEPT ![p] = new] /\ UNCHANGED storeVars
  BY <1>1 DEF Install, IInv, RuInv, PullType
<1>3. /\ new \in PullType /\ new.start = r.start /\ new.rev = r.rev /\ new.clients = r.clients
      /\ new.at = "installed"
  BY <1>1 DEF PullType
<1> HIDE DEF new
<1>4. /\ pull' \in [Pulls -> PullType] /\ pull'[p] = new
      /\ \A q \in Pulls \ {p} : FreshInv(q)' /\ CompleteInv(q)'
  BY <1>2, <1>3, OthersStay DEF IInv
<1>5. FreshInv(p)'
  BY <1>1, <1>2, <1>3, <1>4 DEF IInv, FreshInv, storeVars, Since, ConfigWhole
<1>6. CompleteInv(p)'
  BY <1>1, <1>2, <1>3, <1>4 DEF IInv, CompleteInv, storeVars, Exists, Answered
<1>7. RuInv'
  <2>1. dest' \in BodyType
    BY <1>1 DEF Install, Body, Render, BodyType, PullType
  <2>2. expelled' \subseteq revoked' /\ UNCHANGED <<running, ruToken, faults>>
    BY <1>1, <1>2 DEF Install, IInv, RuInv, storeVars
  <2>3. QED
    BY <1>4, <2>1, <2>2 DEF IInv, RuInv
<1>8. QED
  BY <1>4, <1>5, <1>6, <1>7

\* The pull ends, in whatever way.
LEMMA EndKeeps ==
    ASSUME IInv, NEW p \in Pulls, Fail(p) \/ Reload(p) \/ Lose(p) \/ ReloadFails(p)
    PROVE  RuInv' /\ \A q \in Pulls : FreshInv(q)' /\ CompleteInv(q)'
<1>1. pull' = [pull EXCEPT ![p] = NoPull] /\ UNCHANGED <<storeVars, dest, ruToken, expelled>>
  BY DEF Fail, Reload, Lose, ReloadFails
<1>2. /\ pull' \in [Pulls -> PullType] /\ pull'[p] = NoPull
      /\ \A q \in Pulls \ {p} : FreshInv(q)' /\ CompleteInv(q)'
  BY <1>1, NoPullIs, OthersStay DEF IInv
<1>3. FreshInv(p)' /\ CompleteInv(p)'
  BY <1>1, <1>2, IdleOwesNothing DEF IInv
<1>4. running' \in BodyType \cup {Down}
  BY DEF Fail, Reload, Lose, ReloadFails, IInv, RuInv
<1>5. faults' \in 0..MaxFaults
  BY Bounds DEF Fail, Reload, Lose, ReloadFails, Fault, IInv, RuInv
<1>6. RuInv'
  BY <1>1, <1>2, <1>4, <1>5 DEF IInv, RuInv, storeVars
<1>7. QED
  BY <1>2, <1>3, <1>6

\* A step of the operator's leaves the pulls alone, and they owe no more.
LEMMA OperatorKeeps ==
    ASSUME IInv, Operator
    PROVE  IInv'
<1>1. (StoreInv /\ FilesInv /\ CmdInv)' /\ UNCHANGED ruVars
  BY StoreStep DEF IInv, Operator
<1>2. /\ revoked \subseteq revoked'
      /\ \A n \in Names : Exists(n) /\ files[n].id # Empty =>
            (Exists(n)' /\ files'[n].id = files[n].id) \/ files[n].id \in revoked'
      /\ \A r \in -1..MaxIds : Since(r) => Since(r)'
  BY StoreKeeps DEF IInv, Operator
<1>3. ASSUME NEW p \in Pulls
      PROVE  FreshInv(p)' /\ CompleteInv(p)'
  <2>1. pull[p] \in PullType /\ pull'[p] = pull[p]
    BY <1>1 DEF IInv, RuInv, ruVars
  <2>2. pull[p].start.rev \in -1..MaxIds /\ pull[p].start.live \subseteq Ids
    BY <2>1 DEF PullType, StartType
  <2>3. Since(pull[p].start.rev)'
    <3>1. \A r \in -1..MaxIds : Since(r) => Since(r)'
      BY <1>2
    <3>2. Since(pull[p].start.rev)
      BY DEF IInv, FreshInv
    <3>3. \A r : r = pull[p].start.rev /\ Since(r)' => Since(pull[p].start.rev)'
      BY <2>1 DEF Since
    <3>4. QED
      BY <2>2, <3>1, <3>2, <3>3
  <2>4. FreshInv(p)'
    BY <1>2, <2>1, <2>3 DEF IInv, FreshInv
  <2>5. ASSUME NEW id \in pull[p].start.live \ revoked'
        PROVE  \E n \in Names :
                  /\ Exists(n)' /\ files'[n].id = id
                  /\ pull[p].at = "read" => n \in pull[p].todo \/ id \in pull[p].clients
                  /\ Answered(p) => id \in pull[p].clients
    <3>1. id \in pull[p].start.live \ revoked /\ id # Empty
      BY <1>2, <2>2, <2>5 DEF Ids, Empty
    <3>2. PICK n \in Names :
             /\ Exists(n) /\ files[n].id = id
             /\ pull[p].at = "read" => n \in pull[p].todo \/ id \in pull[p].clients
             /\ Answered(p) => id \in pull[p].clients
      BY <3>1 DEF IInv, CompleteInv
    <3>3. Exists(n)' /\ files'[n].id = id
      BY <1>2, <2>5, <3>1, <3>2
    <3>4. QED
      BY <3>2, <3>3
  <2>6. CompleteInv(p)'
    BY <2>1, <2>5 DEF CompleteInv, Answered
  <2>7. QED
    BY <2>4, <2>6
<1>4. RuInv'
  BY <1>1, <1>2 DEF IInv, RuInv, ruVars
<1>5. QED
  BY <1>1, <1>3, <1>4 DEF IInv

LEMMA InvStep == IInv /\ [Next]_vars => IInv'
<1> SUFFICES ASSUME IInv, [Next]_vars PROVE IInv'
  OBVIOUS
<1>1. ASSUME UNCHANGED storeVars,
             RuInv' /\ \A q \in Pulls : FreshInv(q)' /\ CompleteInv(q)'
      PROVE  IInv'
  BY <1>1 DEF IInv, storeVars, StoreInv, FilesInv, CmdInv, ConfigWhole, Written, Exists
<1>2. ASSUME NEW p \in Pulls, Send(p) \/ ServeStep(p) \/ PullStep(p) \/ Lose(p) \/ ReloadFails(p)
      PROVE  IInv'
  <2>1. UNCHANGED storeVars
    BY <1>2 DEF Send, ServeStep, ServeConfig, ServeReadDir, ServeReadFile, ServeRender,
       PullStep, Fail, Install, Reload, Lose, ReloadFails
  <2>2. RuInv' /\ \A q \in Pulls : FreshInv(q)' /\ CompleteInv(q)'
    BY <1>2, SendKeeps, ServeConfigKeeps, ServeReadDirKeeps, ServeReadFileKeeps, ServeRenderKeeps,
       InstallKeeps, EndKeeps
    DEF ServeStep, PullStep
  <2>3. QED
    BY <1>1, <2>1, <2>2
<1>3. CASE Operator
  BY <1>3, OperatorKeeps
<1>4. CASE Reboot
  <2>1. pull' = [p \in Pulls |-> NoPull] /\ UNCHANGED <<storeVars, dest, ruToken, expelled>>
    BY <1>4 DEF Reboot
  <2>2. \A q \in Pulls : FreshInv(q)' /\ CompleteInv(q)'
    BY <2>1, IdleOwesNothing DEF IInv
  <2>3. faults' \in 0..MaxFaults
    BY <1>4, Bounds DEF Reboot, Fault, IInv, RuInv
  <2>4. RuInv'
    BY <1>4, <2>1, <2>3, NoPullIs DEF Reboot, IInv, RuInv, storeVars
  <2>5. QED
    BY <1>1, <2>1, <2>2, <2>4
<1>5. CASE UNCHANGED pull /\ UNCHANGED storeVars
  <2>1. \A q \in Pulls : FreshInv(q)' /\ CompleteInv(q)'
    BY <1>5 DEF IInv, FreshInv, CompleteInv, storeVars, Since, ConfigWhole, Exists, Answered
  <2>2. CASE Restart \/ UNCHANGED vars
    <3>1. RuInv'
      BY <1>5, <2>2 DEF Restart, vars, ruVars, IInv, RuInv, storeVars
    <3>2. QED
      BY <1>1, <1>5, <2>1, <3>1
  <2>3. CASE Reprovision
    <3>1. config.token \in Ids
      BY <2>3, Bounds DEF Reprovision, IInv, StoreInv, Written, Ids
    <3>2. RuInv'
      BY <1>5, <2>3, <3>1 DEF Reprovision, IInv, RuInv, storeVars
    <3>3. QED
      BY <1>1, <1>5, <2>1, <3>2
  <2>4. QED
    BY <1>3, <1>5, <1>2, <1>4, <2>2, <2>3 DEF Next
<1>6. QED
  BY <1>2, <1>3, <1>4, <1>5 DEF Next, Restart, Reprovision, vars, ruVars

LEMMA InvInit == Init => IInv
<1> SUFFICES ASSUME Init PROVE IInv
  OBVIOUS
<1>1. /\ config = [rev |-> 1, token |-> 1, owner |-> "rdda"]
      /\ dir = "rdda" /\ cmd = NoCmd /\ fresh = 1 /\ revoked = {} /\ kills = 0
      /\ files = [n \in Names |->
                    IF n = Min(Names) THEN [id |-> 1, owner |-> "rdda", made |-> 1] ELSE Absent]
  BY DEF Init, StoreInit
<1>2. \A n \in Names : files[n] \in FileType
  BY <1>1, Bounds DEF FileType, Absent
<1>3. \A n \in Names : Exists(n) => n = Min(Names) /\ files[n].id = 1 /\ files[n].made = 1
  BY <1>1 DEF Exists
<1>4. StoreInv
  <2>1. config \in ConfigType /\ Written(config)
    BY <1>1, Bounds DEF ConfigType, Written
  <2>2. files \in [Names -> FileType]
    BY <1>1, <1>2
  <2>3. QED
    BY <1>1, <2>1, <2>2, NoCmdIs, Bounds DEF StoreInv
<1>5. FilesInv
  BY <1>1, <1>3 DEF FilesInv
<1>6. CmdInv
  BY <1>1, NoCmdIs DEF CmdInv
<1>7. Live \subseteq Ids
  BY <1>4, <1>5, LiveIs
<1>8. RuInv
  <2>1. pull \in [Pulls -> PullType]
    BY NoPullIs DEF Init
  <2>2. dest \in BodyType /\ running = dest /\ ruToken \in Ids
    BY <1>1, <1>7, Bounds DEF Init, Desired, Render, BodyType, Ids
  <2>3. faults = 0 /\ expelled = {} /\ 0 \in 0..MaxFaults
    BY Bounds DEF Init
  <2>4. QED
    BY <2>1, <2>2, <2>3 DEF RuInv
<1>9. \A p \in Pulls : FreshInv(p) /\ CompleteInv(p)
  <2>1. \A p \in Pulls : pull[p] = NoPull
    BY DEF Init
  <2>2. NoPull.start = NoStart /\ NoPull.clients = {} /\ NoPull.at = "idle"
        /\ NoStart.rev = 0 /\ NoStart.live = {} /\ NoStart.revoked = {}
    BY DEF NoPull, NoStart
  <2>3. Since(0)
    BY <1>1, NoCmdIs DEF Since
  <2>4. QED
    BY <2>1, <2>2, <2>3 DEF FreshInv, CompleteInv
<1>10. QED
  BY <1>4, <1>5, <1>6, <1>8, <1>9 DEF IInv

LEMMA SpecIInv == Spec => []IInv
BY InvInit, InvStep, PTL DEF Spec

-----------------------------------------------------------------------------
\* Every variable of both nodes stays what it is meant to be
\* (state/config.go:97-128, state/client.go:52-128, pull/pull.go:26-88).
THEOREM SpecTypeOK == Spec => []TypeOK
<1>1. ASSUME IInv
      PROVE  StoreTypeOK
  <2>1. fresh \in 0..MaxIds /\ revoked \subseteq 0..MaxIds
    BY <1>1, Bounds DEF IInv, StoreInv
  <2>2. cmd \in [at : {"idle", "create", "write", "chown", "truncate", "save",
                      "config", "clear", "move", "chown clients", "chown config"},
                name : Names \cup {0}, id : 0..MaxIds, saving : ConfigType]
    BY <1>1 DEF IInv, StoreInv, CmdType
  <2>3. QED
    BY <1>1, <2>1, <2>2 DEF IInv, StoreInv, StoreTypeOK, FileType
<1>2. ASSUME IInv, NEW p \in Pulls
      PROVE  /\ pull[p].at \in {"idle", "sent", "list", "read", "ok", "refused", "installed"}
             /\ pull[p].token \in 0..MaxIds /\ pull[p].rev \in 0..MaxIds
             /\ pull[p].todo \subseteq Names /\ pull[p].clients \subseteq 1..MaxIds
  BY <1>2 DEF IInv, RuInv, PullType, Ids
<1>3. IInv => /\ dest.rev \in 1..MaxIds /\ dest.clients \subseteq 1..MaxIds
              /\ running # Down => running.rev \in 1..MaxIds /\ running.clients \subseteq 1..MaxIds
              /\ ruToken \in 1..MaxIds /\ faults \in 0..MaxFaults
  BY DEF IInv, RuInv, BodyType, Ids
<1>4. IInv => TypeOK
  BY <1>1, <1>2, <1>3 DEF TypeOK
<1>5. QED
  BY <1>4, SpecIInv, PTL

\* However the operator's commands interleave with the reads of a request, an
\* answered list has every client that was there throughout it
\* (state/client.go:106-128, subserver/server.go:110-136).
THEOREM SpecListIsComplete == Spec => []ListIsComplete
<1>1. IInv => ListIsComplete
  <2> SUFFICES ASSUME IInv, NEW p \in Pulls, Answered(p), NEW id \in pull[p].start.live \ revoked
               PROVE  id \in pull[p].clients
    BY DEF ListIsComplete
  <2>1. QED
    BY DEF IInv, CompleteInv
<1>2. QED
  BY <1>1, SpecIInv, PTL

\* No client in it was revoked before the request began, and its config is one
\* that was current during it (state/client.go:106-128, subserver/server.go:110-136).
THEOREM SpecListIsFresh == Spec => []ListIsFresh
<1>1. IInv => ListIsFresh
  BY DEF IInv, FreshInv, ListIsFresh, Answered
<1>2. QED
  BY <1>1, SpecIInv, PTL

\* While there is only the timer's pull, the requests do not overlap, so that none
\* installs what is older than what an earlier one has.
LEMMA TimerStep ==
    ASSUME \A p, q \in Pulls : p = q
    PROVE  IInv /\ TimerInv /\ [Next]_vars => TimerInv'
<1> SUFFICES ASSUME IInv, TimerInv, [Next]_vars PROVE TimerInv'
  OBVIOUS
<1>1. CASE UNCHANGED <<pull, dest, expelled>>
  BY <1>1 DEF TimerInv, RevokedStaysOut
<1>2. ASSUME NEW p \in Pulls, NEW new, pull' = [pull EXCEPT ![p] = new],
             (new.start = pull[p].start /\ pull[p].at # "idle") \/ new.at = "idle",
             UNCHANGED <<dest, expelled>>
      PROVE  TimerInv'
  <2>1. pull'[p] = new /\ \A q \in Pulls : q = p
    BY <1>2 DEF IInv, RuInv
  <2>2. QED
    BY <1>2, <2>1 DEF TimerInv, RevokedStaysOut
<1>3. ASSUME NEW p \in Pulls, Send(p)
      PROVE  TimerInv'
  <2> DEFINE start == [rev |-> config.rev, live |-> Live, revoked |-> revoked]
             new == [NoPull EXCEPT !.at = "sent", !.token = ruToken, !.start = start]
  <2>1. new.start.revoked = revoked
    BY DEF NoPull
  <2>2. pull' = [pull EXCEPT ![p] = new] /\ UNCHANGED <<dest, expelled>>
    BY <1>3 DEF Send
  <2> HIDE DEF new
  <2>3. pull'[p] = new /\ \A q \in Pulls : q = p
    BY <2>2 DEF IInv, RuInv
  <2>4. expelled \subseteq revoked
    BY DEF IInv, RuInv
  <2>5. QED
    BY <2>1, <2>2, <2>3, <2>4 DEF TimerInv, RevokedStaysOut
<1>4. ASSUME NEW p \in Pulls, ServeStep(p)
      PROVE  TimerInv'
  <2>1. pull[p] \in PullType /\ pull[p].at # "idle" /\ UNCHANGED <<dest, expelled>>
    BY <1>4 DEF IInv, RuInv, ServeStep, ServeConfig, ServeReadDir, ServeReadFile, ServeRender
  <2>2. CASE ServeConfig(p)
    <3> DEFINE new == IF ConfigUsable /\ pull[p].token = config.token
                      THEN [pull[p] EXCEPT !.at = "list", !.rev = config.rev]
                      ELSE [pull[p] EXCEPT !.at = "refused"]
    <3>1. pull' = [pull EXCEPT ![p] = new]
      BY <2>2 DEF ServeConfig
    <3>2. new.start = pull[p].start
      BY <2>1 DEF PullType
    <3>3. QED
      BY <1>2, <2>1, <3>1, <3>2
  <2>3. CASE ServeReadDir(p)
    <3> DEFINE new == IF dir = "rdda"
                      THEN [pull[p] EXCEPT !.at = "read", !.todo = {n \in Names : Exists(n)}]
                      ELSE [pull[p] EXCEPT !.at = "refused"]
    <3>1. pull' = [pull EXCEPT ![p] = new]
      BY <2>3 DEF ServeReadDir
    <3>2. new.start = pull[p].start
      BY <2>1 DEF PullType
    <3>3. QED
      BY <1>2, <2>1, <3>1, <3>2
  <2>4. CASE ServeReadFile(p)
    <3>1. pull' = [pull EXCEPT ![p] = ReadFile(p)]
      BY <2>4 DEF ServeReadFile
    <3>2. ReadFile(p).start = pull[p].start
      BY <2>1 DEF ReadFile, Answer, PullType
    <3>3. QED
      BY <1>2, <2>1, <3>1, <3>2
  <2>5. CASE ServeRender(p)
    <3>1. pull' = [pull EXCEPT ![p] = Answer(p, "ok")]
      BY <2>5 DEF ServeRender
    <3>2. Answer(p, "ok").start = pull[p].start
      BY <2>1 DEF Answer, PullType
    <3>3. QED
      BY <1>2, <2>1, <3>1, <3>2
  <2>6. QED
    BY <1>4, <2>2, <2>3, <2>4, <2>5 DEF ServeStep
<1>5. ASSUME NEW p \in Pulls, Install(p)
      PROVE  TimerInv'
  <2>1. pull[p].at = "ok" /\ pull[p] \in PullType
    BY <1>5 DEF Install, IInv, RuInv
  <2>2. /\ pull'[p].start = pull[p].start /\ \A q \in Pulls : q = p
        /\ dest'.clients = pull[p].clients
        /\ expelled' = expelled \cup pull[p].start.revoked
    BY <1>5, <2>1 DEF Install, Body, Render, IInv, RuInv, PullType
  <2>3. expelled \subseteq pull[p].start.revoked
    BY <2>1 DEF TimerInv
  <2>4. pull[p].clients \cap pull[p].start.revoked = {}
    BY DEF IInv, FreshInv
  <2>5. QED
    BY <2>2, <2>3, <2>4 DEF TimerInv, RevokedStaysOut
<1>6. ASSUME NEW p \in Pulls, Fail(p) \/ Reload(p) \/ Lose(p) \/ ReloadFails(p)
      PROVE  TimerInv'
  <2>1. pull' = [pull EXCEPT ![p] = NoPull] /\ UNCHANGED <<dest, expelled>>
    BY <1>6 DEF Fail, Reload, Lose, ReloadFails
  <2>2. QED
    BY <1>2, <2>1, NoPullIs
<1>7. CASE Reboot
  <2>1. pull' = [p \in Pulls |-> NoPull] /\ UNCHANGED <<dest, expelled>>
    BY <1>7 DEF Reboot
  <2>2. QED
    BY <2>1, NoPullIs DEF TimerInv, RevokedStaysOut
<1>8. QED
  BY <1>1, <1>3, <1>4, <1>5, <1>6, <1>7 DEF Next, PullStep, Operator, Reprovision, Restart, vars, ruVars

\* docs/ARCHITECTURE.md:151: as long as the timer is the only one to pull, a
\* revoked client is out of the RU node's config for good once a pull that began
\* after the revocation is installed (pull/pull.go:79-86, state/client.go:97-103).
THEOREM SpecRevokedStaysOut ==
    ASSUME \A p, q \in Pulls : p = q
    PROVE  Spec => []RevokedStaysOut
<1>1. Init => TimerInv
  BY DEF Init, NoPull, TimerInv, RevokedStaysOut
<1>2. IInv /\ TimerInv /\ [Next]_vars => TimerInv'
  BY TimerStep
<1>3. TimerInv => RevokedStaysOut
  BY DEF TimerInv
<1>4. QED
  BY <1>1, <1>2, <1>3, SpecIInv, PTL DEF Spec
=============================================================================
