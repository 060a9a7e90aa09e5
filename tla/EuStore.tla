------------------------------ MODULE EuStore ------------------------------
(***************************************************************************)
(* internal/state: the EU node's state directory, and the operator's CLI   *)
(* commands that write it.  config.yaml and clients/<name>.json are        *)
(* written in place by os.WriteFile (truncate, then write) as root, and    *)
(* handed to the rdda service user afterwards, while the sub server, which *)
(* runs as rdda, reads them at any time.  A command may be killed between  *)
(* any two of its steps.  The clients directory itself only comes and goes *)
(* when a backup is restored (Backup).                                     *)
(*                                                                         *)
(* Identities (a client's UUID and token, a config's keys and pull token)  *)
(* are numbers from one counter: a fresh one was never used before.        *)
(***************************************************************************)
EXTENDS Integers, FiniteSets, FiniteSetsExt

CONSTANTS
    Names,    \* client names, numbered in directory order
    MaxIds,   \* bound on the identities ever made
    MaxKills  \* bound on the commands that are killed half-way

ASSUME NamesAssumption == Names \subseteq Nat /\ IsFiniteSet(Names)
ASSUME MaxIdsAssumption == MaxIds \in Nat \ {0} /\ MaxKills \in Nat

VARIABLES
    config,   \* config.yaml: its revision and pull token, or Truncated; its owner
    dir,      \* the owner of clients/, or "missing"
    files,    \* clients/: for each name its file, or Absent
    cmd,      \* the operator's command and how far it has come
    fresh,    \* the last identity handed out
    revoked,  \* identities whose file was removed
    kills     \* commands killed so far

storeVars == <<config, dir, files, cmd, fresh, revoked, kills>>

Truncated(owner) == [rev |-> -1, token |-> -1, owner |-> owner]
Absent == [id |-> 0, owner |-> "none", made |-> 0]
\* An open file whose text is not written yet has identity 0.
Empty == 0
NoCmd == [at |-> "idle", name |-> 0, id |-> 0, saving |-> Truncated("root")]

Exists(n) == files[n] # Absent
ConfigWhole == config.rev # -1
ConfigUsable == ConfigWhole /\ config.owner = "rdda"

\* ReadFile and Unmarshal both succeed for the service user.
Usable(n) == Exists(n) /\ files[n].owner = "rdda" /\ files[n].id # Empty

\* The clients the directory holds for a service user that can read it all.
Live == IF dir = "rdda" THEN {files[n].id : n \in {m \in Names : Usable(m)}} ELSE {}

StoreReadable == ConfigUsable /\ dir = "rdda" /\ \A n \in Names : Exists(n) => Usable(n)

\* A deployed EU node: configured, with the first name already a client.
StoreInit ==
    /\ config = [rev |-> 1, token |-> 1, owner |-> "rdda"]
    /\ dir = "rdda"
    /\ files = [n \in Names |->
                  IF n = Min(Names) THEN [id |-> 1, owner |-> "rdda", made |-> 1] ELSE Absent]
    /\ cmd = NoCmd
    /\ fresh = 1
    /\ revoked = {}
    /\ kills = 0

\* Open, with which every command begins, makes the directory if there is none.
Opened(user) == IF dir = "missing" THEN user ELSE dir

-----------------------------------------------------------------------------
(***************************************************************************)
(* rdda client add                                                         *)
(***************************************************************************)

\* LoadConfig, the Stat that refuses a duplicate name, and the new identity.
AddClient(n) ==
    /\ cmd.at = "idle"
    /\ ConfigWhole
    /\ ~Exists(n)
    /\ fresh < MaxIds
    /\ fresh' = fresh + 1
    /\ cmd' = [NoCmd EXCEPT !.at = "create", !.name = n, !.id = fresh + 1]
    /\ dir' = Opened("root")
    /\ UNCHANGED <<config, files, revoked, kills>>

\* os.WriteFile opens: an empty file of the caller, root.
AddCreate ==
    /\ cmd.at = "create"
    /\ files' = [files EXCEPT ![cmd.name] = [id |-> Empty, owner |-> "root", made |-> cmd.id]]
    /\ cmd' = [cmd EXCEPT !.at = "write"]
    /\ UNCHANGED <<config, dir, fresh, revoked, kills>>

\* os.WriteFile writes.
AddWrite ==
    /\ cmd.at = "write"
    /\ files' = [files EXCEPT ![cmd.name].id = cmd.id]
    /\ cmd' = [cmd EXCEPT !.at = "chown"]
    /\ UNCHANGED <<config, dir, fresh, revoked, kills>>

\* chownToService, and the command is done.
AddChown ==
    /\ cmd.at = "chown"
    /\ files' = [files EXCEPT ![cmd.name].owner = "rdda"]
    /\ cmd' = NoCmd
    /\ UNCHANGED <<config, dir, fresh, revoked, kills>>

\* Mutant: rm answers once Stat has found the file, and never removes it.
RemoveClientStatsOnly(n) ==
    /\ cmd.at = "idle"
    /\ Exists(n)
    /\ revoked' = revoked \cup {files[n].made}
    /\ UNCHANGED <<config, dir, files, cmd, fresh, kills>>

(***************************************************************************)
(* rdda client rm: Stat and Remove.  A file left empty by a killed add can *)
(* be removed like any other; the identity it was made for goes with it.   *)
(***************************************************************************)
RemoveClient(n) ==
    /\ cmd.at = "idle"
    /\ Exists(n)
    /\ files' = [files EXCEPT ![n] = Absent]
    /\ revoked' = revoked \cup {files[n].made}
    /\ UNCHANGED <<config, dir, cmd, fresh, kills>>

(***************************************************************************)
(* SaveConfig: by rdda init, which makes new keys and a new pull token     *)
(* whatever was there, or by an edit of the loaded config (dest discover,  *)
(* cf setup), which keeps them.                                            *)
(***************************************************************************)
InitConfig ==
    /\ cmd.at = "idle"
    /\ fresh < MaxIds
    /\ fresh' = fresh + 1
    /\ cmd' = [NoCmd EXCEPT !.at = "truncate",
                            !.saving = [config EXCEPT !.rev = fresh + 1, !.token = fresh + 1]]
    /\ dir' = Opened("root")
    /\ UNCHANGED <<config, files, revoked, kills>>

EditConfig ==
    /\ cmd.at = "idle"
    /\ ConfigWhole
    /\ fresh < MaxIds
    /\ fresh' = fresh + 1
    /\ cmd' = [NoCmd EXCEPT !.at = "truncate", !.saving = [config EXCEPT !.rev = fresh + 1]]
    /\ dir' = Opened("root")
    /\ UNCHANGED <<config, files, revoked, kills>>

SaveTruncate ==
    /\ cmd.at = "truncate"
    /\ config' = Truncated(config.owner)
    /\ cmd' = [cmd EXCEPT !.at = "save"]
    /\ UNCHANGED <<dir, files, fresh, revoked, kills>>

SaveWrite ==
    /\ cmd.at = "save"
    /\ config' = [cmd.saving EXCEPT !.owner = config.owner]
    /\ cmd' = NoCmd
    /\ UNCHANGED <<dir, files, fresh, revoked, kills>>

-----------------------------------------------------------------------------
\* Store.ChownTree, which rdda update and rdda restore run as root.
ChownTree ==
    /\ \/ config.owner = "root"
       \/ dir = "root"
       \/ \E n \in Names : files[n].owner = "root"
    /\ config' = [config EXCEPT !.owner = "rdda"]
    /\ dir' = IF dir = "root" THEN "rdda" ELSE dir
    /\ files' = [n \in Names |-> IF Exists(n) THEN [files[n] EXCEPT !.owner = "rdda"] ELSE Absent]
    /\ UNCHANGED <<cmd, fresh, revoked, kills>>

\* The command is killed, or its terminal goes away.
KillCommand ==
    /\ cmd.at # "idle"
    /\ kills < MaxKills
    /\ kills' = kills + 1
    /\ cmd' = NoCmd
    /\ UNCHANGED <<config, dir, files, fresh, revoked>>

\* A command that has started runs on unless it is killed.
CommandStep == AddCreate \/ AddWrite \/ AddChown \/ SaveTruncate \/ SaveWrite

StoreNext ==
    \/ \E n \in Names : AddClient(n) \/ RemoveClient(n)
    \/ InitConfig
    \/ EditConfig
    \/ CommandStep
    \/ ChownTree
    \/ KillCommand

ConfigType == [rev : -1..MaxIds, token : -1..MaxIds, owner : {"rdda", "root"}]

StoreTypeOK ==
    /\ config \in ConfigType
    /\ dir \in {"rdda", "root", "missing"}
    /\ files \in [Names -> [id : 0..MaxIds, owner : {"none", "root", "rdda"}, made : 0..MaxIds]]
    /\ cmd \in [at : {"idle", "create", "write", "chown", "truncate", "save",
                      "config", "clear", "move", "chown clients", "chown config"},
                name : Names \cup {0}, id : 0..MaxIds,
                saving : ConfigType]
    /\ fresh \in 0..MaxIds
    /\ revoked \subseteq 0..MaxIds
    /\ kills \in 0..MaxKills
=============================================================================
