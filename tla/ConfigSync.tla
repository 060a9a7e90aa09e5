---------------------------- MODULE ConfigSync ----------------------------
(***************************************************************************)
(* How the RU node follows the EU store: the /ru/config handler of         *)
(* internal/subserver, which reads the store piece by piece while the      *)
(* operator changes it, and internal/pull, which installs what it gets and *)
(* restarts the data plane.  The rdda-pull timer runs one pull at a time;  *)
(* an operator may run another by hand meanwhile.                          *)
(***************************************************************************)
EXTENDS EuStore

CONSTANTS
    Pulls,     \* pulls that can be in progress at once
    MaxFaults  \* bound on lost requests, failed reloads, crashes of either node

ASSUME MaxFaultsAssumption == MaxFaults \in Nat

VARIABLES
    pull,      \* for each pull: its progress, and the handler's that answers it
    dest,      \* /etc/rdda/singbox.json on the RU node
    running,   \* the configuration sing-box runs with, or Down
    ruToken,   \* RDDA_PULL_TOKEN in the RU node's pull.env
    faults,    \* faults so far
    expelled   \* what an observer knows to be gone: see Install

ruVars == <<pull, dest, running, ruToken, faults, expelled>>
vars == <<storeVars, ruVars>>

Down == [rev |-> -1, clients |-> {}]

\* start is the store as it was when the request was sent, for the properties.
NoStart == [rev |-> 0, live |-> {}, revoked |-> {}]
NoPull == [at |-> "idle", token |-> 0, rev |-> 0, todo |-> {}, clients |-> {}, start |-> NoStart]

\* RenderRU: the RU node's configuration for a config and a list of clients.
Render(rev, clients) == [rev |-> rev, clients |-> clients]

\* What the RU node should run.
Desired == Render(config.rev, Live)

Init ==
    /\ StoreInit
    /\ pull = [p \in Pulls |-> NoPull]
    /\ dest = Desired
    /\ running = Desired
    /\ ruToken = config.token
    /\ faults = 0
    /\ expelled = {}

-----------------------------------------------------------------------------
(***************************************************************************)
(* pull.Run sends its request.                                             *)
(***************************************************************************)
Send(p) ==
    /\ pull[p].at = "idle"
    /\ pull' = [pull EXCEPT ![p] =
                  [NoPull EXCEPT !.at = "sent", !.token = ruToken,
                                 !.start = [rev |-> config.rev, live |-> Live,
                                            revoked |-> revoked]]]
    /\ UNCHANGED <<storeVars, dest, running, ruToken, faults, expelled>>

(***************************************************************************)
(* The handler: LoadConfig and the token check, ReadDir, then one ReadFile *)
(* per directory entry.  Any error answers 500 (or 401) for the whole      *)
(* request; "refused" stands for every answer that is not 200.             *)
(***************************************************************************)
Answer(p, at) == [pull[p] EXCEPT !.at = at]

\* Mutant: a config that cannot be read is served as an empty one.
ServeConfigUnread(p) ==
    /\ pull[p].at = "sent"
    /\ pull' = [pull EXCEPT ![p].at = "list", ![p].rev = config.rev]
    /\ UNCHANGED <<storeVars, dest, running, ruToken, faults, expelled>>

ServeConfig(p) ==
    /\ pull[p].at = "sent"
    /\ pull' = [pull EXCEPT ![p] =
                  IF ConfigUsable /\ pull[p].token = config.token
                  THEN [@ EXCEPT !.at = "list", !.rev = config.rev]
                  ELSE [@ EXCEPT !.at = "refused"]]
    /\ UNCHANGED <<storeVars, dest, running, ruToken, faults, expelled>>

ServeReadDir(p) ==
    /\ pull[p].at = "list"
    /\ pull' = [pull EXCEPT ![p] =
                  IF dir = "rdda"
                  THEN [@ EXCEPT !.at = "read", !.todo = {n \in Names : Exists(n)}]
                  ELSE [@ EXCEPT !.at = "refused"]]
    /\ UNCHANGED <<storeVars, dest, running, ruToken, faults, expelled>>

\* Mutant: the first file that cannot be read ends the list, and what was
\* read so far is the answer.
ReadFileStops(p) ==
    LET n == Min(pull[p].todo)
    IN  IF Usable(n)
        THEN [pull[p] EXCEPT !.todo = @ \ {n}, !.clients = @ \cup {files[n].id}]
        ELSE [pull[p] EXCEPT !.todo = {}]

\* The next directory entry: one unreadable file fails the whole list.
ReadFile(p) ==
    LET n == Min(pull[p].todo)
    IN  IF Usable(n)
        THEN [pull[p] EXCEPT !.todo = @ \ {n}, !.clients = @ \cup {files[n].id}]
        ELSE Answer(p, "refused")

ServeReadFile(p) ==
    /\ pull[p].at = "read"
    /\ pull[p].todo # {}
    /\ pull' = [pull EXCEPT ![p] = ReadFile(p)]
    /\ UNCHANGED <<storeVars, dest, running, ruToken, faults, expelled>>

ServeRender(p) ==
    /\ pull[p].at = "read"
    /\ pull[p].todo = {}
    /\ pull' = [pull EXCEPT ![p] = Answer(p, "ok")]
    /\ UNCHANGED <<storeVars, dest, running, ruToken, faults, expelled>>

-----------------------------------------------------------------------------
(***************************************************************************)
(* The rest of pull.Run.                                                   *)
(***************************************************************************)

\* Not a 200: an error, and the installed config stays.
Fail(p) ==
    /\ pull[p].at = "refused"
    /\ pull' = [pull EXCEPT ![p] = NoPull]
    /\ UNCHANGED <<storeVars, dest, running, ruToken, faults, expelled>>

Body(p) == Render(pull[p].rev, pull[p].clients)

\* Mutant: the clients of the body are added to those already installed.
InstallMerges(p) ==
    /\ pull[p].at = "ok"
    /\ dest' = Render(pull[p].rev, dest.clients \cup pull[p].clients)
    /\ pull' = [pull EXCEPT ![p].at = "installed"]
    /\ expelled' = expelled \cup pull[p].start.revoked
    /\ UNCHANGED <<storeVars, running, ruToken, faults>>

\* Mutant: a body equal to what is installed is not worth a restart.
InstallSkipsSame(p) ==
    /\ pull[p].at = "ok"
    /\ dest' = Body(p)
    /\ pull' = [pull EXCEPT ![p] = IF dest = Body(p) THEN NoPull ELSE Answer(p, "installed")]
    /\ expelled' = expelled \cup pull[p].start.revoked
    /\ UNCHANGED <<storeVars, running, ruToken, faults>>

\* The body is a JSON object: temporary file, chmod, and rename over Dest.  From
\* here on, whoever was revoked before the request began is known to be out.
Install(p) ==
    /\ pull[p].at = "ok"
    /\ dest' = Body(p)
    /\ pull' = [pull EXCEPT ![p].at = "installed"]
    /\ expelled' = expelled \cup pull[p].start.revoked
    /\ UNCHANGED <<storeVars, running, ruToken, faults>>

\* Reload restarts sing-box, which reads whatever Dest holds by now.
Reload(p) ==
    /\ pull[p].at = "installed"
    /\ running' = dest
    /\ pull' = [pull EXCEPT ![p] = NoPull]
    /\ UNCHANGED <<storeVars, dest, ruToken, faults, expelled>>

-----------------------------------------------------------------------------
(***************************************************************************)
(* Faults, each counted against MaxFaults.                                 *)
(***************************************************************************)
Fault == faults < MaxFaults /\ faults' = faults + 1

\* The request or its answer is lost, the handler dies, or the pull does
\* before its rename: an error that changes nothing.
Lose(p) ==
    /\ Fault
    /\ pull[p].at \in {"sent", "list", "read", "ok"}
    /\ pull' = [pull EXCEPT ![p] = NoPull]
    /\ UNCHANGED <<storeVars, dest, running, ruToken, expelled>>

\* Reload stops sing-box, and check-dest refuses to start it again; or the
\* reload command fails before it stops anything.
ReloadFails(p) ==
    /\ Fault
    /\ pull[p].at = "installed"
    /\ running' \in {running, Down}
    /\ pull' = [pull EXCEPT ![p] = NoPull]
    /\ UNCHANGED <<storeVars, dest, ruToken, expelled>>

\* The RU node reboots; sing-box starts from Dest.
Reboot ==
    /\ Fault
    /\ running' = dest
    /\ pull' = [p \in Pulls |-> NoPull]
    /\ UNCHANGED <<storeVars, dest, ruToken, expelled>>

\* systemd (Restart=on-failure) or rdda-heal starts sing-box again.
Restart ==
    /\ running = Down
    /\ running' = dest
    /\ UNCHANGED <<storeVars, pull, dest, ruToken, faults, expelled>>

-----------------------------------------------------------------------------
(***************************************************************************)
(* The operator.                                                           *)
(***************************************************************************)

\* rdda control-channel init: the current pull token into pull.env.
Reprovision ==
    /\ ConfigWhole
    /\ ruToken # config.token
    /\ ruToken' = config.token
    /\ UNCHANGED <<storeVars, pull, dest, running, faults, expelled>>

Operator == StoreNext /\ UNCHANGED ruVars

ServeStep(p) == ServeConfig(p) \/ ServeReadDir(p) \/ ServeReadFile(p) \/ ServeRender(p)
PullStep(p) == Fail(p) \/ Install(p) \/ Reload(p)

Next ==
    \/ Operator
    \/ Reprovision
    \/ \E p \in Pulls : Send(p) \/ ServeStep(p) \/ PullStep(p) \/ Lose(p) \/ ReloadFails(p)
    \/ Reboot
    \/ Restart

Spec == Init /\ [][Next]_vars

(***************************************************************************)
(* The timer fires again and again, a handler and a pull run to their end, *)
(* a command that is not killed does too, and systemd restarts a unit that *)
(* failed.  Nobody makes the operator start a command.                     *)
(***************************************************************************)
Fairness ==
    /\ \A p \in Pulls : WF_vars(Send(p) \/ ServeStep(p) \/ PullStep(p))
    /\ WF_vars(CommandStep /\ UNCHANGED ruVars)
    /\ WF_vars(Restart)

FairSpec == Spec /\ Fairness

-----------------------------------------------------------------------------
TypeOK ==
    /\ StoreTypeOK
    /\ \A p \in Pulls :
          /\ pull[p].at \in {"idle", "sent", "list", "read", "ok", "refused", "installed"}
          /\ pull[p].token \in 0..MaxIds
          /\ pull[p].rev \in 0..MaxIds
          /\ pull[p].todo \subseteq Names
          /\ pull[p].clients \subseteq 1..MaxIds
    /\ dest.rev \in 1..MaxIds
    /\ dest.clients \subseteq 1..MaxIds
    /\ running # Down => running.rev \in 1..MaxIds /\ running.clients \subseteq 1..MaxIds
    /\ ruToken \in 1..MaxIds
    /\ faults \in 0..MaxFaults

Answered(p) == pull[p].at \in {"ok", "installed"}

\* client.go:106-128, server.go:110-136: however the operator's commands
\* interleave with the reads of one request, an answered list has every client
\* that was there throughout the request.
ListIsComplete ==
    \A p \in Pulls : Answered(p) => pull[p].start.live \ revoked \subseteq pull[p].clients

\* It has no client that was revoked before the request began, and its config
\* is one that was current at some time during the request.
ListIsFresh ==
    \A p \in Pulls : Answered(p) =>
        /\ pull[p].clients \cap pull[p].start.revoked = {}
        /\ pull[p].rev >= pull[p].start.rev

\* docs/ARCHITECTURE.md:151 "rdda client rm: revoke a client": while the timer
\* is the only one to pull, a revoked client is out of the RU node's config for
\* good once a pull that began after the revocation is installed.
RevokedStaysOut == dest.clients \cap expelled = {}

\* docs/ARCHITECTURE.md:166 "New clients reach the RU node automatically via
\* rdda-pull.timer": once the store stays readable and both nodes share a pull
\* token, the RU node ends up running exactly what the store says, whatever was
\* lost, killed, refused or rebooted on the way.
EventuallySynced ==
    <>[](StoreReadable /\ ruToken = config.token) => <>[](running = Desired)

\* docs/ARCHITECTURE.md:166 "New clients reach the RU node automatically via
\* rdda-pull.timer": a client added later, and there for good, ends up in what
\* sing-box runs.  Nothing is said of tokens.
NewClientsReachRU ==
    \A id \in 2..MaxIds : <>[](StoreReadable /\ id \in Live) => <>[](id \in running.clients)
=============================================================================
