# A TLA+ model of RDDA

RDDA is a two-node proxy deployment run by one operator. The **EU node** keeps
all state in plain files under `/etc/rdda`, serves subscriptions and the control
channel over Cloudflare, and mails alerts. The **RU node** is the entry; it pulls
its configuration from the EU node, and sends health beats to it. Nearly
everything is a short-lived command of the one `rdda` binary, started by a
systemd timer or by the operator, that reads files, does something slow, and
writes files. There are few locks. What can go wrong is what two such commands,
or a command and the subscription server, do to each other's files, and what a
command leaves behind that is killed or fails half-way.

All paths below are relative to the repository's root.

## Inventory

| Component | State | Operations | Hard behaviour | What makes it correct |
|---|---|---|---|---|
| Rate limiter `internal/ratelimit` | buckets per client IP, time of the last sweep | `Allow` | lazy refill, eviction of idle buckets, boundaries | eviction and laziness are invisible; no key gets more than burst + rate x time; the map is bounded |
| State store `internal/state`, `internal/cli` | `config.yaml`, `clients/*.json`, owners | `init`, `client add/rm`, `SaveConfig`, `ChownTree` | writes in place, by root, in several steps; concurrent readers; killed commands | readers see nothing half-made as if it were whole |
| Subscription server `internal/subserver` | none of its own | `/sub/`, `/ru/config`, `/ru/health` | reads the store file by file while it changes | an answer is complete and fresh, or an error |
| Pull `internal/pull` | `singbox.json` on the RU node, what sing-box runs | fetch, validate, swap, reload | lost answers, a reload that fails after the swap, concurrent pulls, reboots | RU runs what the store says, in the end; revocations stick |
| Alerting `internal/alert` | `alert-state.json`, the operator's inbox | evaluate, mail, save | conditions change during a run; mails fail or are unsure; crash before the save; runs by hand as root | every lasting outage and recovery is mailed, once |
| Self-update `internal/selfupdate` | the binary, `.prev`, `.new` | update, revert, `--rollback` | crash or full disk between any two file operations; broken releases; umask | the node rests on a binary that runs |
| Health beat `internal/health` | `ru-health.json` | gather, probe, send | beat interval against staleness threshold | a live node is not reported down, a dead one is in time |
| Tunnel probe `internal/tunnelprobe` | a temporary process and port | probe | port race, a config sing-box does not run yet, timeouts | blocked is said of a blocked exit, or of a probe that could not run |
| Auto-heal `internal/heal` | systemd unit states | restart failed units | one failure must not stop the loop | every failed unit is tried |
| Backup and restore `internal/backup` | the store | archive, three-step replacement | crash between the steps; concurrent pulls | old state or new state, never a mixture |
| Cloudflare setup `internal/cli/cf.go`, `internal/cfsetup` | tunnel, DNS, `/etc/cloudflared`, `config.yaml` | idempotent bring-up | re-runs after a failure; stale config saved back | no service is enabled over a conflict; re-runs repair; what others saved stays |
| GeoIP update `internal/geoipupdate` | the rule-set file | fetch, validate, swap, reload | a failed reload | the data plane runs the current rule-set |
| Routing `internal/routing` | none | `Evaluate` | first match, suffixes, unknown matcher | agrees with a reference |
| Dest discovery `internal/dest` | none | concurrent probes, ranking | bounded concurrency | the nearest valid candidate |
| Verification, keys, QR, doctor, status, installer | - | - | - | cryptography, read-only reports, shell |

Interactions: the operator's commands write the store; the server reads it for
`rdda pull` (RU timer), which replaces `singbox.json` and restarts sing-box; the
RU node's beats go through the server into `ru-health.json`, which `rdda alert`
reads; `rdda update` replaces the binary that every timer and `rdda-sub` execute,
and afterwards gives the store's files back to the service user.

## Modules

| Module | Models | Notes |
|---|---|---|
| `TokenBucket` | abstract: one token bucket per key, for ever | what `RateLimit` implements |
| `RateLimit` | `internal/ratelimit` | `Allow` is one step: it holds the mutex throughout |
| `RateLimitWindow` | an observer of `RateLimit` | counts grants since an arbitrary moment |
| `RateLimitProofs` | the theorems | |
| `EuStore` | the store and the commands that write it | create, write and chown of a client file, truncate and write of the config, are steps of their own |
| `ConfigSync` | `/ru/config`, `pull.Run`, sing-box's restart | extends `EuStore`; `ReadDir` and each `ReadFile` are steps |
| `MCConfigSync` | constants of `ConfigSync` | |
| `ConfigSyncProofs` | the theorems about `ConfigSync` | |
| `CfSetup` | `rdda cf setup`: `internal/cli/cf.go`, `internal/cfsetup`, `internal/cfconfig` | each external command and each file is a step |
| `DestDiscovery` | `internal/dest` | the loop, the semaphore, each probe's end, the ranking |
| `EuSetup`, `MCEuSetup` | `CfSetup` and `DestDiscovery` together, with `rdda init` and `rdda dest discover --write` as writers of the same `config.yaml` | extends both |
| `EuSetupProofs` | the theorems about `EuSetup`, `CfSetup` and `DestDiscovery` | |
| `DataPlane` | on the RU node: `rdda pull`, `rdda route update-geoip`, `rdda heal`, systemd and sing-box | each file operation and each restart is a step |
| `DataPlaneProofs` | the theorems about `DataPlane` | |
| `HealthBeat`, `MCHealthBeat` | `rdda health`, `internal/tunnelprobe`, `/ru/health`, and how `rdda alert` judges a beat | in discrete time |
| `HealthBeatProofs` | the theorems about `HealthBeat` | |
| `Backup`, `MCBackup` | `internal/backup`, `rdda backup`, `rdda restore` | extends `EuStore`; each file operation is a step; a restore takes the operator's command slot |
| `BackupProofs` | the theorems about `Backup` | |
| `Alert` | `internal/alert` | each probe, each mail, the write and the rename are steps |
| `AlertProofs` | the theorems about `Alert` | |
| `SelfUpdate` | `internal/selfupdate` | each file operation, check and poll is a step |
| `SelfUpdateProofs` | the theorems about `SelfUpdate` | |

### How state and actions correspond to the code

*RateLimit.* Tokens are `float64` in the code; here they are counted in units of
1/`Cost` token and the clock in ticks, so `Rate < Cost` refills a fraction of a
token per tick. `Rate = 0` stands for `perSec <= 0`. `Allow` is written as the
code is: `Touched` (refill), `Kept` (sweep), `Charge`, on the bucket the code
holds a pointer to. Rounding of `float64` is not modelled.

*EuStore.* Identities - a client's UUID and token, a config's keys and pull token
- are fresh numbers. A file has an owner, because `rdda client add` runs as root
and the server as `rdda`. `os.WriteFile` is two steps (open with truncation,
write). One command of the operator runs at a time.

*ConfigSync.* `pull[p]` holds both the pull's progress and that of the handler
which answers it. The server's token check, its reads and each of its errors are
actions; every answer other than 200 is `refused`. `reload-or-restart` of
`rdda-singbox` is a restart (the unit has no `ExecReload`), and its `ExecStartPre`
may refuse to start it: `ReloadFails` may leave sing-box `Down`. `expelled` is an
observer's variable.

*Backup.* An archive is the config and the client files as `Create` found them,
whole or not: it parses nothing. A restore is `--force` on a node that is in use;
its refusals and its errors before the first rename change nothing and are left
out. `RemoveAll` removes one file per step and the directory last, `os.Rename`
refuses a directory that exists, and `OpenStore` is every other command, which
begins by making `clients/` if it is missing - in `EuStore`'s own commands that is
part of the action (`Opened`). A config renamed into place is root's until
`chownToRdda`, whose lexical walk reaches it after `clients/`. `must` and `before`
are observers' notes.

*Alert.* Condition messages are left out: no decision depends on them. A run's
record is its local variables. A file that root saved is mode 0600 and unreadable
to the timer's user, so `loadFiring` takes it for empty; the temporary file keeps
the owner it had. The write of the temporary file is one step: nobody reads it
before the rename, except a concurrent run that renames it early, which in the
code can also catch it truncated, and then reads as empty. `told` and `owed` are
the operator's inbox and a note of failed ALERTs, for the properties.

*SelfUpdate.* A binary is its release number, or `Torn`. A release is good, broken
(its `rdda version` fails) or dies (its `rdda-sub` exits seconds after it starts).
The download and its verification happen before any file is touched and either
succeed or `Refuse`. `cutShort` notes that an update crashed, or failed without a
revert, while `rdda.prev` was torn or the live binary was not yet checked.

*CfSetup, DestDiscovery, EuSetup.* `setup` and `edit` are the two commands' local
variables; `setup.at` is the command that `cf setup` runs next. `cloudflared` and
Cloudflare are external, modelled by what `ensureTunnel` and `ClassifyRouteDNS` can
see of them: a create that makes the tunnel (and may print no path for its
credentials, or fail although it made it), a list, a route that is added, refused
because of a record in the way, or - `Silent` - neither. A step that fails ends the
command where it is (`SetupFails`), and so does killing it. `config.yaml` is the
fields that these commands write: keys, borrowed hosts, Cloudflare block. `asked`,
`since` and `gone` are observers that never look at a config: the value each field
was last asked to have, taken from the commands' input; the fields that were saved
since `cf setup`, and `dest discover`, loaded theirs; and those whose asked value a
save has thereby overwritten. Candidates are
numbered; `Probe` maps what a site answers to a verdict as `Probe`, `realPage` and
`sameSite` do, and the round-trip time matters only if the site validates.
`SaveConfig` is one step here, its truncation is `EuStore`'s.

*DataPlane.* The EU's side of a pull is `ConfigSync`'s; here it is a revision
number. The rule-set's files are inodes, because an update that has
`geoip-ru.srs.tmp` open goes on writing to it after another has renamed it into
place. A start of sing-box reads both files, and needs `check-dest` to succeed and
the rule-set to load; one that fails leaves the unit activating or failed. (With
`RestartSec=3` and systemd's default start limit, a unit whose every start fails
might never reach `failed`; the model allows both.) heal looks at a unit and
restarts it in two steps. Its list is `rdda-singbox` and `rdda-nfqws`, the two
that an RU node has; the others are skipped there.

*HealthBeat.* Time is counted in units; here a unit is four minutes. `since` is the
time since `rdda health` was started, `saved.age` the age of `ru-health.json`. The
timer may fire at any time between its shortest and its longest interval and has to
by the longest (`Tick`). A beat sees at most one unit end: its probe takes at most
36 s, or 192 s if a process that never answers has taken its port, and its post 15.
`Lists` are the clients of successive `singbox.json`, by the order of their names:
the probe poses as the first client of the list on disk, and gets through only if
sing-box runs a list that has it. `lost`, `off`, `steady` and `beat.fell` are
observers.

## Runs

| Run | Bounds | Shows |
|---|---|---|
| `ratelimit` | 2 keys, burst 2 tokens, half a token per tick, sweep every 2 ticks, 7 ticks | type correctness, recency of the map, sustained rate (and the inductive form `WindowBudget` the proof uses), refinement of `TokenBucket` |
| `config_sync` | 2 names, 3 identities, 1 killed command, 1 fault, the timer's pull | complete and fresh answers, revocation, convergence |
| `config_sync_reinit` (violation) | as above, no killed command, no faults | after a second `rdda init` a client that was added never reaches the RU node |
| `backup` | 2 names, 2 identities, 1 killed command, 2 backups, 2 restores | an archive lacks no client that was there throughout; a restore that succeeds leaves exactly its archive, also after one that failed or was killed |
| `backup_failure` (violation) | 1 backup, 1 restore | a restore that fails has already deleted the clients |
| `alert` | 4 keys, 2 changes of conditions, 1 failed mail, 1 upset | file and inbox agree, no repeats, first outages reported, everything settles |
| `alert_dropped` (violation) | no upsets | a failed ALERT is dropped when its condition clears |
| `selfupdate` | 3 releases of every combination of qualities, both umasks, 2 faults, 1 rollback by hand, 2 polls, with and without `rdda-sub` | rests on a runnable binary, reverts restore, one generation kept, ends up current |
| `selfupdate_path` (violation) | hardened umask | not executable between rename and chmod |
| `eu_setup` | 2 hostnames, free or occupied, the tunnel there or not, 1 failed step, any number of re-runs, 1 other command, 3 candidates probed 2 at a time, 2 round-trip times | success means routed hostnames, except one for which `cloudflared` gave no clear answer; a saved setting stays unless a command that had loaded the file before saves after; the pick is the nearest; the pool never blocks; re-runs end with credentials staged and the service up |
| `data_plane` | 2 revisions, 2 rule-sets, 1 fault, timers and 1 run by hand at once | the timer keeps the rule-set whole, the node catches up, every failed unit comes back |
| `health_beat` | beats 1-3 units apart, threshold 5, evaluations 1-2 apart, 2 attempts, 2 lists, the RU's clock 3 units ahead, 2 changes of the world, 1 fault | outages told in bounded time, false alarms only with a named cause, no alarm stays |

Why the bounds are enough. A bucket is full again after four ticks and a sweep is
due after two, so seven ticks hold a bucket that is used, refilled, evicted and
recreated between two sweeps, and two keys one that is swept while another calls.
Two client names are what it takes to change one file while the other is read;
three identities allow a client to be revoked and replaced, or a client and a new
config. Two restores let one find what another that was killed or refused left
behind, and two backups let one overlap a restore. Two changes of conditions, from either a healthy node or one without a
beat, make a condition begin, end and begin again around one failed mail. Three
releases allow a bad one between two good ones, or two bad ones in a row. Three
candidates over two slots make the loop wait for a slot and two probes overlap;
one failed step is enough to leave `cf setup` half-done anywhere, and its re-runs
are not bounded. One fault at a time with two revisions and two rule-sets leaves
either file installed and not in use, and one run by hand overlaps the timer's in
every order. Four minutes divide the threshold of 20 and round the beat's longest
interval (10 minutes and the timer's accuracy of one) up to 12 and the evaluation's
to 8; two attempts are one that fails and goes on and one that decides.
`MaxTime`, `MaxIds`, `MaxKills`, `MaxBackups`, `MaxRestores`, `MaxFaults`, `MaxFlips`, `MaxFails`, `MaxUpsets`,
`MaxTag`, `MaxByHand`, `MaxEdits`, `MaxRevs` and `MaxSets` cap what would otherwise be unbounded; `MaxPolls` is 5 in
the code. Deadlock is not checked: an operator may do nothing, and the bounds let
each model come to rest.

Fairness. The timers fire for ever (`OnUnitActiveSec`), a command that is not
killed runs on, and systemd restarts a failed unit (`Restart=on-failure`, and
`rdda heal` past its start limit): these actions are weakly fair. Nothing makes
the operator act, so no command of theirs starts under fairness, and nothing makes
a fault happen. `EventuallySynced` therefore assumes that the store is left
readable in the end and that both nodes have the same token, `EventuallyCurrent`
that `rdda-update.timer`, which ships disabled, has been enabled, `RerunsSucceed`
that the operator keeps running `cf setup` and deletes the records in the way,
`CatchesUp` that the dest stays reachable and the rule-set's temporary file is one
that `rdda` may open, and `Settles` in `HealthBeat` that the node is up and its exit
works for good. In `HealthBeat` time passes (`WF` of `Tick`) but cannot pass a
timer's longest interval or a second unit's end within one beat, which is what
makes its deadlines deadlines. Weak fairness is
enough everywhere: a step that is due stays due until it is taken.

## Findings

* `rdda init` always makes a new pull token (`internal/cli/cli.go:125`). After a
  re-run, which `deploy/install-ru.md:56-58` tells the operator to do for a new
  SNI, every pull is refused until somebody provisions the RU node again, whereas
  `docs/ARCHITECTURE.md:166` promises that new clients reach it by themselves. In
  the counterexample the first client is removed, another is added and `init` is run
  again; RU goes on with a list that has the removed client and not the new one.
* "A `msmtp` outage delays but never drops a notification" (W4 design, line 54):
  a failed ALERT is dropped if its condition clears before the next run.
* "It unpacks to a temp dir first, so a failure leaves any existing state untouched"
  (`internal/backup/backup.go:57-58`): the config is replaced and the clients are
  deleted before the last rename, which fails if any command has opened the store,
  and thereby made `clients/`, in between.
* "The path always points at a complete, executable binary" (W5 design, line 58):
  the code renames first and changes the mode afterwards, the design the other way
  round. With a hardened umask `rdda-sub` cannot execute what is there in between.

Seen while modelling, and excluded by name from the properties that would
otherwise fail: a crash (or a mail that was delivered but reported as failed)
after a RESOLVED and before the save leaves the key in `alert-state.json`, and if
the condition is back by the next run its new outage is never mailed
(`FirstOutageReported` and `Settles` say so in their hypotheses); an update that
dies between the swap and the self-check is never checked again, because the next
one finds itself at the latest tag, and one that dies while it writes `rdda.prev`
leaves a torn file that `rdda update --rollback` installs unchecked (`cutShort`).
A backup taken while a file is being written archives it empty; a pull whose
handler loaded the config before a restore can list `clients/` while it is emptied
and take some clients off the RU node until the next pull. Neither contradicts
anything the repository says.

Seen while modelling, with a counterexample of the same models, and stated here
without a run of its own:

* Auto-rollback "on `rdda-sub` not `active` ~5 s after its restart" (W5 design,
  72-73): `waitActive` (`internal/selfupdate/selfupdate.go:207-215`) returns at the
  first look that finds the unit active, so an `rdda-sub` that exits a second later
  is kept.
* `internal/cli/route.go:63` calls `rdda route update-geoip` "safe to run by hand".
  The timer's run and the one by hand share `geoip-ru.srs.tmp`: one can rename what
  the other has just truncated, and an empty or mixed-up rule-set is live until the
  next update. `RuleSetIsWhole` therefore speaks of the timer alone.
* A run by hand that is killed before its rename leaves a temporary file of root's;
  the timer's runs fail from then on (`CatchesUp` excludes it by name).
* `internal/heal/heal.go:3` "It never touches an active unit": between `is-failed`
  and `restart` a pull can have brought the unit up, and it is restarted again.
* "So a silent `route dns` no-op can't ship a dead endpoint" (`internal/cli/cf.go:63-65`):
  an answer that is neither a confirmation nor a refusal is only printed, and the
  service is enabled (`cf.go:168`). `EnabledIsRouted` excepts such hostnames.
* `cf setup` saves the config that it loaded before the browser login; an edit from
  another terminal in between is lost. `EditsSurvive` says that nothing else is: what
  was saved before it started, or is saved after its own save, stays, and so does what
  is saved while `dest discover` probes, since that loads the config afterwards.
* `systemctl enable --now` does not restart a cloudflared that is running: after a
  re-run with other hostnames it keeps the old `config.yml` (`cf.go:257`). A create
  whose output names no credentials file stages none, without an error (`cf.go:220`),
  and the service is enabled all the same; a later re-run stages them, which
  `RerunsSucceed` asks for. A tunnel made on another machine makes every re-run fail
  (`cf.go:203`, `221`; `RerunsSucceed` excludes it).
* One lost beat is enough to call a live node down, since two intervals of up to 11
  minutes exceed the 20-minute threshold, although the W1 design (35-36) says that
  20 minutes tolerate "a missed beat". `DownHasACause` names the lost beat as a cause.
* "Blocked" is "a provable failure" (`internal/tunnelprobe/tunnelprobe.go:34-35`), but
  it is also what is reported when the throwaway client ended at once - its port was
  taken after `freePort` closed it, or its config was refused - or poses as a client
  that the running sing-box has not loaded yet. `BlockedHasACause` names all three.
  A fourth is left out of the model: a throwaway client that takes longer than all
  twelve attempts (`tunnelprobe.go:93-109`) to bind its port; `Attempt` assumes that
  it has by the last one.

## Proofs

Every invariant and every action property that a passing run checks is also a
theorem, for every value of the constants that the modules' named assumptions
admit. Each proof module defines the inductive invariant it needs (`IInv`, a
conjunction of named parts), shows that `Init` implies it and that every step keeps
it, one lemma or step per action, and derives the theorems from it. The bounds of
the runs (`MaxIds`, `MaxFaults`, ...) are constants like the others: the theorems
hold whatever they are, so for runs of any length.

`RateLimitProofs` proves for every set of keys, burst, rate, cost, sweep period
and length of time, `Rate = 0` included, from the constants' named assumptions:

| Theorem | States | Argument |
|---|---|---|
| `TypeCorrect` | `Spec => []TypeOK` | inductive by itself: refill is capped, a charge needs a token, and no bucket is dated in the future |
| `MapStaysRecent` | `Spec => []SweptMapIsRecent` | inductive with `TypeOK`: a sweep removes what breaks it, and later calls only move `last` forward |
| `EvictionIsLossless` | `Spec => LosslessEviction` | refinement: `Level` maps a missing bucket to a full one. The key lemma is that a refill equals the level, whatever the time since the last one, so a swept bucket and its successor have the same level |
| `WindowBudgetHolds` | `WSpec => []WindowBudget` | every token granted in a window has left the bucket, and only time refills it |
| `RateIsSustained` | `WSpec => []SustainedRate` | `SustainedRate` is not inductive: it says nothing of what a key could still spend. `WindowBudget` adds that - grants and the level together are paid for by the burst and the refill since the window opened - and is inductive with `TypeOK` |

`HealthBeatProofs` proves, for every choice of the timers' intervals, the threshold,
the number of attempts, the lists of clients and the skew of the clocks, from the
named assumptions - of which only `StaleAssumption`, that the threshold exceeds the
longest interval by the unit that a beat may take, is more than a range:

| Theorem | States | Argument |
|---|---|---|
| `BeatTypeCorrect` | `Spec => []TypeOK` | inductive by itself |
| `BlockedReadings` | `Spec => BlockedHasACause` | `ProbeInv`: while a probe is under way and the exit is down, that has been noted, and its client has been started. An attempt that gives up without such a note had an exit that worked, and so a client that ended or that sing-box does not know |
| `NoFalseDown` | `Spec => DownHasACause` | `GapInv`: while the node was never off and no beat was lost since the last that came, that one is no older than the start of `rdda health` that sent it - or, once the next has been started, than an interval and the end of the unit that one may see. `StaleAssumption` puts that below the threshold |
| `OutageTheorem` | `Spec => []OutageIsTold` | `OutageInv`: while the node is off its last beat ages as the outage does, and as long as it is not called down the outage was not older than the threshold at the last evaluation |
| `BlockTheorem` | `Spec => []BlockIsTold` | `BlockInv`: while the exit is down, a reading that does not say so was on its way when it went, and ages as the outage does; as long as nothing fires, the outage was at most a unit older than the threshold at the last evaluation |

`ConfigSyncProofs` proves, for every finite set of client names, every number of
pulls at once and every number of commands, killed commands and faults:

| Theorem | States | Argument |
|---|---|---|
| `SpecTypeOK` | `Spec => []TypeOK` | from `StoreInv`, `FilesInv`, `CmdInv` and `RuInv`: what a command that was cut short leaves in the store |
| `SpecListIsComplete` | `Spec => []ListIsComplete` | `CompleteInv`: a client that was there when the request began and is not revoked has its file still, and the request has read it or is going to. It needs that no two files are of one identity and that an identity is never made twice |
| `SpecListIsFresh` | `Spec => []ListIsFresh` | `FreshInv`: nothing a request has met so far is older than its start. The config may be truncated in between, so it also says of the one that a command is about to write that it is no older |
| `SpecRevokedStaysOut` | with one pull, `Spec => []RevokedStaysOut` | `TimerInv`: a request under way began after everyone who is known to be out was revoked |

`RevokedStaysOut` is proved from the hypothesis that `Pulls` has at most one
element. The property itself is about the timer alone: of two pulls at once the
later answer can be installed first, and the earlier one brings the revoked client
back until the next pull. The run checks it with one pull, too.

`BackupProofs` proves, for every finite set of names and every number of commands,
kills, backups and restores:

| Theorem | States | Argument |
|---|---|---|
| `SpecTypeOK` | `Spec => []TypeOK` | `StoreInv`, `FilesInv` and `AddInv`, what a command or a restore that was cut short leaves in the store, and `ArchiveInv`: an archive, and so what a restore unpacks, holds only files that are empty or whole |
| `SpecArchiveIsComplete` | `Spec => []ArchiveIsComplete` | `BackupInv`: what a running backup must archive and has not yet is in a file that it is still going to read |
| `SpecCompletedRestoreIsArchive` | `Spec => CompletedRestoreIsArchive` | `RestoreInv`: what a restore has put in place so far is the archive's but for the owner, whoever opened the store or changed its owner meanwhile. Its last step is told from that of a killed restore by the count of kills |

`AlertProofs` proves, for every finite set of units and every number of changes,
failed mails, crashes and runs by hand:

| Theorem | States | Argument |
|---|---|---|
| `SpecTypeOK` | `Spec => []TypeOK` | `RunInv`: what is due is new or over, and recorded only once its mail is dealt with. That the mail that is due is one of those that are rests on `FirstKeyIs`, about the order of the keys |
| `SpecSilencedWasTold` | `Spec => []SilencedWasTold` | `ToldInv`: the same of the temporary file and of what every run has read or will write, so also of two runs that share the files |
| `SpecFileIsInbox`, `SpecNoRepeats` | `Spec => []FileIsInbox`, `Spec => []NoRepeats` | `QuietInv`: undisturbed, the keys whose last mail is an ALERT are those the run has read, then those it will write and those whose RESOLVED is due, then those in the temporary file |

`SelfUpdateProofs` proves, for every number of releases of whatever quality, every
length of the wait, every umask and every number of crashes, failed writes and
rollbacks by hand:

| Theorem | States | Argument |
|---|---|---|
| `SpecTypeOK` | `Spec => []TypeOK` | with `TaskInv`, which stage belongs to which task: the path never loses its file |
| `SpecRestsOnRunnable` | `Spec => []RestsOnRunnable` | `RestInv`: unless a task was cut short in a critical stage, whatever is in `rdda.prev` runs, and so does the binary at the path in the stages that have not touched it |
| `SpecRevertRestores`, `SpecKeepsOneGeneration` | `Spec => RevertRestores`, `Spec => KeepsOneGeneration` | `PrevInv` and `BinInv`: which release is in `rdda.prev`, in the buffer, in `rdda.new` and at the path at each stage |

`DataPlaneProofs` proves, for every number of revisions, rule-sets and faults and
whoever runs `rdda pull` and `rdda route update-geoip`:

| Theorem | States | Argument |
|---|---|---|
| `SpecTypeOK` | `Spec => []TypeOK` | inductive with `ProcInv`: an update that writes has a file to write to, which no path need name any more |
| `SpecRuleSetIsWhole` | `Spec => []RuleSetIsWhole` | `AloneInv`: as long as nothing was run by hand, the timer's update is the only writer of the temporary file, which is empty before its write and what it fetched after it |

`EuSetupProofs` proves, for every set of pairs of hostnames, every number of
candidates, every size of the pool and every number of faults and edits:

| Theorem | States | Argument |
|---|---|---|
| `SpecTypeOK` | `Spec => []TypeOK` | `SetupInv`, `EditInv`, `CloudInv` and `PoolInv`, one for each of the parts that are composed |
| `SpecEnabledIsRouted` | `Spec => []EnabledIsRouted` | `RouteInv`: each hostname is still to be routed, routed, or noted as unclear or in conflict; success needs that none is in conflict |
| `SpecEditsSurvive` | `Spec => []EditsSurvive` | `SurviveInv`: what a command in flight has loaded (`Kept`) still has every value asked for, but for those saved since and those gone before. Lemma `SaveKeeps`: a save of such a config, edited, keeps this true of `config.yaml` and of what the other command has loaded |
| `SpecLoopNeverStuck` | `Spec => []LoopNeverStuck` | `PoolInv`: the slots that are taken are as many as the probes in flight |
| `SpecPickIsNearest` | `Spec => PickIsNearest` | lemma `RankingRanks`: `Ranking` is a permutation of the candidates in which each comes before those it ranks before. It exists because the place of a candidate - how many come before it - differs from candidate to candidate |

What the assumptions on the constants say beyond being numbers: `MaxIds`, `MaxRevs`
and `MaxSets` are not zero, since a node that is deployed has an identity, a
revision and a rule-set; hostnames are strings; `Names` and `Units` are finite,
like any directory and the list of units in the code.

Only model-checked: the liveness properties (`EventuallySynced`,
`FirstOutageReported`, both `Settles`, `EventuallyCurrent`, `RerunsSucceed`,
`CatchesUp` and `EveryUnitIsHealed`), which are out of the prover's reach together
with `ENABLED`. Nothing is proved about `float64` arithmetic.

## Not modelled

* Routing (`internal/routing`): a pure function that answers `rdda route test`;
  sing-box decides in operation, and the tests tabulate it.
* Doctor and status: read-only reports over state that is modelled elsewhere.
* Release verification, keys, QR images, the passphrase prompt, `shellword`:
  cryptography, randomness and text. In `SelfUpdate` a verification is a refusal or
  not.
* `/sub/` and the rendering of a client's subscription: it reads one client and one
  config, and no promise of the repository relates the two.
* Two `rdda client add` for one name at once, two updates of the binary at once, a
  backup's or a pull's reads during a restore: races that the code does not guard
  against and the repository says nothing about. They are listed as hazards.
* Two `/ru/health` posts at once share `ru-health.json.tmp`; there is one sender,
  which waits for its answer.
* The installer, a shell script of operating-system commands.

## Plan

What is left, most important first.

1. Theorems beyond what the runs check: the refinement of an abstract
   specification for the pull and for the alerts, as `TokenBucket` is for the
   limiter, and what of `RevokedStaysOut` remains true with several pulls.
2. A second command slot in `EuStore`, for the race of `client add` with itself.
3. `Backup` composed with `ConfigSync`: a pull that reads during a restore.
