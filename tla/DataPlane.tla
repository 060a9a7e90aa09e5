----------------------------- MODULE DataPlane -----------------------------
(***************************************************************************)
(* The data plane of the RU node and all who write its files or restart    *)
(* it: rdda pull (internal/pull) installs the config, rdda route           *)
(* update-geoip (internal/geoipupdate, internal/cli/route.go) the geoip    *)
(* rule-set, both from a timer as the user rdda or by hand as root, and    *)
(* rdda heal (internal/heal) restarts the units that systemd gave up on.   *)
(* sing-box reads both files when it starts, and only then.                *)
(*                                                                         *)
(* The EU's side of a pull is ConfigSync's; here it is a revision.         *)
(***************************************************************************)
EXTENDS Integers, Sequences, FiniteSets, FiniteSetsExt

CONSTANTS
    Hands,     \* who runs pull and update-geoip: "timer", and "hand" for root
    MaxRevs,   \* bound on the revisions of the EU's config
    MaxSets,   \* bound on the versions of the upstream rule-set
    MaxFaults, \* bound on everything that fails
    MaxByHand  \* bound on the runs by hand

ASSUME HandsAssumption == Hands \subseteq {"timer", "hand"}
ASSUME PlaneBoundsAssumption ==
    /\ MaxRevs \in Nat \ {0} /\ MaxSets \in Nat \ {0}
    /\ MaxFaults \in Nat /\ MaxByHand \in Nat

VARIABLES
    eu,        \* the revision /ru/config answers with
    upstream,  \* the version of the rule-set at its URL
    reach,     \* check-dest reaches the REALITY dest of the config
    conf,      \* /etc/rdda/singbox.json: its revision
    bytes,     \* for each inode, the content of the file
    owner,     \* ... and its owner
    path,      \* the inode of geoip-ru.srs
    tmp,       \* the inode of geoip-ru.srs.tmp, or NoFile
    unit,      \* the units, as systemd sees them
    running,   \* what sing-box was last started with
    pull,      \* for each hand its rdda pull
    geo,       \* for each hand its rdda route update-geoip
    heal,      \* rdda heal: the units it has still to look at
    byHand, faults

world == <<eu, upstream, reach>>
disk == <<conf, bytes, owner, path, tmp>>
units == <<unit, running>>
procs == <<pull, geo, heal>>
counts == <<byHand, faults>>
vars == <<world, disk, units, procs, counts>>

Singbox == "rdda-singbox"
UnitOrder == <<Singbox, "rdda-nfqws">>
Units == {UnitOrder[i] : i \in DOMAIN UnitOrder}

\* Contents that are no rule-set: nothing, two of them mixed up, an error page,
\* and something of the right size that sing-box refuses to load.
Nothing == 0
Torn == -1
Page == -2
Bogus == -3
Versions == 1..MaxSets
NoFile == 0
Inodes == 1..(2 + Cardinality(Hands))
NoGeo == [at |-> "idle", body |-> Nothing, fd |-> NoFile]
NoPull == [at |-> "idle", rev |-> 0]
HealIdle == [at |-> "look", todo |-> UnitOrder]   \* about to look at the first unit

Init ==
    /\ eu = 1 /\ upstream = 1 /\ reach \in BOOLEAN
    /\ conf = 1
    /\ bytes = [i \in Inodes |-> IF i = 1 THEN 1 ELSE Nothing]
    /\ owner = [i \in Inodes |-> "rdda"]
    /\ path = 1 /\ tmp = NoFile
    /\ unit = [u \in Units |-> "active"]
    /\ running = [rev |-> 1, set |-> 1]
    /\ pull = [h \in Hands |-> NoPull]
    /\ geo = [h \in Hands |-> NoGeo]
    /\ heal = HealIdle
    /\ byHand = 0 /\ faults = 0

Fault == faults < MaxFaults /\ faults' = faults + 1
User(h) == IF h = "hand" THEN "root" ELSE "rdda"
ByHand(h) == IF h = "hand" THEN byHand < MaxByHand /\ byHand' = byHand + 1 ELSE UNCHANGED byHand

-----------------------------------------------------------------------------
(***************************************************************************)
(* The world: the EU's config changes, upstream publishes, and a dest that *)
(* was lost while sing-box ran becomes reachable again.                    *)
(***************************************************************************)
NewRevision ==
    /\ eu < MaxRevs
    /\ eu' = eu + 1
    /\ UNCHANGED <<upstream, reach, disk, units, procs, counts>>

Publish ==
    /\ upstream < MaxSets
    /\ upstream' = upstream + 1
    /\ UNCHANGED <<eu, reach, disk, units, procs, counts>>

DestFound ==
    /\ ~reach
    /\ reach' = TRUE
    /\ UNCHANGED <<eu, upstream, disk, units, procs, counts>>

-----------------------------------------------------------------------------
(***************************************************************************)
(* A start of sing-box: ExecStartPre runs check-dest on the config, and    *)
(* sing-box loads both files.  If either fails systemd tries again, until  *)
(* the start limit makes the unit failed.                                  *)
(***************************************************************************)
Startable == reach /\ bytes[path] \in Versions

StartSingbox ==
    IF Startable
    THEN /\ unit' = [unit EXCEPT ![Singbox] = "active"]
         /\ running' = [rev |-> conf, set |-> bytes[path]]
    ELSE /\ \E s \in {"activating", "failed"} : unit' = [unit EXCEPT ![Singbox] = s]
         /\ UNCHANGED running

\* systemctl reload-or-restart rdda-singbox, which the start limit may refuse
\* for a unit that has failed.
ReloadSingbox ==
    \/ StartSingbox
    \/ unit[Singbox] = "failed" /\ UNCHANGED units

\* Restart=on-failure.
AutoRestart ==
    /\ unit[Singbox] = "activating"
    /\ StartSingbox
    /\ UNCHANGED <<world, disk, procs, counts>>

\* A unit dies, beyond its start limit.
UnitDies(u) ==
    /\ Fault
    /\ unit[u] = "active"
    /\ unit' = [unit EXCEPT ![u] = "failed"]
    /\ UNCHANGED <<world, disk, running, procs, byHand>>

-----------------------------------------------------------------------------
(***************************************************************************)
(* rdda pull, in ConfigSync's terms: an answer, its install, the restart.  *)
(***************************************************************************)
PullAnswer(h) ==
    /\ pull[h].at = "idle"
    /\ ByHand(h)
    /\ pull' = [pull EXCEPT ![h] = [at |-> "answered", rev |-> eu]]
    /\ UNCHANGED <<world, disk, units, geo, heal, faults>>

\* Mutant: an answer equal to what is installed is not worth a restart.
PullInstallSkipsSame(h) ==
    /\ pull[h].at = "answered"
    /\ conf' = pull[h].rev
    /\ pull' = [pull EXCEPT ![h] = IF conf = pull[h].rev THEN NoPull ELSE [@ EXCEPT !.at = "installed"]]
    /\ UNCHANGED <<world, bytes, owner, path, tmp, units, geo, heal, counts>>

PullInstall(h) ==
    /\ pull[h].at = "answered"
    /\ conf' = pull[h].rev
    /\ pull' = [pull EXCEPT ![h].at = "installed"]
    /\ UNCHANGED <<world, bytes, owner, path, tmp, units, geo, heal, counts>>

PullReload(h) ==
    /\ pull[h].at = "installed"
    /\ ReloadSingbox
    /\ pull' = [pull EXCEPT ![h] = NoPull]
    /\ UNCHANGED <<world, disk, geo, heal, counts>>

\* It is killed, or sudo or the network fails it.
PullFails(h) ==
    /\ pull[h].at # "idle"
    /\ Fault
    /\ pull' = [pull EXCEPT ![h] = NoPull]
    /\ UNCHANGED <<world, disk, units, geo, heal, byHand>>

-----------------------------------------------------------------------------
(***************************************************************************)
(* rdda route update-geoip.                                                *)
(***************************************************************************)
Geo(h, to) == geo' = [geo EXCEPT ![h] = to]

\* Mutant: any body of some size will do.
ValidAnything(body) == {TRUE}

\* An error page, or less than a rule-set's size, is turned away by its looks.
ValidateSRS(body) == body \notin {Nothing, Page}

\* validateGeoIP: besides, sing-box turns away what it cannot load - if the check
\* has a sing-box and a temporary file to run it on.
Valid(body) ==
    IF ~ValidateSRS(body) THEN {FALSE} ELSE IF body \in Versions THEN {TRUE} ELSE BOOLEAN

\* fetchWithRetry has, after up to four attempts, the rule-set or a body with
\* status 200 that is none; what is not valid is skipped, and nothing touched.
GeoFetch(h) ==
    /\ geo[h].at = "idle"
    /\ ByHand(h)
    /\ \/ UNCHANGED faults /\ Geo(h, [NoGeo EXCEPT !.at = "open", !.body = upstream])
       \/ /\ Fault
          /\ \E body \in {Page, Bogus} :
                TRUE \in Valid(body) /\ Geo(h, [NoGeo EXCEPT !.at = "open", !.body = body])
    /\ UNCHANGED <<world, disk, units, pull, heal>>

\* atomicWrite: os.WriteFile opens geoip-ru.srs.tmp, truncating the one that is
\* there or making one; one of root's is not rdda's to open.
Open(i, h) ==
    /\ bytes' = [bytes EXCEPT ![i] = Nothing]
    /\ owner' = IF i = tmp THEN owner ELSE [owner EXCEPT ![i] = User(h)]
    /\ tmp' = i
    /\ Geo(h, [geo[h] EXCEPT !.at = "write", !.fd = i])
    /\ UNCHANGED <<conf, path>>

Unused == Inodes \ ({path, tmp} \cup {geo[h].fd : h \in Hands})

\* What is installed already is left alone.
GeoOpen(h) ==
    /\ geo[h].at = "open"
    /\ LET same == bytes[path] = geo[h].body
           mine == tmp # NoFile => User(h) = "root" \/ owner[tmp] = "rdda"
       IN  CASE ~same /\ mine -> Open(IF tmp = NoFile THEN Min(Unused) ELSE tmp, h)
             [] OTHER -> Geo(h, NoGeo) /\ UNCHANGED disk
    /\ UNCHANGED <<world, units, pull, heal, counts>>

\* Over another's bytes a shorter body leaves the other's tail.
GeoWrite(h) ==
    /\ geo[h].at = "write"
    /\ LET old == bytes[geo[h].fd]
       IN  \E new \in IF old \in {Nothing, geo[h].body} THEN {geo[h].body} ELSE {geo[h].body, Torn} :
              bytes' = [bytes EXCEPT ![geo[h].fd] = new]
    /\ Geo(h, [geo[h] EXCEPT !.at = "rename"])
    /\ UNCHANGED <<world, conf, owner, path, tmp, units, pull, heal, counts>>

\* The rename takes whatever bears the name; if nothing does, it is an error.
\* chownToRDDA follows, which only root's run needs.
GeoRename(h) ==
    /\ geo[h].at = "rename"
    /\ IF tmp = NoFile
       THEN Geo(h, NoGeo) /\ UNCHANGED <<bytes, owner, path, tmp>>
       ELSE /\ path' = tmp
            /\ tmp' = NoFile
            /\ bytes' = [bytes EXCEPT ![path] = Nothing]   \* the file it replaces is gone
            /\ owner' = [owner EXCEPT ![tmp] = "rdda"]
            /\ Geo(h, [geo[h] EXCEPT !.at = "reload", !.fd = NoFile])
    /\ UNCHANGED <<world, conf, units, pull, heal, counts>>

GeoReload(h) ==
    /\ geo[h].at = "reload"
    /\ ReloadSingbox
    /\ Geo(h, NoGeo)
    /\ UNCHANGED <<world, disk, pull, heal, counts>>

\* It is killed, or the disk or sudo fails it.
GeoFails(h) ==
    /\ geo[h].at # "idle"
    /\ Fault
    /\ Geo(h, NoGeo)
    /\ UNCHANGED <<world, disk, units, pull, heal, byHand>>

-----------------------------------------------------------------------------
(***************************************************************************)
(* rdda heal: each unit in turn, is-failed and then reset-failed, restart. *)
(***************************************************************************)
HealOn(rest) == IF rest = <<>> THEN HealIdle ELSE [at |-> "look", todo |-> rest]

HealLook ==
    /\ heal.at = "look"
    /\ heal' = IF unit[Head(heal.todo)] = "failed" THEN [heal EXCEPT !.at = "restart"]
               ELSE HealOn(Tail(heal.todo))
    /\ UNCHANGED <<world, disk, units, pull, geo, counts>>

\* Mutant: the first unit that will not restart ends the run.
HealNextIfUp(u) == IF unit'[u] = "active" THEN HealOn(Tail(heal.todo)) ELSE HealIdle

\* A restart that fails does not stop the loop.
HealNext(u) == HealOn(Tail(heal.todo))

HealRestart ==
    /\ heal.at = "restart"
    /\ LET u == Head(heal.todo)
       IN  /\ IF u = Singbox THEN StartSingbox
              ELSE unit' = [unit EXCEPT ![u] = "active"] /\ UNCHANGED running
           /\ heal' = HealNext(u)
    /\ UNCHANGED <<world, disk, pull, geo, counts>>

-----------------------------------------------------------------------------
PullStep(h) == PullAnswer(h) \/ PullInstall(h) \/ PullReload(h)
GeoStep(h) == GeoFetch(h) \/ GeoOpen(h) \/ GeoWrite(h) \/ GeoRename(h) \/ GeoReload(h)
HealStep == HealLook \/ HealRestart

Next ==
    \/ NewRevision \/ Publish \/ DestFound
    \/ \E h \in Hands : PullStep(h) \/ PullFails(h) \/ GeoStep(h) \/ GeoFails(h)
    \/ HealStep
    \/ AutoRestart
    \/ \E u \in Units : UnitDies(u)

Spec == Init /\ [][Next]_vars

(***************************************************************************)
(* The three timers fire for ever and what has started goes on; systemd    *)
(* restarts a unit that is activating.  Nobody makes the operator run      *)
(* anything, and the dest need not come back.                              *)
(***************************************************************************)
FairSpec ==
    /\ Spec
    /\ \A h \in Hands : /\ WF_vars(PullStep(h) /\ (h = "timer" \/ pull[h].at # "idle"))
                        /\ WF_vars(GeoStep(h) /\ (h = "timer" \/ geo[h].at # "idle"))
    /\ WF_vars(HealStep)
    /\ WF_vars(AutoRestart)

-----------------------------------------------------------------------------
TypeOK ==
    /\ eu \in 1..MaxRevs /\ upstream \in Versions /\ reach \in BOOLEAN
    /\ conf \in 1..MaxRevs
    /\ bytes \in [Inodes -> Versions \cup {Nothing, Torn, Bogus}]
    /\ path \in Inodes /\ tmp \in (Inodes \cup {NoFile}) \ {path}
    /\ unit \in [Units -> {"active", "activating", "failed"}]
    /\ running \in [rev : 1..MaxRevs, set : Versions]
    /\ \A h \in Hands : geo[h].at = "write" => geo[h].fd \in Inodes
    /\ byHand \in 0..MaxByHand /\ faults \in 0..MaxFaults

\* geoipupdate.go:3-5 "it never leaves the node without geoip data": as long as
\* only the timer updates it, the rule-set is neither torn nor missing nor an
\* error page, whatever was fetched and wherever an update was cut short.
RuleSetIsWhole == byHand = 0 => bytes[path] \in Versions \cup {Bogus}

\* docs/ARCHITECTURE.md:166, geoipupdate.go:1-5: after whatever failed, and
\* though an update whose reload failed is never repeated, the data plane ends
\* up running the current config with the current rule-set - unless its dest
\* stays out of reach, or a run by hand left a temporary file that rdda may not
\* open.
CatchesUp ==
    <>[](reach /\ (tmp = NoFile \/ owner[tmp] = "rdda"))
        => <>[](unit[Singbox] = "active" /\ running = [rev |-> eu, set |-> upstream])

\* heal.go:28-29 "A restart failure is surfaced in err but does not stop the
\* loop": a unit that failed is brought back even while another cannot be.
EveryUnitIsHealed == \A u \in Units \ {Singbox} : unit[u] = "failed" ~> unit[u] = "active"
=============================================================================
