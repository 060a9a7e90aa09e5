------------------------------ MODULE EuSetup ------------------------------
(***************************************************************************)
(* Setting up an EU node: rdda cf setup, and from another terminal rdda    *)
(* init or rdda dest discover --write, all of which write config.yaml.     *)
(* Both of the latter probe for a REALITY destination from this node       *)
(* first, unless init is given one.  A save writes the whole config, as    *)
(* its command loaded it: cf setup before a browser login and half a dozen *)
(* external commands, dest discover just before.                           *)
(***************************************************************************)
EXTENDS CfSetup, DestDiscovery

CONSTANT MaxEdits  \* bound on the commands other than cf setup

ASSUME MaxEditsAssumption == MaxEdits \in Nat

VARIABLES
    edit,   \* the other command, and what it knows so far
    edits   \* how many there were

editVars == <<edit, edits>>
vars == <<cfVars, poolVars, editVars>>

Selections == {{"client"}, {"tunnel"}, Hops}   \* --which
Pinned == Candidates + 1                       \* a host the operator names
NoEdit == [at |-> "idle", by |-> "", which |-> {}, pick |-> NoHost, loaded |-> <<>>]

\* rdda init has been run, with a host pinned, with Cloudflare's hostnames or
\* without.
Init ==
    /\ CfInit
    /\ \E hosts \in HostPairs \cup {NoHosts} :
          config = [keys |-> 1, dest |-> [h \in Hops |-> Pinned],
                    hosts |-> hosts, tunnel |-> NoTunnel]
    /\ asked = [f \in Fields |-> Field(config, f)]
    /\ since = [c \in Loaders |-> {}]
    /\ gone = {}
    /\ PoolIdle
    /\ edit = NoEdit
    /\ edits = 0

-----------------------------------------------------------------------------
\* rdda dest discover --write, for some of the hops.
StartDest(which) ==
    /\ edit.at = "idle"
    /\ edits < MaxEdits
    /\ edits' = edits + 1
    /\ edit' = [NoEdit EXCEPT !.at = "discover", !.by = "dest", !.which = which]
    /\ StartDiscover
    /\ UNCHANGED cfVars

\* rdda init over an existing config: for the hops whose host is not pinned it
\* discovers one, once; when all are pinned, none.
StartInit(unpinned) ==
    /\ edit.at = "idle"
    /\ edits < MaxEdits
    /\ edits' = edits + 1
    /\ edit' = [NoEdit EXCEPT !.at = IF unpinned = {} THEN "save" ELSE "discover",
                              !.by = "init", !.which = unpinned]
    /\ IF unpinned = {} THEN UNCHANGED poolVars ELSE StartDiscover
    /\ UNCHANGED cfVars

\* No candidate validated: both commands fail closed.
Pick ==
    /\ edit.at = "discover"
    /\ AllProbed
    /\ edit' = IF Best = NoHost THEN NoEdit
               ELSE [edit EXCEPT !.at = IF edit.by = "dest" THEN "load" ELSE "save",
                                 !.pick = Best]
    /\ PoolReset
    /\ UNCHANGED <<cfVars, edits>>

\* dest discover loads the config only now that it has probed.
LoadForDest ==
    /\ edit.at = "load"
    /\ edit' = [edit EXCEPT !.at = "save", !.loaded = config]
    /\ Load("dest")
    /\ UNCHANGED <<setup, cloudVars, hostVars, faults, poolVars, edits>>

\* Mutant: the hop that was not asked for falls back to the default.
ApplyDestWhole(c) == [c EXCEPT !.dest = [h \in Hops |-> IF h \in edit.which THEN edit.pick ELSE NoHost]]

\* applyDest: the borrowed host of the chosen hops.
ApplyDest(c) == [c EXCEPT !.dest = [h \in Hops |-> IF h \in edit.which THEN edit.pick ELSE @[h]]]

SaveDest ==
    /\ edit.at = "save" /\ edit.by = "dest"
    /\ Save(ApplyDest(edit.loaded), [f \in edit.which |-> <<edit.pick>>], since["dest"])
    /\ edit' = NoEdit
    /\ UNCHANGED <<setup, cloudVars, hostVars, faults, poolVars, edits>>

\* init writes a new config, whatever was there and without loading it: new keys,
\* and the Cloudflare block that its flags say.
SaveInit(hosts) ==
    /\ edit.at = "save" /\ edit.by = "init"
    /\ LET new == [keys |-> 2, dest |-> [h \in Hops |-> IF h \in edit.which THEN edit.pick ELSE Pinned],
                   hosts |-> hosts, tunnel |-> NoTunnel]
       IN  Save(new, [f \in Fields |-> Field(new, f)], {})
    /\ edit' = NoEdit
    /\ UNCHANGED <<setup, cloudVars, hostVars, faults, poolVars, edits>>

\* The other command is killed.
KillEdit ==
    /\ edit.at # "idle"
    /\ Fault
    /\ edit' = NoEdit
    /\ PoolReset
    /\ UNCHANGED <<configVars, setup, cloudVars, hostVars, edits>>

EditStep ==
    \/ Pick \/ LoadForDest \/ SaveDest
    \/ \E hosts \in HostPairs \cup {NoHosts} : SaveInit(hosts)

Next ==
    \/ CfNext /\ UNCHANGED <<poolVars, editVars>>
    \/ PoolStep /\ UNCHANGED <<cfVars, editVars>>
    \/ \E which \in Selections : StartDest(which)
    \/ \E unpinned \in SUBSET Hops : StartInit(unpinned)
    \/ EditStep
    \/ KillEdit

Spec == Init /\ [][Next]_vars

\* A cf setup that has started goes on unless a step fails.  The operator need
\* not start one.
FairSpec == Spec /\ WF_vars(SetupStep /\ UNCHANGED <<poolVars, editVars>>)

-----------------------------------------------------------------------------
TypeOK ==
    /\ CfTypeOK /\ PoolTypeOK
    /\ config.keys \in 1..2 /\ config.dest \in [Hops -> 1..Pinned]
    /\ config.hosts \in HostPairs \cup {NoHosts} /\ config.tunnel \in {NoTunnel, TheTunnel}
    /\ edit.at \in {"idle", "discover", "load", "save"}
    /\ edit.at = "discover" <=> looking
    /\ edits \in 0..MaxEdits

\* cf.go:87-88 "DNS routing is verified (not assumed) against this tunnel": when
\* cf setup reports success, whatever failed in this run or in an earlier one,
\* each of its hostnames is routed to its tunnel - except one for which
\* cloudflared itself gave no clear answer.
EnabledIsRouted ==
    setup.at = "up" => \A i \in 1..2 : LET h == setup.hosts[i]
                                       IN  dns[h] = setup.id \/ h \in setup.unclear

\* cli/dest.go:48-49 "the REALITY keys are preserved; only the borrowed host
\* changes", cf.go:142: what a command has saved stays in config.yaml until a
\* command is asked to change it, whichever commands run at the same time and
\* whichever of them are cut short - unless one that had loaded the file before
\* saves after.  So cf setup can lose what is saved between its start and its
\* save, but dest discover nothing of what is saved while it probes.
EditsSurvive == \A f \in Fields \ gone : Field(config, f) = asked[f]

\* dest/dest.go:199-201: however the probes overlap, what gets picked is the
\* nearest of all candidates that validated.
PickIsNearest ==
    [][Pick /\ edit'.pick # NoHost =>
          /\ inFlight = {} /\ results[edit'.pick].ok
          /\ \A i \in Hosts : results[i].ok => results[edit'.pick].rtt <= results[i].rtt]_vars

\* dest/dest.go:207-215: the loop never waits for a slot that nobody holds and nobody will
\* give back, whether the probes before it validated or failed.
LoopNeverStuck == looking /\ next <= Candidates /\ inFlight = {} => slots > 0

\* cf.go:87 "idempotent": whatever an earlier run left half-done, an operator
\* who runs cf setup again and again, and deletes the records that are in the
\* way, gets a running tunnel whose credentials are staged - unless the tunnel
\* was made on another machine.
RerunsSucceed ==
    /\ []<>(setup.at = "login")
    /\ <>[](tunnel \in home /\ \A h \in Hostnames : dns[h] # Foreign)
    => <>(service # Off /\ service.id \in etc.creds)
=============================================================================
