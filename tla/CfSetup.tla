------------------------------ MODULE CfSetup ------------------------------
(***************************************************************************)
(* rdda cf setup (internal/cli/cf.go, internal/cfsetup, internal/cfconfig):*)
(* the Cloudflare bring-up of the EU node.  It drives cloudflared, whose   *)
(* answers may be lost or say nothing, stages /etc/cloudflared, saves the  *)
(* config it loaded at the start with a new Cloudflare block, and enables  *)
(* the service unless a DNS record is in the way.  It may fail or be       *)
(* killed at any step, and the operator runs it again.                     *)
(*                                                                         *)
(* Left out: --dry-run, which changes nothing; the best-effort useradd and *)
(* chown; the ports of config.yml.  SaveConfig is one step here, its       *)
(* truncation is EuStore's.                                                *)
(***************************************************************************)
EXTENDS Integers, Sequences, SequencesExt

CONSTANTS
    HostPairs,  \* pairs <<tunnel host, sub host>> the operator may ask for
    MaxFaults,  \* bound on the steps that fail
    Silent      \* cloudflared may leave a foreign record alone without a word

ASSUME HostPairsAssumption == HostPairs \subseteq STRING \X STRING
ASSUME CfBoundsAssumption == MaxFaults \in Nat /\ Silent \in BOOLEAN

VARIABLES
    config,   \* config.yaml: keys, the borrowed host of each hop, Cloudflare block
    asked,    \* observer: for each of its fields, the value last asked for
    since,    \* observer: the fields saved since cf setup, or dest discover, loaded it
    gone,     \* observer: the fields whose value a stale save has overwritten
    setup,    \* rdda cf setup: how far it is, and its local variables
    tunnel,   \* the account's tunnel of this name, or NoTunnel
    dns,      \* for each hostname its record: a tunnel, NoRecord or Foreign
    cert,     \* ~/.cloudflared/cert.pem exists
    home,     \* tunnels whose credentials are in ~/.cloudflared
    etc,      \* /etc/cloudflared: config.yml, and the credentials next to it
    service,  \* the config.yml that cloudflared was started with, or Off
    faults

configVars == <<config, asked, since, gone>>
cloudVars == <<tunnel, dns, cert, home>>
hostVars == <<etc, service>>
cfVars == <<configVars, setup, cloudVars, hostVars, faults>>

Hops == {"client", "tunnel"}
Fields == {"keys", "cloudflare"} \cup Hops
Loaders == {"cf", "dest"}  \* the commands that save a config they have loaded

\* A field of config.yaml: its keys, its Cloudflare block, or the borrowed host of
\* a hop.
Field(c, f) ==
    CASE f = "keys" -> <<c.keys>>
      [] f = "cloudflare" -> <<c.hosts, c.tunnel>>
      [] OTHER -> <<c.dest[f]>>

Hostnames == UNION {ToSet(p) : p \in HostPairs}
NoHosts == <<>>
NoTunnel == 0
TheTunnel == 1  \* cloudflared refuses a second tunnel of the same name
NoRecord == -1
Foreign == -2
Off == [id |-> NoTunnel, hosts |-> NoHosts]
NoSetup == [at |-> "idle", loaded |-> <<>>, hosts |-> NoHosts, id |-> NoTunnel,
            creds |-> "", todo |-> NoHosts, conflicts |-> {}, unclear |-> {}]

\* A tunnel that exists already was made on another machine.
CfInit ==
    /\ setup = NoSetup
    /\ tunnel \in {NoTunnel, TheTunnel}
    /\ dns \in [Hostnames -> {NoRecord, Foreign}]
    /\ cert = FALSE
    /\ home = {}
    /\ etc = [yml |-> Off, creds |-> {}]
    /\ service = Off
    /\ faults = 0

Fault == faults < MaxFaults /\ faults' = faults + 1

(***************************************************************************)
(* SaveConfig.  The observers note the values that the command's input asks*)
(* for, and that what others had saved since the command loaded its config,*)
(* the late fields, has been overwritten with what was there before.  They *)
(* look at no config.                                                      *)
(***************************************************************************)
Save(edited, asks, late) ==
    /\ config' = edited
    /\ asked' = [f \in Fields |-> IF f \in DOMAIN asks THEN asks[f] ELSE asked[f]]
    /\ since' = [c \in Loaders |-> since[c] \cup DOMAIN asks]
    /\ gone' = (gone \cup late) \ DOMAIN asks

\* LoadConfig, by cf setup or dest discover: nobody has saved since.
Load(c) ==
    /\ since' = [since EXCEPT ![c] = {}]
    /\ UNCHANGED <<config, asked, gone>>

-----------------------------------------------------------------------------
\* LoadConfig; the flags override the hostnames init stored, and without
\* either the command refuses.
StartSetup(flags) ==
    /\ setup.at = "idle"
    /\ LET hosts == IF flags = NoHosts THEN config.hosts ELSE flags
       IN  /\ hosts # NoHosts
           /\ setup' = [NoSetup EXCEPT !.at = "login", !.loaded = config, !.hosts = hosts]
    /\ Load("cf")
    /\ UNCHANGED <<cloudVars, hostVars, faults>>

\* Skipped if the origin cert exists already.
Login ==
    /\ setup.at = "login"
    /\ cert' = TRUE
    /\ setup' = [setup EXCEPT !.at = "create"]
    /\ UNCHANGED <<configVars, tunnel, dns, home, hostVars, faults>>

\* cloudflared tunnel create succeeds, and ParseCreate finds the id in its
\* output, with or without the path of the credentials.
CreateTunnel ==
    /\ setup.at = "create"
    /\ tunnel = NoTunnel
    /\ tunnel' = TheTunnel
    /\ home' = home \cup {TheTunnel}
    /\ \/ setup' = [setup EXCEPT !.at = "stage", !.id = TheTunnel, !.creds = "home"]
          /\ UNCHANGED faults
       \/ Fault /\ setup' = [setup EXCEPT !.at = "stage", !.id = TheTunnel]
       \/ Fault /\ setup' = [setup EXCEPT !.at = "list"]
    /\ UNCHANGED <<configVars, dns, cert, hostVars>>

\* Mutant: a create that is refused ends the command.
CreateRefusedEnds ==
    /\ setup.at = "create"
    /\ tunnel # NoTunnel
    /\ setup' = NoSetup
    /\ UNCHANGED <<configVars, cloudVars, hostVars, faults>>

\* It fails, because the tunnel exists or otherwise.
CreateRefused ==
    /\ setup.at = "create"
    /\ IF tunnel = NoTunnel THEN Fault ELSE UNCHANGED faults
    /\ setup' = [setup EXCEPT !.at = "list"]
    /\ UNCHANGED <<configVars, cloudVars, hostVars>>

\* cloudflared tunnel list, FindTunnelID: the credentials of a tunnel that is
\* reused are expected where create left them.
ListTunnels ==
    /\ setup.at = "list"
    /\ setup' = IF tunnel = NoTunnel THEN NoSetup
                ELSE [setup EXCEPT !.at = "stage", !.id = tunnel, !.creds = "home"]
    /\ UNCHANGED <<configVars, cloudVars, hostVars, faults>>

\* Credentials whose path is unknown are not copied; that is no error.
StageCreds ==
    /\ setup.at = "stage"
    /\ \/ /\ setup.creds = ""
          /\ setup' = [setup EXCEPT !.at = "yml"]
          /\ UNCHANGED etc
       \/ /\ setup.creds = "home" /\ setup.id \in home
          /\ setup' = [setup EXCEPT !.at = "yml"]
          /\ etc' = [etc EXCEPT !.creds = @ \cup {setup.id}]
    /\ UNCHANGED <<configVars, cloudVars, service, faults>>

StageYml ==
    /\ setup.at = "yml"
    /\ etc' = [etc EXCEPT !.yml = [id |-> setup.id, hosts |-> setup.hosts]]
    /\ setup' = [setup EXCEPT !.at = "save"]
    /\ UNCHANGED <<configVars, cloudVars, service, faults>>

\* The edit of cf setup: the Cloudflare block.
SetBlock(c) == [c EXCEPT !.hosts = setup.hosts, !.tunnel = setup.id]

SaveBlock ==
    /\ setup.at = "save"
    /\ Save(SetBlock(setup.loaded),
            [f \in {"cloudflare"} |-> <<setup.hosts, setup.id>>], since["cf"])
    /\ setup' = [setup EXCEPT !.at = "route", !.todo = setup.hosts]
    /\ UNCHANGED <<cloudVars, hostVars, faults>>

-----------------------------------------------------------------------------
(***************************************************************************)
(* cloudflared tunnel route dns, and what ClassifyRouteDNS makes of it.    *)
(***************************************************************************)

\* What cloudflared may do for a hostname: its answer, and the record then.
\* A record that is this tunnel's already is left alone without a confirmation.
Routed(h) ==
    CASE dns[h] = NoRecord -> {[says |-> "added", record |-> setup.id]}
      [] dns[h] = setup.id -> {[says |-> "nothing", record |-> setup.id]}
      [] OTHER -> {[says |-> "already exists", record |-> dns[h]]}
                     \cup IF Silent THEN {[says |-> "nothing", record |-> dns[h]]} ELSE {}

\* It fails on the way, before or after the record is made.
RoutedFaulty(h) == {[says |-> "error", record |-> r.record] : r \in Routed(h)}
                      \cup {[says |-> "error", record |-> dns[h]]}

\* Mutant: silence is taken for success, and an error hides what it is about.
ClassifyLoosely(says) == CASE says = "added" -> "ok" [] OTHER -> "unverified"

ClassifyRouteDNS(says) ==
    CASE says = "already exists" -> "conflict"
      [] says = "added" -> "ok"
      [] OTHER -> "unverified"

\* One hostname; whatever is not a conflict is only reported.
RouteTo(h, answer) ==
    /\ dns' = [dns EXCEPT ![h] = answer.record]
    /\ setup' = [setup EXCEPT
                   !.todo = Tail(@),
                   !.conflicts = IF ClassifyRouteDNS(answer.says) = "conflict"
                                 THEN @ \cup {h} ELSE @,
                   !.unclear = IF answer.says \in {"nothing", "error"} THEN @ \cup {h} ELSE @]
    /\ UNCHANGED <<configVars, tunnel, cert, home, hostVars>>

RouteDNS ==
    /\ setup.at = "route"
    /\ setup.todo # NoHosts
    /\ LET h == Head(setup.todo)
       IN  \/ UNCHANGED faults /\ \E answer \in Routed(h) : RouteTo(h, answer)
           \/ Fault /\ \E answer \in RoutedFaulty(h) : RouteTo(h, answer)

\* systemctl enable --now starts a cloudflared that is not running, and leaves
\* alone one that is; whether any credentials were staged it does not ask.
EnableService ==
    /\ setup.at = "route"
    /\ setup.todo = NoHosts
    /\ setup.conflicts = {}
    /\ service' = IF service = Off THEN etc.yml ELSE service
    /\ setup' = [setup EXCEPT !.at = "up"]
    /\ UNCHANGED <<configVars, cloudVars, etc, faults>>

\* The command ends: with success, or refusing to enable the service, or for
\* want of the credentials.
EndSetup ==
    /\ \/ setup.at = "up"
       \/ setup.at = "route" /\ setup.todo = NoHosts /\ setup.conflicts # {}
       \/ setup.at = "stage" /\ setup.creds = "home" /\ setup.id \notin home
    /\ setup' = NoSetup
    /\ UNCHANGED <<configVars, cloudVars, hostVars, faults>>

\* A step fails, or the command is killed: it ends where it is.
SetupFails ==
    /\ setup.at \notin {"idle", "up"}
    /\ Fault
    /\ setup' = NoSetup
    /\ UNCHANGED <<configVars, cloudVars, hostVars>>

\* The operator deletes a stale record in the Cloudflare dashboard.
DeleteRecord(h) ==
    /\ dns[h] = Foreign
    /\ dns' = [dns EXCEPT ![h] = NoRecord]
    /\ UNCHANGED <<configVars, setup, tunnel, cert, home, hostVars, faults>>

SetupStep ==
    \/ Login \/ CreateTunnel \/ CreateRefused \/ ListTunnels
    \/ StageCreds \/ StageYml \/ SaveBlock \/ RouteDNS \/ EnableService \/ EndSetup

CfNext ==
    \/ \E flags \in HostPairs \cup {NoHosts} : StartSetup(flags)
    \/ SetupStep
    \/ SetupFails
    \/ \E h \in Hostnames : DeleteRecord(h)

CfTypeOK ==
    /\ setup.at \in {"idle", "login", "create", "list", "stage", "yml", "save", "route", "up"}
    /\ setup.hosts \in HostPairs \cup {NoHosts}
    /\ setup.conflicts \cup setup.unclear \subseteq ToSet(setup.hosts)
    /\ tunnel \in {NoTunnel, TheTunnel}
    /\ dns \in [Hostnames -> {NoRecord, Foreign, TheTunnel}]
    /\ home \subseteq {TheTunnel} /\ etc.creds \subseteq {TheTunnel}
    /\ since \in [Loaders -> SUBSET Fields] /\ gone \subseteq Fields
    /\ cert \in BOOLEAN
    /\ faults \in 0..MaxFaults
=============================================================================
