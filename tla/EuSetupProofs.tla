---------------------------- MODULE EuSetupProofs ----------------------------
(***************************************************************************)
(* Theorems about the setting up of an EU node, for every set of hostnames *)
(* and of candidates, every size of the pool of probes, and every number   *)
(* of failures and of commands.                                            *)
(***************************************************************************)
EXTENDS EuSetup, FiniteSetTheorems, TLAPS

ConfigType == [keys : 1..2, dest : [Hops -> 1..Pinned], hosts : HostPairs \cup {NoHosts},
               tunnel : {NoTunnel, TheTunnel}]

\* What the two commands carry from step to step.
SetupType ==
    [at : {"idle", "login", "create", "list", "stage", "yml", "save", "route", "up"},
     loaded : ConfigType \cup {<<>>}, hosts : HostPairs \cup {NoHosts},
     id : {NoTunnel, TheTunnel}, creds : {"", "home"},
     todo : HostPairs \cup {<<h>> : h \in STRING} \cup {NoHosts},
     conflicts : SUBSET Hostnames, unclear : SUBSET Hostnames]
EditType ==
    [at : {"idle", "discover", "load", "save"}, by : {"", "dest", "init"}, which : SUBSET Hops,
     pick : Hosts \cup {NoHost}, loaded : ConfigType \cup {<<>>}]

SetupInv ==
    /\ setup \in SetupType
    /\ setup.at # "idle" => setup.loaded \in ConfigType /\ setup.hosts \in HostPairs
    /\ setup.at \in {"stage", "yml", "save", "route", "up"} => setup.id = TheTunnel
    /\ setup.conflicts \cup setup.unclear \subseteq ToSet(setup.hosts)

EditInv ==
    /\ config \in ConfigType
    /\ edit \in EditType
    /\ edit.at \in {"load", "save"} /\ (edit.by = "dest" \/ edit.which # {}) => edit.pick \in Hosts
    /\ edit.at = "save" /\ edit.by = "dest" => edit.loaded \in ConfigType

\* Which hostnames the routing has still to do; each of the others is routed, or
\* in one of the two lists of those that may not be.
RouteInv ==
    /\ setup.at = "route" => setup.todo \in {setup.hosts, <<setup.hosts[2]>>, NoHosts}
    /\ setup.at \in {"route", "up"} =>
          \A i \in 1..2 : LET h == setup.hosts[i]
                          IN  \/ h \in ToSet(setup.todo)
                              \/ dns[h] = TheTunnel
                              \/ h \in setup.unclear \cup setup.conflicts
    /\ setup.at = "up" => setup.todo = NoHosts /\ setup.conflicts = {}

\* The world cf setup works on.
CloudInv ==
    /\ tunnel \in {NoTunnel, TheTunnel} /\ dns \in [Hostnames -> {NoRecord, Foreign, TheTunnel}]
    /\ cert \in BOOLEAN /\ home \subseteq {TheTunnel}
    /\ etc \in [yml : [id : {NoTunnel, TheTunnel}, hosts : HostPairs \cup {NoHosts}],
                creds : SUBSET {TheTunnel}]
    /\ faults \in 0..MaxFaults /\ edits \in 0..MaxEdits

\* The slots that are taken are the probes in flight; while no command looks for
\* a destination the pool is as new.
PoolInv ==
    /\ PoolTypeOK
    /\ slots + Cardinality(inFlight) = MaxConc
    /\ ~looking => next = 1
    /\ edit.at = "discover" <=> looking

\* What a command has loaded still has every value that was asked for, but for
\* those saved since and those that were gone already.
Kept(loaded, late) == \A f \in Fields \ (gone \cup late) : Field(loaded, f) = asked[f]
SurviveInv ==
    /\ since \in [Loaders -> SUBSET Fields] /\ gone \in SUBSET Fields
    /\ setup.at # "idle" => Kept(setup.loaded, since["cf"])
    /\ edit.at = "save" /\ edit.by = "dest" => Kept(edit.loaded, since["dest"])
    /\ EditsSurvive

IInv == SetupInv /\ EditInv /\ CloudInv /\ RouteInv /\ PoolInv /\ SurviveInv

-----------------------------------------------------------------------------
\* What the steps below use of the constants.
LEMMA Bounds ==
    /\ Candidates \in Nat /\ MaxConc \in Nat \ {0} /\ RTTs \subseteq Nat \ {0}
    /\ MaxFaults \in Nat /\ Silent \in BOOLEAN /\ MaxEdits \in Nat
    /\ HostPairs \subseteq STRING \X STRING
BY DiscoveryAssumption, CfBoundsAssumption, MaxEditsAssumption, HostPairsAssumption

LEMMA TimesAreNat == \A x \in RTTs \cup {0} : x \in Nat
BY Bounds

LEMMA HostsAre ==
    /\ IsFiniteSet(Hosts) /\ Cardinality(Hosts) = Candidates
    /\ Hosts \subseteq Nat /\ NoHost \notin Hosts
<1>1. IsFiniteSet(1..Candidates) /\ Cardinality(1..Candidates) = Candidates
  BY Bounds, FS_Interval
<1>2. QED
  BY <1>1 DEF Hosts, NoHost

-----------------------------------------------------------------------------
\* The ranking is a strict total order of the candidates.
ResultsOK == results \in [Hosts -> [ok : BOOLEAN, rtt : RTTs \cup {0}]]

LEMMA BeforeOrders ==
    ASSUME ResultsOK, NEW i \in Hosts, NEW j \in Hosts, NEW k \in Hosts
    PROVE  /\ ~Before(i, i)
           /\ i # j => Before(i, j) \/ Before(j, i)
           /\ Before(i, j) /\ Before(j, k) => Before(i, k)
<1>1. /\ results[i].ok \in BOOLEAN /\ results[j].ok \in BOOLEAN /\ results[k].ok \in BOOLEAN
      /\ results[i].rtt \in Nat /\ results[j].rtt \in Nat /\ results[k].rtt \in Nat
      /\ i \in Nat /\ j \in Nat /\ k \in Nat
  <2>1. \A x \in Hosts : results[x].ok \in BOOLEAN /\ results[x].rtt \in RTTs \cup {0}
    BY DEF ResultsOK
  <2>2. QED
    BY <2>1, TimesAreNat, HostsAre
<1>2. QED
  BY <1>1 DEF Before

\* How many come before a candidate: a number of its own for each.
Ahead(i) == {j \in Hosts : Before(j, i)}
Place == [i \in Hosts |-> Cardinality(Ahead(i)) + 1]

LEMMA PlaceGrows ==
    ASSUME ResultsOK, NEW i \in Hosts, NEW j \in Hosts, Before(i, j)
    PROVE  Place[i] < Place[j]
<1>1. IsFiniteSet(Ahead(j)) /\ Ahead(i) \subseteq Ahead(j)
  <2>1. Ahead(j) \in SUBSET Hosts /\ Ahead(i) \subseteq Ahead(j)
    BY BeforeOrders DEF Ahead
  <2>2. QED
    BY <2>1, HostsAre, FS_Subset
<1>2. Ahead(i) # Ahead(j)
  BY BeforeOrders DEF Ahead
<1>3. Cardinality(Ahead(i)) <= Cardinality(Ahead(j)) /\ Cardinality(Ahead(i)) # Cardinality(Ahead(j))
  BY <1>1, <1>2, FS_Subset
<1>4. Cardinality(Ahead(i)) \in Nat /\ Cardinality(Ahead(j)) \in Nat
  BY <1>1, FS_Subset, FS_CardinalityType
<1>5. QED
  BY <1>3, <1>4 DEF Place

LEMMA PlaceIsHost ==
    ASSUME ResultsOK, NEW i \in Hosts
    PROVE  Place[i] \in Hosts
<1>1. IsFiniteSet(Hosts \ {i}) /\ Cardinality(Hosts \ {i}) = Candidates - 1
  BY HostsAre, FS_RemoveElement
<1>2. Ahead(i) \in SUBSET (Hosts \ {i})
  BY BeforeOrders DEF Ahead
<1>3. IsFiniteSet(Ahead(i)) /\ Cardinality(Ahead(i)) <= Candidates - 1
  BY <1>1, <1>2, FS_Subset
<1>4. Cardinality(Ahead(i)) \in Nat
  BY <1>3, FS_CardinalityType
<1>5. QED
  BY <1>3, <1>4, Bounds DEF Place, Hosts

\* Every place is taken.
LEMMA PlaceIsTaken ==
    ASSUME ResultsOK, NEW n \in Hosts
    PROVE  \E i \in Hosts : Place[i] = n
<1>1. Place \in [Hosts -> Hosts]
  BY PlaceIsHost DEF Place
<1>2. \A i, j \in Hosts : Place[i] = Place[j] => i = j
  <2> SUFFICES ASSUME NEW i \in Hosts, NEW j \in Hosts, Place[i] = Place[j], i # j
               PROVE  FALSE
    OBVIOUS
  <2>1. Place[i] < Place[j] \/ Place[j] < Place[i]
    BY BeforeOrders, PlaceGrows
  <2>2. Place[i] \in Nat
    BY PlaceIsHost, HostsAre
  <2>3. QED
    BY <2>1, <2>2
<1>3. Place \in Injection(Hosts, Hosts)
  BY <1>1, <1>2 DEF Injection, IsInjective
<1>4. Place \in Surjection(Hosts, Hosts)
  BY <1>3, HostsAre, FS_Injection
<1>5. QED
  BY <1>4 DEF Surjection

\* Discover's result: all candidates, each before the ones it ranks before.
LEMMA RankingRanks ==
    ASSUME ResultsOK
    PROVE  /\ Ranking \in [Hosts -> Hosts]
           /\ \A i \in Hosts : \E n \in Hosts : Ranking[n] = i
           /\ \A m, n \in Hosts : m < n => Before(Ranking[m], Ranking[n])
<1> DEFINE Sorted(s) == \A i, j \in Hosts : i < j => Before(s[i], s[j])
           s0 == [n \in Hosts |-> CHOOSE i \in Hosts : Place[i] = n]
<1>1. SetToSeqs(Hosts) = {s \in [Hosts -> Hosts] : \A i, j \in Hosts : i # j => s[i] # s[j]}
  BY HostsAre DEF SetToSeqs, Hosts
<1>2. \A n \in Hosts : s0[n] \in Hosts /\ Place[s0[n]] = n
  BY PlaceIsTaken
<1>3. s0 \in SetToSeqs(Hosts)
  <2>1. s0 \in [Hosts -> Hosts]
    BY <1>2
  <2>2. QED
    BY <1>1, <1>2, <2>1
<1>4. Sorted(s0)
  <2> SUFFICES ASSUME NEW m \in Hosts, NEW n \in Hosts, m < n
               PROVE  Before(s0[m], s0[n])
    OBVIOUS
  <2>1. s0[m] \in Hosts /\ s0[n] \in Hosts /\ Place[s0[m]] = m /\ Place[s0[n]] = n
    BY <1>2
  <2> HIDE DEF s0
  <2>2. s0[m] # s0[n] /\ m \in Nat /\ n \in Nat
    BY <2>1, HostsAre
  <2>3. Before(s0[n], s0[m]) => Place[s0[n]] < Place[s0[m]]
    BY <2>1, PlaceGrows
  <2>4. ~Before(s0[n], s0[m])
    BY <2>1, <2>2, <2>3
  <2>5. QED
    BY <2>1, <2>2, <2>4, BeforeOrders
<1>5. Ranking \in SetToSeqs(Hosts) /\ Sorted(Ranking)
  <2> HIDE DEF s0
  <2>1. QED
    BY <1>3, <1>4 DEF Ranking
<1>6. Ranking \in Injection(Hosts, Hosts)
  BY <1>1, <1>5 DEF Injection, IsInjective
<1>7. Ranking \in Surjection(Hosts, Hosts)
  BY <1>6, HostsAre, FS_Injection
<1>8. QED
  BY <1>1, <1>5, <1>7 DEF Surjection

-----------------------------------------------------------------------------
\* Sequences of hostnames: a pair, its tail, and the tail of that.
LEMMA TwoHosts ==
    ASSUME NEW a \in STRING, NEW b \in STRING
    PROVE  /\ Head(<<a, b>>) = a /\ Tail(<<a, b>>) = <<b>> /\ ToSet(<<a, b>>) = {a, b}
           /\ Head(<<b>>) = b /\ Tail(<<b>>) = <<>> /\ ToSet(<<b>>) = {b}
           /\ ToSet(<<>>) = {} /\ <<a, b>> # <<>> /\ <<b>> # <<>> /\ <<a, b>> # <<b>>
BY DEF ToSet

LEMMA PairIsTwo ==
    ASSUME NEW p \in HostPairs
    PROVE  /\ p[1] \in STRING /\ p[2] \in STRING /\ p = <<p[1], p[2]>>
           /\ ToSet(p) = {p[1], p[2]} /\ ToSet(p) \subseteq Hostnames /\ p # NoHosts
<1>1. p \in STRING \X STRING
  BY Bounds
<1>2. p[1] \in STRING /\ p[2] \in STRING /\ p = <<p[1], p[2]>>
  BY <1>1
<1>3. ToSet(p) = {p[1], p[2]} /\ p # NoHosts
  BY <1>2, TwoHosts DEF NoHosts
<1>4. ToSet(p) \subseteq Hostnames
  BY DEF Hostnames
<1>5. QED
  BY <1>2, <1>3, <1>4

\* What is still to route is a hostname of the pair, and the rest.
LEMMA TodoIsTail ==
    ASSUME NEW p \in HostPairs, NEW todo \in {p, <<p[2]>>, NoHosts}, todo # NoHosts
    PROVE  /\ Tail(todo) \in {<<p[2]>>, NoHosts}
           /\ Head(todo) \in ToSet(p)
           /\ ToSet(todo) = ToSet(Tail(todo)) \cup {Head(todo)}
<1>1. p[1] \in STRING /\ p[2] \in STRING /\ p = <<p[1], p[2]>> /\ ToSet(p) = {p[1], p[2]}
  BY PairIsTwo
<1>2. CASE todo = p
  <2>1. PICK a \in STRING, b \in STRING : p = <<a, b>> /\ p[2] = b
    BY <1>1
  <2>2. Head(p) = a /\ Tail(p) = <<p[2]>> /\ ToSet(<<p[2]>>) = {b} /\ ToSet(p) = {a, b}
    BY <2>1, TwoHosts
  <2>3. QED
    BY <1>2, <2>2
<1>3. CASE todo = <<p[2]>>
  BY <1>1, <1>3, TwoHosts DEF NoHosts
<1>4. QED
  BY <1>2, <1>3

-----------------------------------------------------------------------------
\* Each step of cf setup keeps its variables in order, and no other touches them.
LEMMA NextSetupInv ==
    SetupInv /\ EditInv /\ CloudInv /\ RouteInv /\ [Next]_vars => SetupInv'
<1> SUFFICES ASSUME SetupInv, EditInv, CloudInv, RouteInv, [Next]_vars PROVE SetupInv'
  OBVIOUS
<1>0. NoSetup \in SetupType /\ ToSet(NoSetup.hosts) = {}
  <2>1. NoSetup \in SetupType
    BY DEF NoSetup, SetupType
  <2>2. ToSet(NoHosts) = {}
    BY DEF ToSet, NoHosts
  <2>3. NoSetup.hosts = NoHosts
    BY DEF NoSetup
  <2>4. QED
    BY <2>1, <2>2, <2>3
<1>1. CASE setup' = setup
  BY <1>1 DEF SetupInv
<1>2. CASE setup' = NoSetup
  BY <1>0, <1>2 DEF SetupInv, NoSetup
<1>3. ASSUME NEW flags \in HostPairs \cup {NoHosts}, StartSetup(flags)
      PROVE  SetupInv'
  <2> DEFINE hosts == IF flags = NoHosts THEN config.hosts ELSE flags
  <2>1. hosts \in HostPairs
    BY <1>3 DEF StartSetup, EditInv, ConfigType
  <2> HIDE DEF hosts
  <2>2. setup' = [NoSetup EXCEPT !.at = "login", !.loaded = config, !.hosts = hosts]
    BY <1>3 DEF StartSetup, hosts
  <2>3. setup' \in SetupType
    BY <1>0, <2>1, <2>2 DEF SetupType, EditInv
  <2>4. /\ setup'.at = "login" /\ setup'.loaded = config /\ setup'.hosts = hosts
        /\ setup'.conflicts = {} /\ setup'.unclear = {}
    BY <2>2 DEF NoSetup
  <2>5. QED
    BY <2>1, <2>3, <2>4 DEF SetupInv, EditInv
<1>4. CASE Login
  <2>1. setup' = [setup EXCEPT !.at = "create"] /\ setup.at = "login"
    BY <1>4 DEF Login
  <2>2. QED
    BY <2>1 DEF SetupInv, SetupType
<1>5. CASE CreateTunnel
  <2>1. /\ setup.at = "create"
        /\ \/ setup' = [setup EXCEPT !.at = "stage", !.id = TheTunnel, !.creds = "home"]
           \/ setup' = [setup EXCEPT !.at = "stage", !.id = TheTunnel]
           \/ setup' = [setup EXCEPT !.at = "list"]
    BY <1>5 DEF CreateTunnel
  <2>2. QED
    BY <2>1 DEF SetupInv, SetupType
<1>6. CASE CreateRefused
  <2>1. setup' = [setup EXCEPT !.at = "list"] /\ setup.at = "create"
    BY <1>6 DEF CreateRefused
  <2>2. QED
    BY <2>1 DEF SetupInv, SetupType
<1>7. CASE ListTunnels /\ tunnel # NoTunnel
  <2>1. /\ setup' = [setup EXCEPT !.at = "stage", !.id = TheTunnel, !.creds = "home"]
        /\ setup.at = "list"
    BY <1>7 DEF ListTunnels, CloudInv
  <2>2. QED
    BY <2>1 DEF SetupInv, SetupType
<1>8. CASE StageCreds
  <2>1. setup' = [setup EXCEPT !.at = "yml"] /\ setup.at = "stage"
    BY <1>8 DEF StageCreds
  <2>2. QED
    BY <2>1 DEF SetupInv, SetupType
<1>9. CASE StageYml
  <2>1. setup' = [setup EXCEPT !.at = "save"] /\ setup.at = "yml"
    BY <1>9 DEF StageYml
  <2>2. QED
    BY <2>1 DEF SetupInv, SetupType
<1>10. CASE SaveBlock
  <2>1. setup' = [setup EXCEPT !.at = "route", !.todo = setup.hosts] /\ setup.at = "save"
    BY <1>10 DEF SaveBlock
  <2>2. QED
    BY <2>1 DEF SetupInv, SetupType
<1>11. ASSUME NEW answer, RouteTo(Head(setup.todo), answer), setup.at = "route", setup.todo # NoHosts
       PROVE  SetupInv'
  <2> DEFINE h == Head(setup.todo)
             c == IF ClassifyRouteDNS(answer.says) = "conflict"
                  THEN setup.conflicts \cup {h} ELSE setup.conflicts
             u == IF answer.says \in {"nothing", "error"}
                  THEN setup.unclear \cup {h} ELSE setup.unclear
  <2>1. setup.hosts \in HostPairs
    BY <1>11 DEF SetupInv
  <2>2. h \in ToSet(setup.hosts) /\ Tail(setup.todo) \in {<<setup.hosts[2]>>, NoHosts}
    BY <1>11, <2>1, TodoIsTail DEF RouteInv
  <2>3. c \in SUBSET Hostnames /\ u \in SUBSET Hostnames /\ c \cup u \subseteq ToSet(setup.hosts)
    BY <2>1, <2>2, PairIsTwo DEF SetupInv
  <2>4. setup' = [setup EXCEPT !.todo = Tail(setup.todo), !.conflicts = c, !.unclear = u]
    BY <1>11 DEF RouteTo
  <2>5. Tail(setup.todo) \in HostPairs \cup {<<x>> : x \in STRING} \cup {NoHosts}
    BY <2>1, <2>2, PairIsTwo
  <2> HIDE DEF c, u
  <2>6. setup' \in SetupType
    BY <2>3, <2>4, <2>5 DEF SetupInv, SetupType
  <2>7. /\ setup'.at = setup.at /\ setup'.loaded = setup.loaded /\ setup'.hosts = setup.hosts
        /\ setup'.id = setup.id /\ setup'.conflicts = c /\ setup'.unclear = u
    BY <2>4 DEF SetupInv, SetupType
  <2>8. QED
    BY <2>3, <2>6, <2>7 DEF SetupInv
<1>12. CASE EnableService
  <2>1. setup' = [setup EXCEPT !.at = "up"] /\ setup.at = "route"
    BY <1>12 DEF EnableService
  <2>2. QED
    BY <2>1 DEF SetupInv, SetupType
<1>13. CASE CfNext
  <2>1. CASE RouteDNS
    BY <2>1, <1>11 DEF RouteDNS
  <2>2. CASE ListTunnels
    BY <2>2, <1>2, <1>7 DEF ListTunnels
  <2>3. CASE EndSetup \/ SetupFails
    BY <2>3, <1>2 DEF EndSetup, SetupFails
  <2>4. CASE \E h \in Hostnames : DeleteRecord(h)
    BY <2>4, <1>1 DEF DeleteRecord
  <2>5. QED
    BY <1>13, <1>3, <1>4, <1>5, <1>6, <1>8, <1>9, <1>10, <1>12, <2>1, <2>2, <2>3, <2>4
    DEF CfNext, SetupStep
<1>14. CASE PoolStep /\ UNCHANGED <<cfVars, editVars>>
  BY <1>1, <1>14 DEF cfVars
<1>15. CASE \/ \E which \in Selections : StartDest(which)
            \/ \E unpinned \in SUBSET Hops : StartInit(unpinned)
  BY <1>1, <1>15 DEF StartDest, StartInit, cfVars
<1>16. CASE EditStep \/ KillEdit
  BY <1>1, <1>16 DEF EditStep, Pick, LoadForDest, SaveDest, SaveInit, KillEdit, cfVars
<1>17. CASE UNCHANGED vars
  BY <1>1, <1>17 DEF vars, cfVars
<1>18. QED
  BY <1>13, <1>14, <1>15, <1>16, <1>17 DEF Next

\* Whatever cloudflared answers, a record is one of the three that there are, and
\* what is copied is what the tunnel's creation left.
LEMMA RoutedIs ==
    ASSUME setup.id = TheTunnel, NEW h, NEW r \in Routed(h)
    PROVE  /\ r.record \in {dns[h], TheTunnel}
           /\ r.says \in {"nothing", "already exists"} \/ r.record = TheTunnel
<1>1. CASE dns[h] = NoRecord
  <2>1. r = [says |-> "added", record |-> setup.id]
    BY <1>1 DEF Routed, NoRecord, TheTunnel
  <2>2. r.says = "added" /\ r.record = TheTunnel
    BY <2>1
  <2>3. QED
    BY <2>2
<1>2. CASE dns[h] = TheTunnel
  <2>1. r = [says |-> "nothing", record |-> TheTunnel]
    BY <1>2 DEF Routed, NoRecord, TheTunnel
  <2>2. r.says = "nothing" /\ r.record = TheTunnel
    BY <2>1
  <2>3. QED
    BY <2>2
<1>3. CASE dns[h] # NoRecord /\ dns[h] # TheTunnel
  <2>1. r = [says |-> "already exists", record |-> dns[h]]
            \/ r = [says |-> "nothing", record |-> dns[h]]
    BY <1>3 DEF Routed
  <2>2. CASE r = [says |-> "already exists", record |-> dns[h]]
    BY <2>2
  <2>3. CASE r = [says |-> "nothing", record |-> dns[h]]
    BY <2>3
  <2>4. QED
    BY <2>1, <2>2, <2>3
<1>4. QED
  BY <1>1, <1>2, <1>3

LEMMA RouteToCloud ==
    ASSUME SetupInv, CloudInv, setup.at = "route", NEW h, NEW answer,
           answer \in Routed(h) \cup RoutedFaulty(h), RouteTo(h, answer)
    PROVE  dns' \in [Hostnames -> {NoRecord, Foreign, TheTunnel}]
<1>1. CASE h \in Hostnames
  <2>1. dns[h] \in {NoRecord, Foreign, TheTunnel} /\ setup.id = TheTunnel
    BY <1>1 DEF CloudInv, SetupInv
  <2>2. answer.record \in {dns[h], TheTunnel}
    <3>1. \A r \in Routed(h) : r.record \in {dns[h], TheTunnel}
      BY <2>1, RoutedIs
    <3>2. \A r \in RoutedFaulty(h) : r.record \in {dns[h], TheTunnel}
      BY <3>1 DEF RoutedFaulty
    <3>3. QED
      BY <3>1, <3>2
  <2>3. dns' = [dns EXCEPT ![h] = answer.record]
    BY DEF RouteTo
  <2>4. QED
    BY <2>1, <2>2, <2>3 DEF CloudInv
<1>2. CASE h \notin Hostnames
  BY <1>2 DEF RouteTo, CloudInv
<1>3. QED
  BY <1>1, <1>2

LEMMA NextCloudInv == SetupInv /\ CloudInv /\ [Next]_vars => CloudInv'
<1> SUFFICES ASSUME SetupInv, CloudInv, [Next]_vars PROVE CloudInv'
  OBVIOUS
<1>0. /\ faults < MaxFaults => faults + 1 \in 0..MaxFaults
      /\ edits < MaxEdits => edits + 1 \in 0..MaxEdits
  BY Bounds DEF CloudInv
<1> USE DEF configVars, cloudVars, hostVars, cfVars, poolVars, editVars
<1>1. CASE CfNext /\ UNCHANGED <<poolVars, editVars>>
  <2>1. ASSUME NEW flags \in HostPairs \cup {NoHosts}, StartSetup(flags)
        PROVE  CloudInv'
    BY <1>1, <2>1 DEF StartSetup, CloudInv
  <2>2. CASE Login \/ ListTunnels \/ EndSetup
    BY <1>1, <2>2 DEF Login, ListTunnels, EndSetup, CloudInv
  <2>3. CASE CreateTunnel
    <3>1. faults' \in 0..MaxFaults
      BY <1>0, <2>3 DEF CreateTunnel, Fault, CloudInv
    <3>2. QED
      BY <1>1, <2>3, <3>1 DEF CreateTunnel, CloudInv
  <2>4. CASE CreateRefused \/ SetupFails
    BY <1>0, <1>1, <2>4 DEF CreateRefused, SetupFails, Fault, CloudInv
  <2>5. CASE StageCreds
    <3>1. setup.id = TheTunnel
      BY <2>5 DEF StageCreds, SetupInv
    <3>2. etc' = etc \/ etc' = [etc EXCEPT !.creds = @ \cup {TheTunnel}]
      BY <2>5, <3>1 DEF StageCreds
    <3>3. etc' \in [yml : [id : {NoTunnel, TheTunnel}, hosts : HostPairs \cup {NoHosts}],
                    creds : SUBSET {TheTunnel}]
      BY <3>2 DEF CloudInv
    <3>4. QED
      BY <1>1, <2>5, <3>3 DEF StageCreds, CloudInv
  <2>6. CASE StageYml
    <3>1. [id |-> setup.id, hosts |-> setup.hosts]
              \in [id : {NoTunnel, TheTunnel}, hosts : HostPairs \cup {NoHosts}]
      BY DEF SetupInv, SetupType
    <3>2. etc' = [etc EXCEPT !.yml = [id |-> setup.id, hosts |-> setup.hosts]]
      BY <2>6 DEF StageYml
    <3>3. etc' \in [yml : [id : {NoTunnel, TheTunnel}, hosts : HostPairs \cup {NoHosts}],
                    creds : SUBSET {TheTunnel}]
      BY <3>1, <3>2 DEF CloudInv
    <3>4. QED
      BY <1>1, <2>6, <3>3 DEF StageYml, CloudInv
  <2>7. CASE SaveBlock
    BY <1>1, <2>7 DEF SaveBlock, CloudInv
  <2>8. CASE RouteDNS
    <3> DEFINE h == Head(setup.todo)
    <3>1. PICK answer \in Routed(h) \cup RoutedFaulty(h) : RouteTo(h, answer)
      BY <2>8 DEF RouteDNS
    <3>2. dns' \in [Hostnames -> {NoRecord, Foreign, TheTunnel}]
      BY <2>8, <3>1, RouteToCloud DEF RouteDNS
    <3>3. faults' \in 0..MaxFaults
      BY <1>0, <2>8 DEF RouteDNS, Fault, CloudInv
    <3>4. QED
      BY <1>1, <3>1, <3>2, <3>3 DEF RouteTo, CloudInv
  <2>9. CASE EnableService
    BY <1>1, <2>9 DEF EnableService, CloudInv
  <2>10. ASSUME NEW h \in Hostnames, DeleteRecord(h)
         PROVE  CloudInv'
    BY <1>1, <2>10 DEF DeleteRecord, CloudInv
  <2>11. QED
    BY <1>1, <2>1, <2>2, <2>3, <2>4, <2>5, <2>6, <2>7, <2>8, <2>9, <2>10 DEF CfNext, SetupStep
<1>2. CASE PoolStep /\ UNCHANGED <<cfVars, editVars>>
  BY <1>2 DEF CloudInv
<1>3. CASE \/ \E which \in Selections : StartDest(which)
           \/ \E unpinned \in SUBSET Hops : StartInit(unpinned)
  BY <1>0, <1>3 DEF StartDest, StartInit, CloudInv
<1>4. CASE Pick \/ LoadForDest
  BY <1>4 DEF Pick, LoadForDest, CloudInv
<1>5. CASE SaveDest \/ \E hosts \in HostPairs \cup {NoHosts} : SaveInit(hosts)
  <2>1. UNCHANGED <<cloudVars, hostVars, faults, edits>>
    BY <1>5 DEF SaveDest, SaveInit
  <2>2. QED
    BY <2>1 DEF CloudInv
<1>6. CASE KillEdit
  BY <1>0, <1>6 DEF KillEdit, Fault, CloudInv
<1>7. CASE UNCHANGED vars
  BY <1>7 DEF vars, CloudInv
<1>8. QED
  BY <1>1, <1>2, <1>3, <1>4, <1>5, <1>6, <1>7 DEF Next, EditStep

\* An answer that confirms nothing leaves the hostname in a list; one that does,
\* says of a record that has just been made what is true of it.
LEMMA AnswerTells ==
    ASSUME SetupInv, setup.at = "route", NEW h, NEW answer,
           answer \in Routed(h) \cup RoutedFaulty(h)
    PROVE  \/ answer.says \in {"nothing", "error"}
           \/ ClassifyRouteDNS(answer.says) = "conflict"
           \/ answer.record = TheTunnel
<1>1. setup.id = TheTunnel
  BY DEF SetupInv
<1>2. ASSUME answer \in Routed(h)
      PROVE  answer.says \in {"nothing", "already exists"} \/ answer.record = TheTunnel
  BY <1>1, <1>2, RoutedIs
<1>3. ASSUME answer \in RoutedFaulty(h)
      PROVE  answer.says = "error"
  BY <1>3 DEF RoutedFaulty
<1>4. QED
  BY <1>2, <1>3 DEF ClassifyRouteDNS

\* Each hostname that is taken off the list is accounted for, and nothing undoes
\* that while the command runs.
LEMMA NextRouteInv ==
    SetupInv /\ CloudInv /\ RouteInv /\ [Next]_vars => RouteInv'
<1> SUFFICES ASSUME SetupInv, CloudInv, RouteInv, [Next]_vars PROVE RouteInv'
  OBVIOUS
<1> USE DEF configVars, cloudVars, hostVars, cfVars, poolVars, editVars
<1>1. CASE UNCHANGED <<setup, dns>>
  BY <1>1 DEF RouteInv
<1>2. CASE setup'.at \notin {"route", "up"}
  BY <1>2 DEF RouteInv
<1>3. CASE StartSetup(NoHosts) \/ \E flags \in HostPairs : StartSetup(flags)
  BY <1>2, <1>3 DEF StartSetup, NoSetup
<1>4. ASSUME NEW a \in {"create", "list", "stage", "yml", "save"}, setup'.at = a
      PROVE  RouteInv'
  BY <1>2, <1>4
<1>5. CASE Login \/ CreateTunnel \/ CreateRefused \/ ListTunnels \/ StageCreds \/ StageYml
  <2>1. CASE Login
    BY <1>4, <2>1 DEF Login, SetupInv, SetupType
  <2>2. CASE CreateTunnel
    BY <1>4, <2>2 DEF CreateTunnel, SetupInv, SetupType
  <2>3. CASE CreateRefused
    BY <1>4, <2>3 DEF CreateRefused, SetupInv, SetupType
  <2>4. CASE ListTunnels
    BY <1>2, <1>4, <2>4 DEF ListTunnels, NoSetup, SetupInv, SetupType
  <2>5. CASE StageCreds
    BY <1>4, <2>5 DEF StageCreds, SetupInv, SetupType
  <2>6. CASE StageYml
    BY <1>4, <2>6 DEF StageYml, SetupInv, SetupType
  <2>7. QED
    BY <1>5, <2>1, <2>2, <2>3, <2>4, <2>5, <2>6
<1>6. CASE SaveBlock
  <2>1. setup' = [setup EXCEPT !.at = "route", !.todo = setup.hosts] /\ setup.at = "save"
    BY <1>6 DEF SaveBlock
  <2>2. setup'.at = "route" /\ setup'.todo = setup'.hosts /\ setup'.hosts \in HostPairs
    BY <2>1 DEF SetupInv, SetupType
  <2>3. \A i \in 1..2 : setup'.hosts[i] \in ToSet(setup'.todo)
    BY <2>2, PairIsTwo
  <2>4. QED
    BY <2>2, <2>3 DEF RouteInv
<1>7. CASE RouteDNS
  <2> DEFINE h == Head(setup.todo)
  <2>1. setup.at = "route" /\ setup.todo # NoHosts /\ setup.hosts \in HostPairs
    BY <1>7 DEF RouteDNS, SetupInv
  <2>2. PICK answer \in Routed(h) \cup RoutedFaulty(h) : RouteTo(h, answer)
    BY <1>7 DEF RouteDNS
  <2>3. /\ Tail(setup.todo) \in {<<setup.hosts[2]>>, NoHosts}
        /\ h \in Hostnames
        /\ ToSet(setup.todo) = ToSet(Tail(setup.todo)) \cup {h}
    BY <2>1, TodoIsTail, PairIsTwo DEF RouteInv
  <2> HIDE DEF h
  <2>4. /\ dns' = [dns EXCEPT ![h] = answer.record]
        /\ setup'.at = "route" /\ setup'.hosts = setup.hosts /\ setup'.todo = Tail(setup.todo)
        /\ setup'.conflicts = IF ClassifyRouteDNS(answer.says) = "conflict"
                              THEN setup.conflicts \cup {h} ELSE setup.conflicts
        /\ setup'.unclear = IF answer.says \in {"nothing", "error"}
                            THEN setup.unclear \cup {h} ELSE setup.unclear
    BY <2>1, <2>2 DEF RouteTo, SetupInv, SetupType
  <2>5. dns'[h] = answer.record /\ \A g : g # h => dns'[g] = dns[g]
    BY <2>3, <2>4 DEF CloudInv
  <2>6. h \in setup'.unclear \cup setup'.conflicts \/ dns'[h] = TheTunnel
    BY <2>1, <2>2, <2>4, <2>5, AnswerTells
  <2>7. setup.unclear \cup setup.conflicts \subseteq setup'.unclear \cup setup'.conflicts
    BY <2>4
  <2>8. \A i \in 1..2 : \/ setup.hosts[i] \in ToSet(setup.todo)
                        \/ dns[setup.hosts[i]] = TheTunnel
                        \/ setup.hosts[i] \in setup.unclear \cup setup.conflicts
    BY <2>1 DEF RouteInv
  <2>9. \A i \in 1..2 : \/ setup'.hosts[i] \in ToSet(setup'.todo)
                        \/ dns'[setup'.hosts[i]] = TheTunnel
                        \/ setup'.hosts[i] \in setup'.unclear \cup setup'.conflicts
    BY <2>3, <2>4, <2>5, <2>6, <2>7, <2>8
  <2>10. QED
    BY <2>3, <2>4, <2>9 DEF RouteInv
<1>8. CASE EnableService
  <2>1. /\ setup.at = "route" /\ setup.todo = NoHosts /\ setup.conflicts = {}
        /\ setup' = [setup EXCEPT !.at = "up"] /\ dns' = dns
    BY <1>8 DEF EnableService
  <2>2. /\ setup'.at = "up" /\ setup'.todo = setup.todo /\ setup'.conflicts = setup.conflicts
        /\ setup'.unclear = setup.unclear /\ setup'.hosts = setup.hosts
    BY <2>1 DEF SetupInv, SetupType
  <2>3. QED
    BY <2>1, <2>2 DEF RouteInv
<1>9. ASSUME NEW h \in Hostnames, DeleteRecord(h)
      PROVE  RouteInv'
  <2>1. dns[h] = Foreign /\ dns' = [dns EXCEPT ![h] = NoRecord] /\ setup' = setup
    BY <1>9 DEF DeleteRecord
  <2>2. \A g : dns[g] = TheTunnel => dns'[g] = TheTunnel
    BY <2>1 DEF CloudInv, Foreign, TheTunnel
  <2>3. QED
    BY <2>1, <2>2 DEF RouteInv
<1>10. CASE CfNext
  <2>1. CASE EndSetup \/ SetupFails
    <3>1. setup' = NoSetup
      BY <2>1 DEF EndSetup, SetupFails
    <3>2. NoSetup.at = "idle"
      BY DEF NoSetup
    <3>3. QED
      BY <1>2, <3>1, <3>2
  <2>2. QED
    BY <1>3, <1>5, <1>6, <1>7, <1>8, <1>9, <1>10, <2>1 DEF CfNext, SetupStep
<1>11. CASE PoolStep /\ UNCHANGED <<cfVars, editVars>>
  BY <1>1, <1>11
<1>12. CASE \/ \E which \in Selections : StartDest(which)
            \/ \E unpinned \in SUBSET Hops : StartInit(unpinned)
  BY <1>1, <1>12 DEF StartDest, StartInit
<1>13. CASE EditStep \/ KillEdit
  BY <1>1, <1>13 DEF EditStep, Pick, LoadForDest, SaveDest, SaveInit, KillEdit
<1>14. CASE UNCHANGED vars
  BY <1>1, <1>14 DEF vars
<1>15. QED
  BY <1>10, <1>11, <1>12, <1>13, <1>14 DEF Next
-----------------------------------------------------------------------------
\* What is picked is a candidate, and the first of the ranking is one.
LEMMA BestIsHost ==
    ASSUME ResultsOK
    PROVE  Best \in Hosts \cup {NoHost}
<1>1. Candidates > 0 => 1 \in Hosts
  BY Bounds DEF Hosts
<1>2. QED
  BY <1>1, RankingRanks DEF Best

LEMMA HostsArePinned == Hosts \subseteq 1..Pinned /\ Pinned \in 1..Pinned
BY Bounds DEF Hosts, Pinned

\* Each save leaves a whole config.
LEMMA NextEditInv ==
    SetupInv /\ EditInv /\ PoolInv /\ [Next]_vars => EditInv'
<1> SUFFICES ASSUME SetupInv, EditInv, PoolInv, [Next]_vars PROVE EditInv'
  OBVIOUS
<1> USE DEF configVars
<1>0. /\ NoEdit \in EditType
      /\ NoEdit.at = "idle" /\ NoEdit.by = "" /\ NoEdit.which = {} /\ NoEdit.pick = NoHost
  BY DEF NoEdit, EditType
<1>1. CASE UNCHANGED <<config, edit>>
  BY <1>1 DEF EditInv
<1>2. CASE SaveBlock /\ UNCHANGED edit
  <2>1. setup.loaded \in ConfigType /\ setup.hosts \in HostPairs /\ setup.id = TheTunnel
    BY <1>2 DEF SaveBlock, SetupInv
  <2>2. config' = [setup.loaded EXCEPT !.hosts = setup.hosts, !.tunnel = setup.id]
    BY <1>2 DEF SaveBlock, Save, SetBlock
  <2>3. config' \in ConfigType
    BY <2>1, <2>2 DEF EditInv, ConfigType
  <2>4. QED
    BY <1>2, <2>3 DEF EditInv
<1>3. CASE CfNext /\ UNCHANGED <<poolVars, editVars>>
  <2>1. CASE SaveBlock
    BY <1>2, <1>3, <2>1 DEF editVars
  <2>2. CASE ~SaveBlock
    <3>1. UNCHANGED <<config, edit>>
      BY <1>3, <2>2 DEF CfNext, SetupStep, StartSetup, Login, CreateTunnel, CreateRefused,
         ListTunnels, StageCreds, StageYml, RouteDNS, RouteTo, EnableService, EndSetup,
         SetupFails, DeleteRecord, Load, editVars
    <3>2. QED
      BY <1>1, <3>1
  <2>3. QED
    BY <2>1, <2>2
<1>4. ASSUME edit' = NoEdit, config' \in ConfigType
      PROVE  EditInv'
  BY <1>0, <1>4 DEF EditInv
<1>5. ASSUME NEW which \in Selections, StartDest(which)
      PROVE  EditInv'
  <2>1. edit' = [NoEdit EXCEPT !.at = "discover", !.by = "dest", !.which = which]
    BY <1>5 DEF StartDest
  <2>2. edit' \in EditType /\ edit'.at = "discover"
    BY <1>0, <2>1 DEF EditType, Selections, Hops
  <2>3. UNCHANGED config
    BY <1>5 DEF StartDest, cfVars
  <2>4. QED
    BY <2>2, <2>3 DEF EditInv
<1>6. ASSUME NEW unpinned \in SUBSET Hops, StartInit(unpinned)
      PROVE  EditInv'
  <2>1. edit' = [NoEdit EXCEPT !.at = IF unpinned = {} THEN "save" ELSE "discover",
                               !.by = "init", !.which = unpinned]
    BY <1>6 DEF StartInit
  <2>2. /\ edit' \in EditType /\ edit'.by = "init" /\ edit'.which = unpinned
        /\ edit'.at \in {"load", "save"} => unpinned = {}
    BY <1>0, <2>1 DEF EditType
  <2>3. UNCHANGED config
    BY <1>6 DEF StartInit, cfVars
  <2>4. QED
    BY <2>2, <2>3 DEF EditInv
<1>7. CASE Pick
  <2>1. UNCHANGED config
    BY <1>7 DEF Pick, cfVars
  <2>2. CASE Best = NoHost
    BY <1>4, <1>7, <2>1, <2>2 DEF Pick, EditInv
  <2>3. CASE Best # NoHost
    <3>1. Best \in Hosts
      BY <2>3, BestIsHost DEF PoolInv, PoolTypeOK, ResultsOK
    <3>2. edit' = [edit EXCEPT !.at = IF edit.by = "dest" THEN "load" ELSE "save", !.pick = Best]
      BY <1>7, <2>3 DEF Pick
    <3>3. edit' \in EditType /\ edit'.pick \in Hosts /\ edit'.by = edit.by
          /\ (edit'.at = "save" => edit'.by # "dest")
      BY <3>1, <3>2 DEF EditInv, EditType
    <3>4. QED
      BY <2>1, <3>3 DEF EditInv
  <2>4. QED
    BY <2>2, <2>3
<1>8. CASE LoadForDest
  <2>1. edit' = [edit EXCEPT !.at = "save", !.loaded = config] /\ edit.at = "load"
    BY <1>8 DEF LoadForDest
  <2>2. /\ edit' \in EditType /\ edit'.loaded = config
        /\ edit'.by = edit.by /\ edit'.which = edit.which /\ edit'.pick = edit.pick
    BY <2>1 DEF EditInv, EditType
  <2>3. UNCHANGED config
    BY <1>8 DEF LoadForDest, Load
  <2>4. QED
    BY <2>1, <2>2, <2>3 DEF EditInv
<1>9. CASE SaveDest
  <2>1. edit.pick \in Hosts /\ edit.loaded \in ConfigType
    BY <1>9 DEF SaveDest, EditInv
  <2>2. \A f \in [Hops -> 1..Pinned] :
           [h \in Hops |-> IF h \in edit.which THEN edit.pick ELSE f[h]] \in [Hops -> 1..Pinned]
    BY <2>1, HostsArePinned
  <2>3. \A c \in ConfigType :
           [c EXCEPT !.dest = [h \in Hops |-> IF h \in edit.which THEN edit.pick ELSE @[h]]]
              \in ConfigType
    BY <2>2 DEF ConfigType
  <2>4. config' \in ConfigType
    BY <1>9, <2>1, <2>3 DEF SaveDest, Save, ApplyDest, EditInv
  <2>5. QED
    BY <1>4, <1>9, <2>4 DEF SaveDest
<1>10. ASSUME NEW hosts \in HostPairs \cup {NoHosts}, SaveInit(hosts)
       PROVE  EditInv'
  <2> DEFINE dest == [h \in Hops |-> IF h \in edit.which THEN edit.pick ELSE Pinned]
  <2>1. dest \in [Hops -> 1..Pinned]
    <3>1. edit.which # {} => edit.pick \in Hosts
      BY <1>10 DEF SaveInit, EditInv
    <3>2. QED
      BY <3>1, HostsArePinned
  <2>2. config' = [keys |-> 2, dest |-> dest, hosts |-> hosts, tunnel |-> NoTunnel]
    BY <1>10 DEF SaveInit, Save
  <2> HIDE DEF dest
  <2>3. config' \in ConfigType
    BY <2>1, <2>2 DEF ConfigType
  <2>4. QED
    BY <1>4, <1>10, <2>2, <2>3 DEF SaveInit
<1>11. CASE KillEdit
  BY <1>4, <1>11 DEF KillEdit, EditInv
<1>12. CASE PoolStep /\ UNCHANGED <<cfVars, editVars>>
  BY <1>1, <1>12 DEF cfVars, editVars
<1>13. CASE UNCHANGED vars
  BY <1>1, <1>13 DEF vars, cfVars, editVars
<1>14. QED
  BY <1>3, <1>5, <1>6, <1>7, <1>8, <1>9, <1>10, <1>11, <1>12, <1>13 DEF Next, EditStep

\* A slot that is taken is a probe in flight.  The semaphore is counted, so it is
\* the steps of the cardinality that matter.
LEMMA NextPoolInv ==
    EditInv /\ PoolInv /\ [Next]_vars => PoolInv'
<1> SUFFICES ASSUME EditInv, PoolInv, [Next]_vars PROVE PoolInv'
  OBVIOUS
<1>0. /\ IsFiniteSet(inFlight) /\ Cardinality(inFlight) \in Nat /\ inFlight \subseteq Hosts
      /\ slots \in Nat /\ next \in Nat /\ next >= 1 /\ inFlight \subseteq 1..(next - 1)
  <2>1. next \in 1..(Candidates + 1) /\ inFlight \subseteq 1..(next - 1) /\ slots \in 0..MaxConc
    BY DEF PoolInv, PoolTypeOK
  <2>2. inFlight \subseteq Hosts
    BY <2>1, Bounds DEF Hosts
  <2>3. IsFiniteSet(inFlight) /\ Cardinality(inFlight) \in Nat
    BY <2>2, HostsAre, FS_Subset, FS_CardinalityType
  <2>4. QED
    BY <2>1, <2>2, <2>3, Bounds
<1>1. CASE UNCHANGED <<poolVars, edit>>
  BY <1>1 DEF PoolInv, PoolTypeOK, poolVars
<1>2. CASE UNCHANGED poolVars /\ edit.at # "discover" /\ edit'.at # "discover"
  BY <1>2 DEF PoolInv, PoolTypeOK, poolVars
<1>3. CASE PoolReset /\ edit'.at # "discover"
  <2>1. [i \in Hosts |-> Blank] \in [Hosts -> [ok : BOOLEAN, rtt : RTTs \cup {0}]]
    BY DEF Blank
  <2>2. Cardinality({}) = 0
    BY FS_EmptySet
  <2>3. /\ looking' = FALSE /\ next' = 1 /\ inFlight' = {} /\ slots' = MaxConc
        /\ results' \in [Hosts -> [ok : BOOLEAN, rtt : RTTs \cup {0}]]
    BY <1>3, <2>1 DEF PoolReset
  <2>4. 1 \in 1..(Candidates + 1) /\ MaxConc \in 0..MaxConc /\ MaxConc + 0 = MaxConc
    BY Bounds
  <2>5. PoolTypeOK' /\ (slots + Cardinality(inFlight) = MaxConc)'
    BY <2>2, <2>3, <2>4 DEF PoolTypeOK
  <2>6. QED
    BY <1>3, <2>3, <2>5 DEF PoolInv
<1>4. CASE StartDiscover /\ edit'.at = "discover"
  BY <1>4 DEF StartDiscover, PoolInv, PoolTypeOK
<1>5. CASE StartProbe /\ edit' = edit
  <2>1. next \notin inFlight /\ next \in 1..Candidates
    BY <1>0, <1>5, Bounds DEF StartProbe, PoolInv, PoolTypeOK
  <2>2. Cardinality(inFlight') = Cardinality(inFlight) + 1
    BY <1>0, <1>5, <2>1, FS_AddElement DEF StartProbe
  <2>3. /\ next' \in 1..(Candidates + 1) /\ inFlight' \subseteq 1..(next' - 1)
        /\ slots' \in 0..MaxConc
    BY <1>0, <1>5, <2>1, Bounds DEF StartProbe, PoolInv, PoolTypeOK
  <2>4. slots' + Cardinality(inFlight') = MaxConc
    BY <1>0, <1>5, <2>2, Bounds DEF StartProbe, PoolInv
  <2>5. looking' = looking /\ looking /\ results' = results
    BY <1>5 DEF StartProbe
  <2>6. QED
    BY <1>5, <2>3, <2>4, <2>5 DEF PoolInv, PoolTypeOK
<1>6. ASSUME NEW i \in Hosts, EndProbe(i), edit' = edit
      PROVE  PoolInv'
  <2>1. results' \in [Hosts -> [ok : BOOLEAN, rtt : RTTs \cup {0}]]
    <3>1. \A v \in Verdicts : v \in [ok : BOOLEAN, rtt : RTTs \cup {0}]
      <4>1. Blank \in [ok : BOOLEAN, rtt : RTTs \cup {0}]
        BY DEF Blank
      <4>2. \A site \in Sites, rtt \in RTTs : Probe(site, rtt) \in [ok : BOOLEAN, rtt : RTTs \cup {0}]
        BY <4>1 DEF Probe
      <4>3. QED
        BY <4>2 DEF Verdicts
    <3>2. QED
      BY <1>6, <3>1 DEF EndProbe, PoolInv, PoolTypeOK
  <2>2. Cardinality(inFlight') = Cardinality(inFlight) - 1 /\ Cardinality(inFlight') \in Nat
    <3>1. inFlight' = inFlight \ {i} /\ i \in inFlight
      BY <1>6 DEF EndProbe
    <3>2. IsFiniteSet(inFlight') /\ Cardinality(inFlight') = Cardinality(inFlight) - 1
      BY <1>0, <3>1, FS_RemoveElement
    <3>3. QED
      BY <3>2, FS_CardinalityType
  <2>3. slots' = slots + 1 /\ slots' + Cardinality(inFlight') = MaxConc
    BY <1>0, <1>6, <2>2, Bounds DEF EndProbe, PoolInv
  <2>4. slots' \in 0..MaxConc
    BY <1>0, <2>2, <2>3, Bounds
  <2>5. /\ looking' = looking /\ next' = next /\ inFlight' \subseteq inFlight
        /\ inFlight # {}
    BY <1>6 DEF EndProbe
  <2>6. looking => looking'
    BY <2>5
  <2>7. QED
    BY <1>6, <2>1, <2>3, <2>4, <2>5 DEF PoolInv, PoolTypeOK
<1>7. CASE CfNext /\ UNCHANGED <<poolVars, editVars>>
  BY <1>1, <1>7 DEF editVars
<1>8. CASE PoolStep /\ UNCHANGED <<cfVars, editVars>>
  BY <1>5, <1>6, <1>8 DEF PoolStep, editVars
<1>9. ASSUME NEW which \in Selections, StartDest(which)
      PROVE  PoolInv'
  BY <1>4, <1>9 DEF StartDest, NoEdit
<1>10. ASSUME NEW unpinned \in SUBSET Hops, StartInit(unpinned)
       PROVE  PoolInv'
  BY <1>2, <1>4, <1>10 DEF StartInit, NoEdit
<1>11. CASE Pick
  <2>1. \/ edit' = NoEdit
        \/ edit' = [edit EXCEPT !.at = IF edit.by = "dest" THEN "load" ELSE "save", !.pick = Best]
    BY <1>11 DEF Pick
  <2>2. edit'.at # "discover"
    <3>1. CASE edit' = NoEdit
      BY <3>1 DEF NoEdit
    <3>2. CASE edit' = [edit EXCEPT !.at = IF edit.by = "dest" THEN "load" ELSE "save", !.pick = Best]
      <4>1. edit'.at = IF edit.by = "dest" THEN "load" ELSE "save"
        BY <3>2 DEF EditInv, EditType
      <4>2. QED
        BY <4>1
    <3>3. QED
      BY <2>1, <3>1, <3>2
  <2>3. QED
    BY <1>3, <1>11, <2>2 DEF Pick
<1>12. CASE LoadForDest
  BY <1>2, <1>12 DEF LoadForDest
<1>13. CASE SaveDest \/ \E hosts \in HostPairs \cup {NoHosts} : SaveInit(hosts)
  <2>1. edit.at = "save" /\ edit' = NoEdit /\ UNCHANGED poolVars
    BY <1>13 DEF SaveDest, SaveInit
  <2>2. NoEdit.at = "idle"
    BY DEF NoEdit
  <2>3. QED
    BY <1>2, <2>1, <2>2
<1>14. CASE KillEdit
  BY <1>3, <1>14 DEF KillEdit, NoEdit
<1>15. CASE UNCHANGED vars
  BY <1>1, <1>15 DEF vars, editVars
<1>16. QED
  BY <1>7, <1>8, <1>9, <1>10, <1>11, <1>12, <1>13, <1>14, <1>15 DEF Next, EditStep

\* SaveConfig of a loaded config, with some fields set.  What is asked for is in
\* the new config, and the rest of it was asked for or was late.
LEMMA SaveKeeps ==
    ASSUME SurviveInv, NEW loaded, NEW edited, NEW asks, NEW late, Save(edited, asks, late),
           DOMAIN asks \subseteq Fields, late \subseteq Fields,
           \A f \in DOMAIN asks : Field(edited, f) = asks[f],
           \A f \in Fields \ DOMAIN asks : Field(edited, f) = Field(loaded, f),
           DOMAIN asks # Fields => Kept(loaded, late)
    PROVE  /\ since' \in [Loaders -> SUBSET Fields] /\ gone' \in SUBSET Fields
           /\ EditsSurvive'
           /\ \A c \in Loaders : \A other :
                 Kept(other, since[c])
                    => \A f \in Fields \ (gone' \cup since'[c]) : Field(other, f) = asked'[f]
<1>1. /\ config' = edited
      /\ asked' = [f \in Fields |-> IF f \in DOMAIN asks THEN asks[f] ELSE asked[f]]
      /\ since' = [c \in Loaders |-> since[c] \cup DOMAIN asks]
      /\ gone' = (gone \cup late) \ DOMAIN asks
  BY DEF Save
<1>2. since' \in [Loaders -> SUBSET Fields] /\ gone' \in SUBSET Fields
  BY <1>1 DEF SurviveInv
<1>3. ASSUME NEW f \in Fields \ gone' PROVE Field(edited, f) = asked'[f]
  <2>1. CASE f \in DOMAIN asks
    BY <1>1, <2>1
  <2>2. CASE f \notin DOMAIN asks
    <3>1. f \in Fields \ (gone \cup late) /\ Kept(loaded, late)
      BY <1>1, <1>3, <2>2
    <3>2. QED
      BY <1>1, <2>2, <3>1 DEF Kept
  <2>3. QED
    BY <2>1, <2>2
<1>4. EditsSurvive'
  <2>1. \A f \in Fields \ gone' : Field(config', f) = asked'[f]
    BY <1>1, <1>3
  <2>2. QED
    BY <2>1 DEF EditsSurvive, Field
<1>5. ASSUME NEW c \in Loaders, NEW other, Kept(other, since[c]),
             NEW f \in Fields \ (gone' \cup since'[c])
      PROVE  Field(other, f) = asked'[f]
  <2>1. f \in Fields \ (gone \cup since[c]) /\ f \notin DOMAIN asks
    BY <1>1, <1>5
  <2>2. QED
    BY <1>1, <1>5, <2>1 DEF Kept
<1>6. QED
  BY <1>2, <1>4, <1>5

\* The two edits of a loaded config set the fields they are asked for, and no other.
LEMMA SetBlockSets ==
    ASSUME NEW loaded \in ConfigType
    PROVE  /\ Field(SetBlock(loaded), "cloudflare") = <<setup.hosts, setup.id>>
           /\ \A f \in Fields \ {"cloudflare"} : Field(SetBlock(loaded), f) = Field(loaded, f)
<1>1. /\ SetBlock(loaded).keys = loaded.keys /\ SetBlock(loaded).dest = loaded.dest
      /\ SetBlock(loaded).hosts = setup.hosts /\ SetBlock(loaded).tunnel = setup.id
  BY DEF SetBlock, ConfigType
<1>2. QED
  BY <1>1 DEF Field

LEMMA ApplyDestSets ==
    ASSUME NEW loaded \in ConfigType, edit.which \in SUBSET Hops
    PROVE  /\ \A f \in edit.which : Field(ApplyDest(loaded), f) = <<edit.pick>>
           /\ \A f \in Fields \ edit.which : Field(ApplyDest(loaded), f) = Field(loaded, f)
<1>1. /\ ApplyDest(loaded).keys = loaded.keys
      /\ ApplyDest(loaded).hosts = loaded.hosts /\ ApplyDest(loaded).tunnel = loaded.tunnel
      /\ \A h \in Hops : ApplyDest(loaded).dest[h] = IF h \in edit.which THEN edit.pick ELSE loaded.dest[h]
  BY DEF ApplyDest, ConfigType
<1>2. \A h \in Hops : h # "keys" /\ h # "cloudflare"
  BY DEF Hops
<1>3. QED
  BY <1>1, <1>2 DEF Field, Fields

\* Each save keeps what was asked for, but for what it is late for.
LEMMA NextSurviveInv ==
    SetupInv /\ EditInv /\ SurviveInv /\ [Next]_vars => SurviveInv'
<1> SUFFICES ASSUME SetupInv, EditInv, SurviveInv, [Next]_vars PROVE SurviveInv'
  OBVIOUS
<1> USE DEF configVars
<1>0. NoEdit.at = "idle" /\ NoSetup.at = "idle"
  BY DEF NoEdit, NoSetup
\* Nothing is loaded or saved.
<1>1. CASE /\ UNCHANGED configVars
           /\ setup'.at # "idle" => setup.at # "idle" /\ setup'.loaded = setup.loaded
           /\ edit'.at = "save" /\ edit'.by = "dest" => UNCHANGED edit
  BY <1>1 DEF SurviveInv, EditsSurvive, Kept, Field
<1>2. ASSUME NEW c \in Loaders, Load(c)
      PROVE  /\ EditsSurvive' /\ Kept(config, since[c])'
             /\ since' \in [Loaders -> SUBSET Fields] /\ gone' \in SUBSET Fields
             /\ \A d \in Loaders \ {c} : since'[d] = since[d]
  BY <1>2 DEF Load, SurviveInv, EditsSurvive, Kept, Field
<1>3. ASSUME NEW flags \in HostPairs \cup {NoHosts}, StartSetup(flags), UNCHANGED editVars
      PROVE  SurviveInv'
  <2>1. setup'.loaded = config /\ Load("cf")
    BY <1>3 DEF StartSetup, NoSetup
  <2>2. QED
    BY <1>2, <1>3, <2>1 DEF Load, SurviveInv, Kept, Field, Loaders, editVars
<1>4. CASE LoadForDest
  <2>1. edit'.loaded = config /\ Load("dest") /\ UNCHANGED setup
    BY <1>4 DEF LoadForDest, EditInv, EditType
  <2>2. QED
    BY <1>2, <2>1 DEF Load, SurviveInv, Kept, Field, Loaders
<1>5. ASSUME SaveBlock, UNCHANGED edit
      PROVE  SurviveInv'
  <2> DEFINE asks == [f \in {"cloudflare"} |-> <<setup.hosts, setup.id>>]
  <2>1. /\ Save(SetBlock(setup.loaded), asks, since["cf"])
        /\ setup.loaded \in ConfigType /\ Kept(setup.loaded, since["cf"])
        /\ since["cf"] \subseteq Fields /\ DOMAIN asks = {"cloudflare"}
    BY <1>5 DEF SaveBlock, SetupInv, SurviveInv, Loaders
  <2>2. /\ DOMAIN asks \subseteq Fields
        /\ \A f \in DOMAIN asks : Field(SetBlock(setup.loaded), f) = asks[f]
        /\ \A f \in Fields \ DOMAIN asks :
              Field(SetBlock(setup.loaded), f) = Field(setup.loaded, f)
    BY <2>1, SetBlockSets DEF Fields
  <2> HIDE DEF asks
  <2>3. /\ since' \in [Loaders -> SUBSET Fields] /\ gone' \in SUBSET Fields
        /\ EditsSurvive'
        /\ \A c \in Loaders : \A other :
              Kept(other, since[c])
                 => \A f \in Fields \ (gone' \cup since'[c]) : Field(other, f) = asked'[f]
    BY <2>1, <2>2, SaveKeeps
  <2>4. setup.at # "idle" /\ setup'.loaded = setup.loaded
    BY <1>5 DEF SaveBlock, SetupInv, SetupType
  <2>5. QED
    BY <1>5, <2>3, <2>4 DEF SurviveInv, Kept, Field, Loaders
<1>6. CASE SaveDest
  <2> DEFINE asks == [f \in edit.which |-> <<edit.pick>>]
  <2>1. /\ Save(ApplyDest(edit.loaded), asks, since["dest"])
        /\ edit.loaded \in ConfigType /\ Kept(edit.loaded, since["dest"])
        /\ since["dest"] \subseteq Fields
        /\ edit.which \in SUBSET Hops /\ DOMAIN asks = edit.which
    BY <1>6 DEF SaveDest, EditInv, EditType, SurviveInv, Loaders
  <2>2. /\ DOMAIN asks \subseteq Fields
        /\ \A f \in DOMAIN asks : Field(ApplyDest(edit.loaded), f) = asks[f]
        /\ \A f \in Fields \ DOMAIN asks :
              Field(ApplyDest(edit.loaded), f) = Field(edit.loaded, f)
    BY <2>1, ApplyDestSets DEF Fields
  <2> HIDE DEF asks
  <2>3. /\ since' \in [Loaders -> SUBSET Fields] /\ gone' \in SUBSET Fields
        /\ EditsSurvive'
        /\ \A c \in Loaders : \A other :
              Kept(other, since[c])
                 => \A f \in Fields \ (gone' \cup since'[c]) : Field(other, f) = asked'[f]
    BY <2>1, <2>2, SaveKeeps
  <2>4. edit'.at = "idle" /\ UNCHANGED setup
    BY <1>0, <1>6 DEF SaveDest
  <2>5. QED
    BY <2>3, <2>4 DEF SurviveInv, Kept, Field, Loaders
<1>7. ASSUME NEW hosts \in HostPairs \cup {NoHosts}, SaveInit(hosts)
      PROVE  SurviveInv'
  <2>1. PICK new : Save(new, [f \in Fields |-> Field(new, f)], {})
    BY <1>7 DEF SaveInit
  <2> DEFINE asks == [f \in Fields |-> Field(new, f)]
             late == {}
  <2>2. /\ DOMAIN asks = Fields /\ late \subseteq Fields
        /\ \A f \in DOMAIN asks : Field(new, f) = asks[f]
        /\ \A f \in Fields \ DOMAIN asks : Field(new, f) = Field(config, f)
        /\ DOMAIN asks # Fields => Kept(config, late)
    OBVIOUS
  <2>3. Save(new, asks, late)
    BY <2>1
  <2> HIDE DEF asks, late
  <2>4. /\ since' \in [Loaders -> SUBSET Fields] /\ gone' \in SUBSET Fields
        /\ EditsSurvive'
        /\ \A c \in Loaders : \A other :
              Kept(other, since[c])
                 => \A f \in Fields \ (gone' \cup since'[c]) : Field(other, f) = asked'[f]
    BY <2>2, <2>3, SaveKeeps
  <2>5. edit'.at = "idle" /\ UNCHANGED setup
    BY <1>0, <1>7 DEF SaveInit
  <2>6. QED
    BY <2>4, <2>5 DEF SurviveInv, Kept, Field, Loaders
<1>8. CASE CfNext /\ UNCHANGED <<poolVars, editVars>>
  <2>1. CASE Login \/ CreateTunnel \/ CreateRefused \/ ListTunnels \/ StageCreds \/ StageYml
             \/ RouteDNS \/ EnableService
    <3>1. UNCHANGED configVars /\ setup.at # "idle"
      BY <2>1 DEF Login, CreateTunnel, CreateRefused, ListTunnels, StageCreds, StageYml,
         RouteDNS, RouteTo, EnableService
    <3>2. setup'.loaded = setup.loaded \/ setup' = NoSetup
      BY <2>1 DEF Login, CreateTunnel, CreateRefused, ListTunnels, StageCreds, StageYml,
         RouteDNS, RouteTo, EnableService, SetupInv, SetupType
    <3>3. QED
      BY <1>0, <1>1, <1>8, <3>1, <3>2 DEF editVars
  <2>2. CASE EndSetup \/ SetupFails \/ \E h \in Hostnames : DeleteRecord(h)
    BY <1>0, <1>1, <1>8, <2>2 DEF EndSetup, SetupFails, DeleteRecord, editVars
  <2>3. QED
    BY <1>3, <1>5, <1>8, <2>1, <2>2 DEF CfNext, SetupStep, editVars
<1>9. CASE PoolStep /\ UNCHANGED <<cfVars, editVars>>
  BY <1>1, <1>9 DEF cfVars, editVars
<1>10. CASE \/ \E which \in Selections : StartDest(which)
            \/ \E unpinned \in SUBSET Hops : StartInit(unpinned)
  <2>1. UNCHANGED cfVars
    BY <1>10 DEF StartDest, StartInit
  <2>2. ~(edit'.at = "save" /\ edit'.by = "dest")
    BY <1>10 DEF StartDest, StartInit, NoEdit
  <2>3. QED
    BY <1>1, <2>1, <2>2 DEF cfVars
<1>11. CASE Pick
  <2>1. UNCHANGED cfVars
    BY <1>11 DEF Pick
  <2>2. ~(edit'.at = "save" /\ edit'.by = "dest")
    BY <1>0, <1>11 DEF Pick, EditInv, EditType
  <2>3. QED
    BY <1>1, <2>1, <2>2 DEF cfVars
<1>12. CASE KillEdit
  BY <1>0, <1>1, <1>12 DEF KillEdit
<1>13. CASE UNCHANGED vars
  BY <1>1, <1>13 DEF vars, cfVars, editVars
<1>14. QED
  BY <1>4, <1>6, <1>7, <1>8, <1>9, <1>10, <1>11, <1>12, <1>13 DEF Next, EditStep

-----------------------------------------------------------------------------
LEMMA InitIInv == Init => IInv
<1> SUFFICES ASSUME Init PROVE IInv
  OBVIOUS
<1>1. config \in ConfigType
  <2>1. PICK hosts \in HostPairs \cup {NoHosts} :
           config = [keys |-> 1, dest |-> [h \in Hops |-> Pinned], hosts |-> hosts, tunnel |-> NoTunnel]
    BY DEF Init
  <2>2. QED
    BY <2>1, HostsArePinned DEF Init, ConfigType
<1>2. SetupInv /\ setup.at = "idle"
  <2>1. setup = NoSetup
    BY DEF Init, CfInit
  <2>2. QED
    BY <2>1 DEF SetupInv, SetupType, NoSetup
<1>3. EditInv /\ edit.at = "idle"
  <2>1. edit = NoEdit
    BY DEF Init
  <2>2. QED
    BY <1>1, <2>1 DEF EditInv, EditType, NoEdit
<1>4. CloudInv
  <2>1. etc = [yml |-> Off, creds |-> {}] /\ Off \in [id : {NoTunnel, TheTunnel}, hosts : HostPairs \cup {NoHosts}]
    BY DEF Init, CfInit, Off
  <2>2. 0 \in 0..MaxFaults /\ 0 \in 0..MaxEdits
    BY Bounds
  <2>3. etc \in [yml : [id : {NoTunnel, TheTunnel}, hosts : HostPairs \cup {NoHosts}],
                creds : SUBSET {TheTunnel}]
    BY <2>1
  <2>4. dns \in [Hostnames -> {NoRecord, Foreign, TheTunnel}]
    BY DEF Init, CfInit
  <2>5. /\ tunnel \in {NoTunnel, TheTunnel} /\ cert = FALSE /\ home = {}
        /\ faults = 0 /\ edits = 0
    BY DEF Init, CfInit
  <2>6. QED
    BY <2>2, <2>3, <2>4, <2>5 DEF CloudInv
<1>5. RouteInv
  BY <1>2 DEF RouteInv
<1>6. PoolInv
  <2>1. [i \in Hosts |-> Blank] \in [Hosts -> [ok : BOOLEAN, rtt : RTTs \cup {0}]]
    BY DEF Blank
  <2>2. Cardinality({}) = 0
    BY FS_EmptySet
  <2>3. looking = FALSE /\ next = 1 /\ inFlight = {} /\ slots = MaxConc /\ results = [i \in Hosts |-> Blank]
    BY DEF Init, PoolIdle
  <2>4. 1 \in 1..(Candidates + 1) /\ MaxConc \in 0..MaxConc /\ MaxConc + 0 = MaxConc
    BY Bounds
  <2>5. PoolTypeOK /\ slots + Cardinality(inFlight) = MaxConc
    BY <2>1, <2>2, <2>3, <2>4 DEF PoolTypeOK
  <2>6. QED
    BY <1>3, <2>3, <2>5 DEF PoolInv
<1>7. SurviveInv
  <2>1. /\ asked = [f \in Fields |-> Field(config, f)]
        /\ since = [c \in Loaders |-> {}] /\ gone = {}
    BY DEF Init
  <2>2. EditsSurvive
    BY <2>1 DEF EditsSurvive
  <2>3. QED
    BY <1>2, <1>3, <2>1, <2>2 DEF SurviveInv
<1>8. QED
  BY <1>2, <1>3, <1>4, <1>5, <1>6, <1>7 DEF IInv

LEMMA SpecIInv == Spec => []IInv
<1>1. IInv /\ [Next]_vars => IInv'
  BY NextSetupInv, NextEditInv, NextCloudInv, NextRouteInv, NextPoolInv, NextSurviveInv DEF IInv
<1>2. QED
  BY <1>1, InitIInv, PTL DEF Spec

\* Every variable of the two commands and of the world they work on stays what it
\* is meant to be, and Discover runs exactly while a command waits for it
\* (cli/cf.go:87-182, cli/dest.go:68-115, dest/dest.go:199-239).
THEOREM SpecTypeOK == Spec => []TypeOK
<1>1. IInv => CfTypeOK
  BY DEF IInv, SetupInv, SetupType, CloudInv, SurviveInv, CfTypeOK
<1>2. IInv => /\ config.keys \in 1..2 /\ config.dest \in [Hops -> 1..Pinned]
              /\ config.hosts \in HostPairs \cup {NoHosts} /\ config.tunnel \in {NoTunnel, TheTunnel}
  BY DEF IInv, EditInv, ConfigType
<1>3. IInv => /\ PoolTypeOK
              /\ edit.at \in {"idle", "discover", "load", "save"}
              /\ edit.at = "discover" <=> looking
              /\ edits \in 0..MaxEdits
  BY DEF IInv, PoolInv, EditInv, EditType, CloudInv
<1>4. IInv => TypeOK
  BY <1>1, <1>2, <1>3 DEF TypeOK
<1>5. QED
  BY <1>4, SpecIInv, PTL

\* When cf setup reports success, each hostname it was asked for is routed to its
\* tunnel, except one for which cloudflared gave no clear answer
\* (cli/cf.go:87-88, 155-182).
THEOREM SpecEnabledIsRouted == Spec => []EnabledIsRouted
<1>1. IInv => EnabledIsRouted
  <2> SUFFICES ASSUME IInv, setup.at = "up", NEW i \in 1..2
               PROVE  dns[setup.hosts[i]] = setup.id \/ setup.hosts[i] \in setup.unclear
    BY DEF EnabledIsRouted
  <2>1. setup.id = TheTunnel
    BY DEF IInv, SetupInv
  <2>2. setup.todo = NoHosts /\ setup.conflicts = {} /\ ToSet(NoHosts) = {}
    BY TwoHosts DEF IInv, RouteInv, NoHosts, ToSet
  <2>3. QED
    BY <2>1, <2>2 DEF IInv, RouteInv
<1>2. QED
  BY <1>1, SpecIInv, PTL

\* What a command has saved stays in config.yaml until a command is asked to
\* change it, or one that had loaded the file before saves after
\* (cli/dest.go:48-49, 91-115, cli/cf.go:94, 142-153).
THEOREM SpecEditsSurvive == Spec => []EditsSurvive
BY SpecIInv, PTL DEF IInv, SurviveInv

\* The loop never waits for a slot of the semaphore that no probe holds
\* (dest/dest.go:207-215).
THEOREM SpecLoopNeverStuck == Spec => []LoopNeverStuck
<1>1. IInv => LoopNeverStuck
  <2> SUFFICES ASSUME IInv, inFlight = {} PROVE slots > 0
    BY DEF LoopNeverStuck
  <2>1. Cardinality(inFlight) = 0
    BY FS_EmptySet
  <2>2. slots + Cardinality(inFlight) = MaxConc /\ slots \in 0..MaxConc
    BY DEF IInv, PoolInv, PoolTypeOK
  <2>3. QED
    BY <2>1, <2>2, Bounds
<1>2. QED
  BY <1>1, SpecIInv, PTL

\* What a command picks is the nearest of all candidates that validated, and is
\* picked when no probe is left in flight (dest/dest.go:199-239).
THEOREM SpecPickIsNearest == Spec => PickIsNearest
<1>1. ASSUME IInv, Pick, edit'.pick # NoHost
      PROVE  /\ inFlight = {} /\ results[edit'.pick].ok
             /\ \A i \in Hosts : results[i].ok => results[edit'.pick].rtt <= results[i].rtt
  <2>1. inFlight = {} /\ ResultsOK
    BY <1>1 DEF Pick, AllProbed, IInv, PoolInv, PoolTypeOK, ResultsOK
  <2>2. Best # NoHost /\ edit'.pick = Best
    <3>1. NoEdit.pick = NoHost
      BY DEF NoEdit
    <3>2. Best # NoHost
      BY <1>1, <3>1 DEF Pick
    <3>3. edit' = [edit EXCEPT !.at = IF edit.by = "dest" THEN "load" ELSE "save", !.pick = Best]
      BY <1>1, <3>2 DEF Pick
    <3>4. edit'.pick = Best
      BY <1>1, <3>3 DEF IInv, EditInv, EditType
    <3>5. QED
      BY <3>2, <3>4
  <2>3. 1 \in Hosts /\ Best = Ranking[1] /\ results[Best].ok
    BY <2>2, Bounds DEF Best, Hosts
  <2>4. ASSUME NEW i \in Hosts, results[i].ok
        PROVE  results[Best].rtt <= results[i].rtt
    <3>1. results[i].rtt \in Nat
      <4>1. results[i].rtt \in RTTs \cup {0}
        BY <2>1 DEF ResultsOK
      <4>2. QED
        BY <4>1, TimesAreNat
    <3>2. PICK n \in Hosts : Ranking[n] = i
      BY <2>1, RankingRanks
    <3>3. CASE n = 1
      BY <2>3, <3>1, <3>2, <3>3
    <3>4. CASE n # 1
      <4>1. 1 < n
        BY <3>4 DEF Hosts
      <4>2. Before(Best, i)
        BY <2>1, <2>3, <3>2, <4>1, RankingRanks
      <4>3. results[Best].rtt < results[i].rtt \/ results[Best].rtt = results[i].rtt
        BY <2>3, <2>4, <4>2 DEF Before
      <4>4. results[Best].rtt \in Nat
        <5>1. results[Best].rtt \in RTTs \cup {0}
          BY <2>1, <2>2, BestIsHost DEF ResultsOK
        <5>2. QED
          BY <5>1, TimesAreNat
      <4>5. QED
        BY <3>1, <4>3, <4>4
    <3>5. QED
      BY <3>3, <3>4
  <2>5. QED
    BY <2>1, <2>2, <2>3, <2>4
<1>2. IInv /\ [Next]_vars
         => [Pick /\ edit'.pick # NoHost =>
               /\ inFlight = {} /\ results[edit'.pick].ok
               /\ \A i \in Hosts : results[i].ok => results[edit'.pick].rtt <= results[i].rtt]_vars
  BY <1>1
<1>3. QED
  BY <1>2, SpecIInv, PTL DEF Spec, PickIsNearest
==============================================================================
