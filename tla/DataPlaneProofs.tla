--------------------------- MODULE DataPlaneProofs ---------------------------
(***************************************************************************)
(* Theorems about the data plane of the RU node, for every number of       *)
(* revisions, rule-sets and failures, and whoever runs pull and            *)
(* update-geoip.                                                           *)
(***************************************************************************)
EXTENDS DataPlane, FiniteSetTheorems, TLAPS

\* What an update may install: a rule-set, or what only sing-box could tell from
\* one.
Installable == Versions \cup {Bogus}
Contents == Installable \cup {Nothing, Torn}

PullType == [at : {"idle", "answered", "installed"}, rev : 0..MaxRevs]
GeoType == [at : {"idle", "open", "write", "rename", "reload"},
            body : Installable \cup {Nothing}, fd : Inodes \cup {NoFile}]

\* The processes: a pull that has an answer has a revision, an update has
\* something that passed validation, and before it opens a file it has none.
ProcInv ==
    /\ pull \in [Hands -> PullType]
    /\ geo \in [Hands -> GeoType]
    /\ \A h \in Hands : /\ pull[h].at = "answered" => pull[h].rev # 0
                        /\ geo[h].at \in {"open", "write", "rename"} => geo[h].body \in Installable

\* As long as nobody has run anything by hand, only the timer's update is under
\* way, and it alone has the temporary file: empty before the write, and what
\* was fetched after it.
AloneInv ==
    byHand = 0 =>
        \A h \in Hands :
            /\ geo[h].at # "idle" => h = "timer"
            /\ geo[h].at \in {"write", "rename"} => tmp # NoFile /\ geo[h].fd = tmp
            /\ geo[h].at = "write" => bytes[tmp] = Nothing
            /\ geo[h].at = "rename" => bytes[tmp] = geo[h].body

IInv == TypeOK /\ ProcInv /\ AloneInv /\ RuleSetIsWhole

-----------------------------------------------------------------------------
\* What the steps below use of the constants, and what follows for the inodes.
LEMMA Bounds ==
    /\ MaxRevs \in Nat \ {0} /\ MaxSets \in Nat \ {0}
    /\ MaxFaults \in Nat /\ MaxByHand \in Nat
BY PlaneBoundsAssumption

LEMMA HandsAre ==
    \/ Hands = {} /\ Inodes = 1..2
    \/ \E a \in Hands : Hands = {a} /\ Inodes = 1..3
    \/ Hands = {"timer", "hand"} /\ Inodes = 1..4
<1>1. Hands \in {{}, {"timer"}, {"hand"}, {"timer", "hand"}}
  BY HandsAssumption
<1>2. Cardinality({}) = 0 /\ IsFiniteSet({})
  BY FS_EmptySet
<1>3. \A x : IsFiniteSet({x}) /\ Cardinality({x}) = 1
  BY FS_Singleton
<1>4. Cardinality({"timer", "hand"}) = 2
  <2> DEFINE T == {"timer"}
  <2>1. T \cup {"hand"} = {"timer", "hand"} /\ "hand" \notin T
    OBVIOUS
  <2>2. IsFiniteSet(T) /\ Cardinality(T) = 1
    BY <1>3
  <2> HIDE DEF T
  <2>3. Cardinality(T \cup {"hand"}) = Cardinality(T) + 1
    BY <2>1, <2>2, FS_AddElement
  <2>4. Cardinality(T \cup {"hand"}) = 2
    BY <2>2, <2>3
  <2>5. QED
    BY <2>1, <2>4, Zenon
<1>5. CASE Hands = {}
  BY <1>2, <1>5 DEF Inodes
<1>6. ASSUME NEW a \in Hands, Hands = {a}
      PROVE  Inodes = 1..3
  <2>1. Cardinality(Hands) = 1
    BY <1>3, <1>6, Zenon
  <2>2. QED
    BY <2>1 DEF Inodes
<1>7. CASE Hands = {"timer", "hand"}
  <2>1. Cardinality(Hands) = 2
    BY <1>4, <1>7, Zenon
  <2>2. QED
    BY <1>7, <2>1 DEF Inodes
<1>8. QED
  BY <1>1, <1>5, <1>6, <1>7

LEMMA InodesAre ==
    /\ Inodes \subseteq 1..4 /\ 1 \in Inodes /\ NoFile \notin Inodes
BY HandsAre DEF NoFile

\* A set of inodes has a least one.
LEMMA MinIsLeast ==
    ASSUME NEW S \in SUBSET (1..4), S # {}
    PROVE  Min(S) \in S
<1>1. \E x \in S : \A y \in S : x =< y
  <2>1. CASE 1 \in S
    BY <2>1
  <2>2. CASE 1 \notin S /\ 2 \in S
    BY <2>2
  <2>3. CASE 1 \notin S /\ 2 \notin S /\ 3 \in S
    BY <2>3
  <2>4. CASE 1 \notin S /\ 2 \notin S /\ 3 \notin S
    <3>1. \A y \in S : y = 4
      BY <2>4
    <3>2. PICK x \in S : TRUE
      OBVIOUS
    <3>3. x = 4 /\ \A y \in S : x =< y
      BY <3>1, <3>2
    <3>4. QED
      BY <3>3
  <2>5. QED
    BY <2>1, <2>2, <2>3, <2>4
<1>2. QED
  BY <1>1 DEF Min

\* The path and one file for each hand cannot take up all the inodes: there is
\* one for a temporary file, and it is not the path's.
LEMMA UnusedIsThere ==
    ASSUME tmp = NoFile
    PROVE  Min(Unused) \in Inodes /\ Min(Unused) # path
<1>1. Unused # {}
  <2>1. CASE Hands = {} /\ Inodes = 1..2
    BY <2>1 DEF Unused, NoFile
  <2>2. CASE \E a \in Hands : Hands = {a} /\ Inodes = 1..3
    BY <2>2 DEF Unused, NoFile
  <2>3. CASE Hands = {"timer", "hand"} /\ Inodes = 1..4
    BY <2>3 DEF Unused, NoFile
  <2>4. QED
    BY <2>1, <2>2, <2>3, HandsAre
<1>2. Unused \in SUBSET (1..4)
  BY InodesAre DEF Unused
<1>3. QED
  BY <1>1, <1>2, MinIsLeast DEF Unused

-----------------------------------------------------------------------------
\* However a start of sing-box ends, it leaves a state systemd knows, and
\* running what it found.
LEMMA StartTypes ==
    ASSUME TypeOK, StartSingbox
    PROVE  /\ unit' \in [Units -> {"active", "activating", "failed"}]
           /\ running' \in [rev : 1..MaxRevs, set : Versions]
<1>1. CASE Startable
  <2>1. unit' = [unit EXCEPT ![Singbox] = "active"] /\ running' = [rev |-> conf, set |-> bytes[path]]
    BY <1>1 DEF StartSingbox
  <2>2. bytes[path] \in Versions /\ conf \in 1..MaxRevs
    BY <1>1 DEF Startable, TypeOK
  <2>3. QED
    BY <2>1, <2>2 DEF TypeOK
<1>2. CASE ~Startable
  BY <1>2 DEF StartSingbox, TypeOK
<1>3. QED
  BY <1>1, <1>2

LEMMA ReloadTypes ==
    ASSUME TypeOK, ReloadSingbox
    PROVE  /\ unit' \in [Units -> {"active", "activating", "failed"}]
           /\ running' \in [rev : 1..MaxRevs, set : Versions]
BY StartTypes DEF ReloadSingbox, TypeOK, units

\* What passes validation can be installed.
LEMMA ValidInstalls ==
    ASSUME NEW body \in {Page, Bogus}, TRUE \in Valid(body)
    PROVE  body = Bogus
BY DEF Valid, ValidateSRS, Nothing, Page, Bogus

LEMMA InitIInv == Init => IInv
<1> SUFFICES ASSUME Init PROVE IInv
  OBVIOUS
<1>1. TypeOK
  <2>1. eu \in 1..MaxRevs /\ upstream \in Versions /\ reach \in BOOLEAN /\ conf \in 1..MaxRevs
    BY Bounds DEF Init, Versions
  <2>2. bytes \in [Inodes -> Versions \cup {Nothing, Torn, Bogus}]
    BY Bounds DEF Init, Versions
  <2>3. path \in Inodes /\ tmp \in (Inodes \cup {NoFile}) \ {path}
    BY InodesAre DEF Init
  <2>4. unit \in [Units -> {"active", "activating", "failed"}]
    BY DEF Init
  <2>5. running \in [rev : 1..MaxRevs, set : Versions]
    BY Bounds DEF Init, Versions
  <2>6. \A h \in Hands : geo[h].at = "write" => geo[h].fd \in Inodes
    BY DEF Init, NoGeo
  <2>7. byHand \in 0..MaxByHand /\ faults \in 0..MaxFaults
    BY Bounds DEF Init
  <2>8. QED
    BY <2>1, <2>2, <2>3, <2>4, <2>5, <2>6, <2>7 DEF TypeOK
<1>2. ProcInv
  <2>1. NoPull \in PullType /\ NoGeo \in GeoType
    BY Bounds DEF NoPull, PullType, NoGeo, GeoType
  <2>2. QED
    BY <2>1 DEF Init, ProcInv, NoPull, NoGeo
<1>3. AloneInv
  BY DEF Init, AloneInv, NoGeo
<1>4. RuleSetIsWhole
  BY <1>1, Bounds, InodesAre DEF Init, RuleSetIsWhole, Versions
<1>5. QED
  BY <1>1, <1>2, <1>3, <1>4 DEF IInv

-----------------------------------------------------------------------------
\* What an update does to the files, step by step: the contents stay contents,
\* and the temporary file is never the one at the path.
FilesOK ==
    /\ bytes \in [Inodes -> Contents]
    /\ path \in Inodes /\ tmp \in (Inodes \cup {NoFile}) \ {path}

LEMMA TypesOfFiles == TypeOK => FilesOK
BY DEF TypeOK, FilesOK, Contents, Installable

LEMMA GeoMoves ==
    ASSUME NEW g \in GeoType, NEW a \in {"idle", "open", "write", "rename", "reload"},
           NEW i \in Inodes \cup {NoFile}
    PROVE  [g EXCEPT !.at = a, !.fd = i] \in GeoType
BY DEF GeoType

LEMMA NoGeoIsGeo == NoGeo \in GeoType
BY DEF NoGeo, GeoType

LEMMA OpenTypes ==
    ASSUME TypeOK, ProcInv, NEW h \in Hands, geo[h].at = "open", GeoOpen(h)
    PROVE  FilesOK' /\ ProcInv' /\ (geo'[h].at = "write" => geo'[h].fd \in Inodes)
<1>1. CASE Geo(h, NoGeo) /\ UNCHANGED disk
  <2>1. FilesOK'
    BY <1>1, TypesOfFiles DEF FilesOK, disk
  <2>2. ProcInv'
    BY <1>1, NoGeoIsGeo DEF ProcInv, Geo, GeoOpen, NoGeo
  <2>3. QED
    BY <1>1, <2>1, <2>2 DEF Geo, NoGeo, ProcInv
<1>2. CASE Open(IF tmp = NoFile THEN Min(Unused) ELSE tmp, h)
  <2> DEFINE i == IF tmp = NoFile THEN Min(Unused) ELSE tmp
  <2>1. i \in Inodes /\ i # path
    BY UnusedIsThere DEF TypeOK
  <2> HIDE DEF i
  <2>2. FilesOK'
    BY <1>2, <2>1, TypesOfFiles DEF FilesOK, Open, Contents, i
  <2>3. [geo[h] EXCEPT !.at = "write", !.fd = i] \in GeoType
    BY <2>1, GeoMoves DEF ProcInv
  <2>4. ProcInv'
    BY <1>2, <2>3 DEF ProcInv, Open, Geo, GeoOpen, GeoType, i
  <2>5. QED
    BY <1>2, <2>1, <2>2, <2>3, <2>4 DEF Open, Geo, ProcInv, GeoType, i
<1>3. QED
  BY <1>1, <1>2 DEF GeoOpen

\* What a write leaves in a file is what was fetched, or a mix of two bodies.
LEMMA WriteTypes ==
    ASSUME TypeOK, ProcInv, NEW h \in Hands, GeoWrite(h)
    PROVE  FilesOK' /\ ProcInv'
<1>1. PICK new \in Contents : bytes' = [bytes EXCEPT ![geo[h].fd] = new]
  BY DEF GeoWrite, ProcInv, Contents, Installable
<1>2. FilesOK'
  BY <1>1, TypesOfFiles DEF FilesOK, GeoWrite
<1>3. [geo[h] EXCEPT !.at = "rename"] \in GeoType
  BY DEF ProcInv, GeoType
<1>4. ProcInv'
  BY <1>3 DEF ProcInv, GeoWrite, Geo, GeoType
<1>5. QED
  BY <1>2, <1>4

LEMMA RenameTypes ==
    ASSUME TypeOK, ProcInv, NEW h \in Hands, GeoRename(h)
    PROVE  FilesOK' /\ ProcInv'
<1>1. CASE tmp = NoFile
  <2>1. Geo(h, NoGeo) /\ UNCHANGED <<bytes, owner, path, tmp, pull>>
    BY <1>1 DEF GeoRename
  <2>2. QED
    BY <2>1, TypesOfFiles, NoGeoIsGeo DEF FilesOK, ProcInv, Geo, NoGeo
<1>2. CASE tmp # NoFile
  <2>1. /\ path' = tmp /\ tmp' = NoFile /\ bytes' = [bytes EXCEPT ![path] = Nothing]
        /\ Geo(h, [geo[h] EXCEPT !.at = "reload", !.fd = NoFile]) /\ UNCHANGED pull
    BY <1>2 DEF GeoRename
  <2>2. [geo[h] EXCEPT !.at = "reload", !.fd = NoFile] \in GeoType
    BY GeoMoves DEF ProcInv
  <2>3. FilesOK'
    BY <1>2, <2>1, InodesAre, TypesOfFiles DEF FilesOK, Contents
  <2>4. ProcInv'
    BY <2>1, <2>2 DEF ProcInv, Geo, GeoType
  <2>5. QED
    BY <2>3, <2>4
<1>3. QED
  BY <1>1, <1>2

\* Each action keeps the types, and the processes' stages and bodies with them.
LEMMA NextTypes == TypeOK /\ ProcInv /\ [Next]_vars => TypeOK' /\ ProcInv'
<1> SUFFICES ASSUME TypeOK, ProcInv, [Next]_vars PROVE TypeOK' /\ ProcInv'
  OBVIOUS
<1>0. /\ NoPull \in PullType /\ NoPull.at = "idle"
      /\ NoGeo \in GeoType /\ NoGeo.at = "idle"
      /\ faults < MaxFaults => faults + 1 \in 0..MaxFaults
      /\ byHand < MaxByHand => byHand + 1 \in 0..MaxByHand
  BY Bounds, NoGeoIsGeo DEF NoPull, PullType, NoGeo, TypeOK
<1>1. CASE NewRevision \/ Publish \/ DestFound
  <2>1. eu' \in 1..MaxRevs /\ upstream' \in Versions /\ reach' \in BOOLEAN
    <3>1. /\ eu < MaxRevs => eu + 1 \in 1..MaxRevs
          /\ upstream < MaxSets => upstream + 1 \in Versions
      BY Bounds DEF TypeOK, Versions
    <3>2. QED
      BY <1>1, <3>1 DEF NewRevision, Publish, DestFound, TypeOK
  <2>2. UNCHANGED <<disk, units, procs, counts>>
    BY <1>1 DEF NewRevision, Publish, DestFound
  <2>3. QED
    BY <2>1, <2>2 DEF TypeOK, ProcInv, disk, units, procs, counts
<1>2. ASSUME NEW h \in Hands, PullAnswer(h)
      PROVE  TypeOK' /\ ProcInv'
  <2>1. byHand' \in 0..MaxByHand
    BY <1>0, <1>2 DEF PullAnswer, ByHand, TypeOK
  <2>2. [at |-> "answered", rev |-> eu] \in PullType /\ eu # 0
    BY Bounds DEF PullType, TypeOK
  <2>3. QED
    BY <1>2, <2>1, <2>2 DEF PullAnswer, TypeOK, ProcInv, world, disk, units
<1>3. ASSUME NEW h \in Hands, PullInstall(h)
      PROVE  TypeOK' /\ ProcInv'
  <2>1. conf' \in 1..MaxRevs
    BY <1>3, Bounds DEF PullInstall, ProcInv, PullType
  <2>2. [pull[h] EXCEPT !.at = "installed"] \in PullType
    BY DEF ProcInv, PullType
  <2>3. ProcInv'
    BY <1>3, <2>2 DEF PullInstall, ProcInv, PullType
  <2>4. QED
    BY <1>3, <2>1, <2>3 DEF PullInstall, TypeOK, world, units, counts
<1>4. ASSUME NEW h \in Hands, PullReload(h)
      PROVE  TypeOK' /\ ProcInv'
  <2>1. ProcInv'
    BY <1>0, <1>4 DEF PullReload, ProcInv
  <2>2. QED
    BY <1>4, <2>1, ReloadTypes DEF PullReload, TypeOK, world, disk, counts
<1>5. ASSUME NEW h \in Hands, PullFails(h)
      PROVE  TypeOK' /\ ProcInv'
  <2>1. ProcInv'
    BY <1>0, <1>5 DEF PullFails, ProcInv
  <2>2. QED
    BY <1>0, <1>5, <2>1 DEF PullFails, Fault, TypeOK, world, disk, units
<1>6. ASSUME NEW h \in Hands, GeoFetch(h)
      PROVE  TypeOK' /\ ProcInv'
  <2>1. PICK body \in Installable : Geo(h, [NoGeo EXCEPT !.at = "open", !.body = body])
    <3>1. CASE Geo(h, [NoGeo EXCEPT !.at = "open", !.body = upstream])
      BY <3>1 DEF TypeOK, Installable
    <3>2. CASE \E body \in {Page, Bogus} :
                  TRUE \in Valid(body) /\ Geo(h, [NoGeo EXCEPT !.at = "open", !.body = body])
      BY <3>2, ValidInstalls DEF Installable
    <3>3. QED
      BY <1>6, <3>1, <3>2 DEF GeoFetch
  <2>2. [NoGeo EXCEPT !.at = "open", !.body = body] \in GeoType
    BY DEF NoGeo, GeoType
  <2>3. ProcInv'
    BY <1>6, <2>1, <2>2 DEF GeoFetch, Geo, ProcInv, NoGeo
  <2>4. byHand' \in 0..MaxByHand /\ faults' \in 0..MaxFaults
    BY <1>0, <1>6 DEF GeoFetch, ByHand, Fault, TypeOK
  <2>5. \A k \in Hands : geo'[k].at = "write" => geo'[k].fd \in Inodes
    BY <2>1 DEF Geo, TypeOK, ProcInv, NoGeo
  <2>6. QED
    BY <1>6, <2>3, <2>4, <2>5 DEF GeoFetch, TypeOK, world, disk, units
<1>7. ASSUME NEW h \in Hands, GeoOpen(h)
      PROVE  TypeOK' /\ ProcInv'
  <2>1. FilesOK' /\ ProcInv' /\ (geo'[h].at = "write" => geo'[h].fd \in Inodes)
    BY <1>7, OpenTypes DEF GeoOpen
  <2>2. \A k \in Hands : k # h => geo'[k] = geo[k]
    BY <1>7 DEF GeoOpen, Open, Geo, ProcInv
  <2>3. UNCHANGED <<conf, world, units, counts>>
    BY <1>7 DEF GeoOpen, Open, disk
  <2>4. QED
    BY <2>1, <2>2, <2>3 DEF FilesOK, Contents, Installable, TypeOK, world, units, counts
<1>8. ASSUME NEW h \in Hands, GeoWrite(h) \/ GeoRename(h)
      PROVE  TypeOK' /\ ProcInv'
  <2>1. FilesOK' /\ ProcInv'
    BY <1>8, WriteTypes, RenameTypes
  <2>2. \A k \in Hands : geo'[k].at = "write" => geo'[k] = geo[k]
    <3>1. ASSUME GeoWrite(h) PROVE geo'[h].at = "rename"
      BY <3>1 DEF GeoWrite, Geo, ProcInv, GeoType
    <3>2. ASSUME GeoRename(h) PROVE geo'[h].at # "write"
      <4>1. CASE tmp = NoFile
        BY <3>2, <4>1 DEF GeoRename, Geo, ProcInv, NoGeo
      <4>2. CASE tmp # NoFile
        BY <3>2, <4>2 DEF GeoRename, Geo, ProcInv, GeoType
      <4>3. QED
        BY <4>1, <4>2
    <3>3. \A k \in Hands : k # h => geo'[k] = geo[k]
      BY <1>8 DEF GeoWrite, GeoRename, Geo, ProcInv
    <3>4. QED
      BY <1>8, <3>1, <3>2, <3>3
  <2>3. UNCHANGED <<conf, world, units, counts>>
    BY <1>8 DEF GeoWrite, GeoRename
  <2>4. QED
    BY <2>1, <2>2, <2>3 DEF FilesOK, Contents, Installable, TypeOK, world, units, counts
<1>9. ASSUME NEW h \in Hands, GeoReload(h)
      PROVE  TypeOK' /\ ProcInv'
  <2>1. ProcInv' /\ \A k \in Hands : geo'[k].at = "write" => geo'[k] = geo[k]
    BY <1>0, <1>9 DEF GeoReload, Geo, ProcInv
  <2>2. QED
    BY <1>9, <2>1, ReloadTypes DEF GeoReload, TypeOK, world, disk, counts
<1>10. ASSUME NEW h \in Hands, GeoFails(h)
       PROVE  TypeOK' /\ ProcInv'
  <2>1. ProcInv' /\ \A k \in Hands : geo'[k].at = "write" => geo'[k] = geo[k]
    BY <1>0, <1>10 DEF GeoFails, Geo, ProcInv
  <2>2. QED
    BY <1>0, <1>10, <2>1 DEF GeoFails, Fault, TypeOK, world, disk, units
<1>11. CASE HealLook
  BY <1>11 DEF HealLook, TypeOK, ProcInv, world, disk, units, counts
<1>12. CASE HealRestart
  <2>1. /\ unit' \in [Units -> {"active", "activating", "failed"}]
        /\ running' \in [rev : 1..MaxRevs, set : Versions]
    BY <1>12, StartTypes DEF HealRestart, TypeOK
  <2>2. QED
    BY <1>12, <2>1 DEF HealRestart, TypeOK, ProcInv, world, disk, counts
<1>13. CASE AutoRestart
  BY <1>13, StartTypes DEF AutoRestart, TypeOK, ProcInv, world, disk, procs, counts
<1>14. ASSUME NEW u \in Units, UnitDies(u)
       PROVE  TypeOK' /\ ProcInv'
  BY <1>0, <1>14 DEF UnitDies, Fault, TypeOK, ProcInv, world, disk, procs
<1>15. CASE UNCHANGED vars
  BY <1>15 DEF vars, TypeOK, ProcInv, world, disk, units, procs, counts
<1>16. QED
  BY <1>1, <1>2, <1>3, <1>4, <1>5, <1>6, <1>7, <1>8, <1>9, <1>10, <1>11, <1>12, <1>13,
     <1>14, <1>15 DEF Next, PullStep, GeoStep, HealStep

-----------------------------------------------------------------------------
\* Whatever is not the timer's update leaves the files and the updates alone, or
\* has been run by hand.
LEMMA OthersStayOut ==
    ASSUME TypeOK, ProcInv, AloneInv, RuleSetIsWhole, byHand' = 0 => byHand = 0,
           UNCHANGED <<bytes, path, tmp, geo>>
    PROVE  AloneInv' /\ RuleSetIsWhole'
BY DEF AloneInv, RuleSetIsWhole

\* An update that is given up leaves its temporary file to the next.
LEMMA GivenUp ==
    ASSUME TypeOK, ProcInv, AloneInv, RuleSetIsWhole, byHand' = byHand, NEW h \in Hands,
           Geo(h, NoGeo), UNCHANGED <<bytes, path, tmp>>
    PROVE  AloneInv' /\ RuleSetIsWhole'
BY DEF AloneInv, RuleSetIsWhole, Geo, NoGeo, ProcInv

\* byHand counts up.
LEMMA ByHandCounts ==
    ASSUME TypeOK, NEW h \in Hands, ByHand(h), byHand' = 0
    PROVE  byHand = 0 /\ h # "hand"
BY Bounds DEF ByHand, TypeOK

\* While nobody has run anything by hand, each step of the timer's update keeps
\* hold of its temporary file, and only a whole one reaches the path.
LEMMA NextWhole ==
    TypeOK /\ ProcInv /\ AloneInv /\ RuleSetIsWhole /\ [Next]_vars => AloneInv' /\ RuleSetIsWhole'
<1> SUFFICES ASSUME TypeOK, ProcInv, AloneInv, RuleSetIsWhole, [Next]_vars
             PROVE  AloneInv' /\ RuleSetIsWhole'
  OBVIOUS
<1>1. CASE NewRevision \/ Publish \/ DestFound
  BY <1>1, OthersStayOut DEF NewRevision, Publish, DestFound, disk, procs, counts
<1>2. ASSUME NEW h \in Hands, PullStep(h) \/ PullFails(h)
      PROVE  AloneInv' /\ RuleSetIsWhole'
  <2>1. UNCHANGED <<bytes, path, tmp, geo>>
    BY <1>2 DEF PullStep, PullAnswer, PullInstall, PullReload, PullFails, disk
  <2>2. byHand' = 0 => byHand = 0
    BY <1>2, ByHandCounts DEF PullStep, PullAnswer, PullInstall, PullReload, PullFails, counts
  <2>3. QED
    BY <2>1, <2>2, OthersStayOut
<1>3. ASSUME NEW h \in Hands, GeoFetch(h)
      PROVE  AloneInv' /\ RuleSetIsWhole'
  <2>1. byHand' = 0 => byHand = 0 /\ h = "timer"
    BY <1>3, ByHandCounts, HandsAssumption DEF GeoFetch
  <2>2. geo'[h].at = "open" /\ \A k \in Hands : k # h => geo'[k] = geo[k]
    BY <1>3 DEF GeoFetch, Geo, ProcInv, NoGeo
  <2>3. UNCHANGED <<bytes, path, tmp>>
    BY <1>3 DEF GeoFetch, disk
  <2>4. QED
    BY <2>1, <2>2, <2>3 DEF AloneInv, RuleSetIsWhole
<1>4. ASSUME NEW h \in Hands, GeoOpen(h)
      PROVE  AloneInv' /\ RuleSetIsWhole'
  <2>1. CASE Geo(h, NoGeo) /\ UNCHANGED disk
    BY <1>4, <2>1, GivenUp DEF GeoOpen, disk, counts
  <2>2. CASE Open(IF tmp = NoFile THEN Min(Unused) ELSE tmp, h)
    <3> DEFINE i == IF tmp = NoFile THEN Min(Unused) ELSE tmp
    <3>1. i \in Inodes /\ i # path /\ i # NoFile
      BY UnusedIsThere, InodesAre DEF TypeOK
    <3> HIDE DEF i
    <3>2. /\ bytes' = [bytes EXCEPT ![i] = Nothing] /\ tmp' = i /\ UNCHANGED <<path, byHand>>
          /\ geo' = [geo EXCEPT ![h] = [geo[h] EXCEPT !.at = "write", !.fd = i]]
      BY <1>4, <2>2 DEF Open, Geo, GeoOpen, counts, i
    <3>3. bytes'[i] = Nothing /\ bytes'[path] = bytes[path]
      BY <3>1, <3>2 DEF TypeOK
    <3>4. /\ geo'[h].at = "write" /\ geo'[h].fd = i
          /\ \A k \in Hands : k # h => geo'[k] = geo[k]
      BY <3>2 DEF ProcInv, GeoType
    <3>5. byHand = 0 => \A k \in Hands : k # h => geo'[k].at = "idle"
      <4>1. geo[h].at = "open"
        BY <1>4 DEF GeoOpen
      <4>2. QED
        BY <3>4, <4>1 DEF AloneInv
    <3>6. byHand = 0 => h = "timer"
      BY <1>4 DEF GeoOpen, AloneInv
    <3>7. QED
      BY <3>1, <3>2, <3>3, <3>4, <3>5, <3>6 DEF AloneInv, RuleSetIsWhole
  <2>3. QED
    BY <1>4, <2>1, <2>2 DEF GeoOpen
<1>5. ASSUME NEW h \in Hands, GeoWrite(h)
      PROVE  AloneInv' /\ RuleSetIsWhole'
  <2> SUFFICES ASSUME byHand = 0 PROVE AloneInv' /\ RuleSetIsWhole'
    BY <1>5 DEF GeoWrite, counts, AloneInv, RuleSetIsWhole
  <2>1. /\ h = "timer" /\ tmp # NoFile /\ geo[h].fd = tmp /\ bytes[tmp] = Nothing
        /\ \A k \in Hands : k # h => geo[k].at = "idle"
    BY <1>5 DEF GeoWrite, AloneInv
  <2>2. /\ bytes' = [bytes EXCEPT ![tmp] = geo[h].body] /\ UNCHANGED <<path, tmp, byHand>>
        /\ geo' = [geo EXCEPT ![h] = [geo[h] EXCEPT !.at = "rename"]]
    BY <1>5, <2>1 DEF GeoWrite, Geo, counts
  <2>3. bytes'[tmp] = geo[h].body /\ bytes'[path] = bytes[path]
    BY <2>1, <2>2 DEF TypeOK
  <2>4. /\ geo'[h].at = "rename" /\ geo'[h].fd = tmp /\ geo'[h].body = geo[h].body
        /\ \A k \in Hands : k # h => geo'[k] = geo[k]
    BY <2>1, <2>2 DEF ProcInv, GeoType
  <2>5. QED
    BY <2>1, <2>2, <2>3, <2>4 DEF AloneInv, RuleSetIsWhole
<1>6. ASSUME NEW h \in Hands, GeoRename(h)
      PROVE  AloneInv' /\ RuleSetIsWhole'
  <2> SUFFICES ASSUME byHand = 0 PROVE AloneInv' /\ RuleSetIsWhole'
    BY <1>6 DEF GeoRename, counts, AloneInv, RuleSetIsWhole
  <2>1. /\ h = "timer" /\ tmp # NoFile /\ bytes[tmp] = geo[h].body
        /\ \A k \in Hands : k # h => geo[k].at = "idle"
    BY <1>6 DEF GeoRename, AloneInv
  <2>2. /\ path' = tmp /\ tmp' = NoFile /\ byHand' = byHand
        /\ bytes' = [bytes EXCEPT ![path] = Nothing]
        /\ geo' = [geo EXCEPT ![h] = [geo[h] EXCEPT !.at = "reload", !.fd = NoFile]]
    BY <1>6, <2>1 DEF GeoRename, Geo, counts
  <2>3. bytes'[path'] = geo[h].body
    BY <2>1, <2>2 DEF TypeOK
  <2>4. geo[h].body \in Installable
    BY <1>6 DEF GeoRename, ProcInv
  <2>5. geo'[h].at = "reload" /\ \A k \in Hands : k # h => geo'[k] = geo[k]
    BY <2>2 DEF ProcInv, GeoType
  <2>6. QED
    BY <2>1, <2>2, <2>3, <2>4, <2>5 DEF AloneInv, RuleSetIsWhole, Installable
<1>7. ASSUME NEW h \in Hands, GeoReload(h) \/ GeoFails(h)
      PROVE  AloneInv' /\ RuleSetIsWhole'
  BY <1>7, GivenUp DEF GeoReload, GeoFails, disk, counts
<1>8. CASE HealLook \/ HealRestart \/ AutoRestart
  BY <1>8, OthersStayOut DEF HealLook, HealRestart, AutoRestart, disk, procs, counts
<1>9. ASSUME NEW u \in Units, UnitDies(u)
      PROVE  AloneInv' /\ RuleSetIsWhole'
  BY <1>9, OthersStayOut DEF UnitDies, disk, procs
<1>10. CASE UNCHANGED vars
  BY <1>10, OthersStayOut DEF vars, disk, procs, counts
<1>11. QED
  BY <1>1, <1>2, <1>3, <1>4, <1>5, <1>6, <1>7, <1>8, <1>9, <1>10 DEF Next, GeoStep, HealStep

\* The inductive invariant holds throughout.
LEMMA SpecIInv == Spec => []IInv
<1>1. IInv /\ [Next]_vars => IInv'
  BY NextTypes, NextWhole DEF IInv
<1>2. QED
  BY InitIInv, <1>1, PTL DEF Spec

-----------------------------------------------------------------------------
\* The files, the units and what sing-box runs stay what they are declared to be:
\* there is always a file at geoip-ru.srs, and never the temporary one; an update
\* that writes has a file to write to; sing-box runs nothing but rule-sets.
THEOREM SpecTypeOK == Spec => []TypeOK
<1>1. IInv => TypeOK
  BY DEF IInv
<1>2. QED
  BY SpecIInv, <1>1, PTL

\* geoipupdate.go:3-5: as long as only the timer updates it, the rule-set at the
\* path is whole at every moment, whatever was fetched and wherever an update
\* was cut short.
THEOREM SpecRuleSetIsWhole == Spec => []RuleSetIsWhole
<1>1. IInv => RuleSetIsWhole
  BY DEF IInv
<1>2. QED
  BY SpecIInv, <1>1, PTL
==============================================================================
