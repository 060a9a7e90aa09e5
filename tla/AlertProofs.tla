---------------------------- MODULE AlertProofs ----------------------------
(***************************************************************************)
(* Theorems about the alerts, for every finite set of watched units and    *)
(* every number of changes, failed mails, crashes and runs by hand.        *)
(***************************************************************************)
EXTENDS Alert, FiniteSetTheorems, WellFoundedInduction, TLAPS

FileType == [keys : SUBSET Keys, owner : Users \cup {"none"}]
RunType == [at : {"idle", "beat", "reach", "units", "mail", "rename"},
            last : SUBSET Keys, current : SUBSET Keys, todo : SUBSET Keys, newSet : SUBSET Keys]

WorldInv ==
    /\ beat \in {"fresh", "stale"} /\ blocked \in BOOLEAN
    /\ down \subseteq Units /\ cert \in {"valid", "expiring", "unknown"}

\* What is due is either a new condition or one that has ended, and is recorded
\* only once its mail is dealt with.
RunInv ==
    /\ run \in [Users -> RunType]
    /\ \A u \in Users :
          /\ run[u].todo \cap (run[u].current \cap run[u].last) = {}
          /\ run[u].todo \subseteq run[u].current \cup run[u].last
          /\ run[u].todo \cap run[u].newSet = {}
          /\ run[u].at \in {"beat", "reach", "units"} => run[u].todo = {} /\ run[u].newSet = {}

DataInv ==
    /\ firing \in FileType /\ tmp \in FileType
    /\ told \in [Keys -> {"nothing", "alert", "resolved"}] /\ owed \subseteq Keys
    /\ upsets \in Nat

\* Keys is where a firing set comes from and goes to: the operator was told of
\* every one of them.
Told(S) == \A k \in S : told[k] # "nothing"
ToldInv ==
    /\ Told(firing.keys) /\ Told(tmp.keys)
    /\ \A u \in Users : Told(run[u].last) /\ Told(run[u].newSet)

\* Undisturbed, the timer's run is the only one; what the operator takes to be
\* firing is what the run has read or, as far as the mails are dealt with, will
\* write: what is to be resolved is still believed to fire.
Believed == {k \in Keys : told[k] = "alert"}
MineOrNone(f) == f = NoFile \/ f.owner = "rdda"
QuietInv ==
    upsets = 0 =>
        LET r == run["rdda"]
        IN  /\ \A u \in Users \ {"rdda"} : run[u].at = "idle"
            /\ MineOrNone(firing) /\ MineOrNone(tmp)
            /\ r.at = "idle" => firing.keys = Believed
            /\ r.at \in {"beat", "reach", "units"} => r.last = Believed
            /\ r.at = "mail" => Believed = r.newSet \cup (r.todo \ r.current)
            /\ r.at = "rename" => tmp # NoFile /\ tmp.keys = Believed

IInv == WorldInv /\ RunInv /\ DataInv /\ ToldInv /\ QuietInv

-----------------------------------------------------------------------------
LEMMA Bounds ==
    /\ MaxFlips \in Nat /\ MaxFails \in Nat /\ MaxUpsets \in Nat
    /\ "rdda" \in Users /\ Users \subseteq {"rdda", "root"}
BY BoundsAssumption, UsersAssumption

\* Every unit has its place in the order of the units.
LEMMA UnitsAreListed ==
    /\ Cardinality(Units) \in Nat
    /\ SetToSeq(Units) \in [1..Cardinality(Units) -> Units]
    /\ \A k \in Units : \E i \in 1..Cardinality(Units) : SetToSeq(Units)[i] = k
<1> DEFINE I == 1..Cardinality(Units)
<1>1. Cardinality(Units) \in Nat /\ ExistsBijection(I, Units)
  BY UnitsAssumption, FS_CardinalityType
<1>2. PICK f \in [I -> Units] : IsInjective(f)
  BY <1>1 DEF ExistsBijection, Bijection, Injection
<1>3. SetToSeq(Units) \in [I -> Units] /\ IsInjective(SetToSeq(Units))
  BY <1>2 DEF SetToSeq
<1>4. SetToSeq(Units) \in Injection(I, Units)
  BY <1>3 DEF Injection
<1>5. IsFiniteSet(I) /\ Cardinality(I) = Cardinality(Units)
  BY <1>1, FS_Interval
<1>6. SetToSeq(Units) \in Surjection(I, Units)
  BY <1>4, <1>5, UnitsAssumption, FS_Injection
<1>7. QED
  BY <1>1, <1>3, <1>6 DEF Surjection

\* The first of some keys is one of them.
LEMMA FirstKeyIs ==
    ASSUME NEW S, S \subseteq Keys, S # {}
    PROVE  FirstKey(S) \in S
<1> DEFINE three == <<"cert-expiry", "ru-down", "ru-exit-blocked">>
           units == SetToSeq(Units)
           n == Cardinality(Units)
<1>1. units \in Seq(Units) /\ Len(units) = n /\ n \in Nat
  BY UnitsAreListed
<1>2. \A k \in Units : \E i \in 1..n : units[i] = k
  BY UnitsAreListed
<1>3. three \in Seq(Keys) /\ Len(three) = 3
  BY DEF Keys
<1>4. units \in Seq(Keys)
  BY <1>1 DEF Keys
<1> HIDE DEF units, n
<1>5. KeyOrder = three \o units
  BY DEF KeyOrder, units
<1>6. /\ DOMAIN KeyOrder = 1..(3 + n)
      /\ KeyOrder[1] = "cert-expiry" /\ KeyOrder[2] = "ru-down" /\ KeyOrder[3] = "ru-exit-blocked"
      /\ \A i \in 1..n : KeyOrder[3 + i] = units[i]
  BY <1>1, <1>3, <1>4, <1>5
<1>7. \A k \in Keys : \E i \in DOMAIN KeyOrder : KeyOrder[i] = k
  <2> SUFFICES ASSUME NEW k \in Keys PROVE \E i \in DOMAIN KeyOrder : KeyOrder[i] = k
    OBVIOUS
  <2>1. CASE k \in Units
    <3>1. PICK i \in 1..n : units[i] = k
      BY <1>2, <2>1
    <3>2. 3 + i \in DOMAIN KeyOrder /\ KeyOrder[3 + i] = k
      BY <1>1, <1>6, <3>1
    <3>3. QED
      BY <3>2
  <2>2. CASE k \notin Units
    <3>1. 1 \in DOMAIN KeyOrder /\ 2 \in DOMAIN KeyOrder /\ 3 \in DOMAIN KeyOrder
      BY <1>1, <1>6
    <3>2. k \in {"cert-expiry", "ru-down", "ru-exit-blocked"}
      BY <2>2 DEF Keys
    <3>3. QED
      BY <1>6, <3>1, <3>2
  <2>3. QED
    BY <2>1, <2>2
<1> DEFINE T == {i \in DOMAIN KeyOrder : KeyOrder[i] \in S}
<1>8. T # {} /\ T \subseteq Nat
  BY <1>1, <1>6, <1>7
<1>9. PICK i \in T : \A j \in T : <<j, i>> \notin OpToRel(<, Nat)
  BY <1>8, NatLessThanWellFounded, WFMin
<1>10. \A j \in T : ~(j < i)
  <2> TAKE j \in T
  <2>1. j < i => <<j, i>> \in {ss \in Nat \X Nat : ss[1] < ss[2]}
    BY <1>8
  <2>2. OpToRel(<, Nat) = {ss \in Nat \X Nat : ss[1] < ss[2]}
    BY Zenon DEF OpToRel
  <2>3. QED
    BY Zenon, <2>1, <2>2, <1>9
<1>11. i \in DOMAIN KeyOrder /\ KeyOrder[i] \in S /\ \A j \in 1..(i - 1) : KeyOrder[j] \notin S
  BY <1>1, <1>6, <1>10
<1>12. QED
  BY <1>11 DEF FirstKey

\* The mail that is due is one of those that are.
LEMMA DueIs ==
    ASSUME RunInv, NEW u \in Users, Mailing(u)
    PROVE  Due(u) \in run[u].todo /\ Due(u) \in Keys
<1>1. run[u].todo \subseteq Keys /\ run[u].todo # {}
  BY DEF RunInv, RunType, Mailing
<1> DEFINE alerts == run[u].todo \cap run[u].current
           S == IF alerts # {} THEN alerts ELSE run[u].todo
<1>2. S \subseteq run[u].todo /\ S \subseteq Keys /\ S # {}
  BY <1>1
<1>3. FirstKey(S) \in S
  BY <1>2, FirstKeyIs
<1>4. Due(u) = FirstKey(S)
  BY DEF Due
<1>5. QED
  BY <1>1, <1>2, <1>3, <1>4

-----------------------------------------------------------------------------
LEMMA NothingIs ==
    /\ NoFile \in FileType /\ NoFile.keys = {} /\ NoFile.owner = "none"
    /\ NoRun \in RunType /\ NoRun.at = "idle" /\ NoRun.last = {} /\ NoRun.current = {}
    /\ NoRun.todo = {} /\ NoRun.newSet = {}
BY DEF NoFile, FileType, NoRun, RunType

\* A step of u's run leaves the others' alone.
LEMMA OthersStay ==
    ASSUME RunInv, NEW u \in Users, NEW new \in RunType, run' = [run EXCEPT ![u] = new],
           new.todo \cap (new.current \cap new.last) = {},
           new.todo \subseteq new.current \cup new.last, new.todo \cap new.newSet = {},
           new.at \in {"beat", "reach", "units"} => new.todo = {} /\ new.newSet = {}
    PROVE  /\ RunInv' /\ run'[u] = new
           /\ \A v \in Users \ {u} : run'[v] = run[v]
BY DEF RunInv

\* ... and what the operator was told of stays true of them.
LEMMA ToldStays ==
    ASSUME RunInv, ToldInv, NEW u \in Users, NEW new \in RunType,
           run' = [run EXCEPT ![u] = new],
           \A k \in Keys : told[k] # "nothing" => told'[k] # "nothing",
           \A k \in new.last \cup new.newSet : told'[k] # "nothing",
           \A k \in firing'.keys \cup tmp'.keys : told'[k] # "nothing"
    PROVE  ToldInv'
<1>1. run'[u] = new /\ \A v \in Users \ {u} : run'[v] = run[v]
  BY DEF RunInv
<1>2. \A v \in Users : run[v].last \subseteq Keys /\ run[v].newSet \subseteq Keys
  BY DEF RunInv, RunType
<1>3. \A v \in Users \ {u} : \A k \in run'[v].last \cup run'[v].newSet : told'[k] # "nothing"
  BY <1>1, <1>2 DEF ToldInv, Told
<1>4. \A v \in Users : \A k \in run'[v].last \cup run'[v].newSet : told'[k] # "nothing"
  BY <1>1, <1>3
<1>5. QED
  BY <1>4 DEF ToldInv, Told

\* Undisturbed, a run that is under way is the timer's.
LEMMA QuietIsTimer ==
    ASSUME QuietInv, NEW u \in Users, run[u].at # "idle", upsets = 0
    PROVE  u = "rdda"
BY DEF QuietInv

\* What the mails have told so far stays recorded with each of them.
LEMMA MailStep ==
    ASSUME RunInv, DataInv, ToldInv, QuietInv, NEW u \in Users,
           SendOK(u) \/ SendFails(u) \/ SendUnsure(u)
    PROVE  (RunInv /\ DataInv /\ ToldInv /\ QuietInv)'
<1> DEFINE r == run[u]
           k == Due(u)
           alert == k \in r.current
           sent == SendOK(u) \/ SendUnsure(u)
           newSet == IF SendOK(u) THEN Sent(u, k) ELSE NotSent(u, k)
           new == [r EXCEPT !.todo = @ \ {k}, !.newSet = newSet]
<1>1. /\ Mailing(u) /\ UNCHANGED <<beat, blocked, down, cert, firing, tmp, flips>>
      /\ run' = [run EXCEPT ![u].todo = @ \ {k}, ![u].newSet = newSet]
  BY DEF SendOK, SendFails, SendUnsure, Mailed, world, disk
<1>2. k \in r.todo /\ k \in Keys
  BY <1>1, DueIs
<1>3. r \in RunType /\ r.at = "mail"
  BY <1>1 DEF RunInv, Mailing
<1>4. newSet = r.newSet \/ newSet = r.newSet \cup {k}
  BY DEF Sent, NotSent
<1>5. sent => told' = [told EXCEPT ![k] = IF alert THEN "alert" ELSE "resolved"]
  BY DEF SendOK, SendUnsure, Delivered, IsAlert
<1>6. ~sent => told' = told
  BY DEF SendFails
<1>7. /\ owed' \subseteq Keys /\ upsets' \in Nat
      /\ upsets' = upsets \/ upsets' # 0
      /\ upsets' = 0 => upsets = 0 /\ ~SendUnsure(u)
  <2>1. owed' \subseteq Keys
    BY <1>2 DEF SendOK, SendFails, SendUnsure, Delivered, DataInv
  <2>2. upsets \in Nat
    BY DEF DataInv
  <2>3. upsets' = upsets \/ upsets' = upsets + 1
    BY DEF SendOK, SendFails, SendUnsure, Upset
  <2>4. SendUnsure(u) => upsets' = upsets + 1
    BY DEF SendUnsure, Upset
  <2>5. QED
    BY <2>1, <2>2, <2>3, <2>4
<1>8. /\ new \in RunType /\ new.at = "mail" /\ new.last = r.last /\ new.current = r.current
      /\ new.todo = r.todo \ {k} /\ new.newSet = newSet
  BY <1>2, <1>3, <1>4 DEF RunType
<1>9. run' = [run EXCEPT ![u] = new]
  BY <1>1, <1>3 DEF RunInv, RunType
<1>10. /\ alert => newSet = IF SendOK(u) THEN r.newSet \cup {k} ELSE r.newSet
       /\ ~alert => newSet = IF SendOK(u) THEN r.newSet ELSE r.newSet \cup {k}
  BY DEF Sent, NotSent, IsAlert
<1> HIDE DEF new, newSet, k, alert
<1>11. /\ r.todo \cap (r.current \cap r.last) = {} /\ r.todo \cap r.newSet = {}
       /\ r.todo \subseteq r.current \cup r.last
  BY DEF RunInv
<1>12. /\ new.todo \cap (new.current \cap new.last) = {} /\ new.todo \cap new.newSet = {}
       /\ new.todo \subseteq new.current \cup new.last
  BY <1>4, <1>8, <1>11
<1>13. RunInv' /\ run'[u] = new /\ \A v \in Users \ {u} : run'[v] = run[v]
  BY <1>8, <1>9, <1>12, OthersStay
<1>14. /\ told \in [Keys -> {"nothing", "alert", "resolved"}]
       /\ told' \in [Keys -> {"nothing", "alert", "resolved"}]
       /\ \A j \in Keys \ {k} : told'[j] = told[j]
       /\ sent => told'[k] = IF alert THEN "alert" ELSE "resolved"
  BY <1>2, <1>5, <1>6 DEF DataInv
<1>15. DataInv'
  BY <1>1, <1>7, <1>14 DEF DataInv
<1>16. \A j \in Keys : told[j] # "nothing" => told'[j] # "nothing"
  BY <1>6, <1>14
<1>17. \A j \in new.last \cup new.newSet : told'[j] # "nothing"
  <2>1. \A j \in r.last \cup r.newSet : j \in Keys /\ told[j] # "nothing"
    BY <1>3 DEF ToldInv, Told, RunType
  <2>2. k \in newSet => k \in r.newSet \cup r.last \/ sent
    <3>1. ~alert => k \in r.last
      BY <1>2, <1>11 DEF alert
    <3>2. QED
      BY <1>10, <3>1
  <2>3. sent => told'[k] # "nothing"
    BY <1>14
  <2>4. QED
    BY <1>4, <1>8, <1>16, <2>1, <2>2, <2>3
<1>18. ToldInv'
  <2>1. \A j \in firing'.keys \cup tmp'.keys : told'[j] # "nothing"
    BY <1>1, <1>16 DEF ToldInv, Told, DataInv, FileType
  <2>2. QED
    BY <1>8, <1>9, <1>16, <1>17, <2>1, ToldStays
<1>19. QuietInv'
  <2> SUFFICES ASSUME upsets' = 0 PROVE QuietInv'
    BY DEF QuietInv
  <2>1. upsets = 0 /\ ~SendUnsure(u) /\ u = "rdda"
    BY <1>3, <1>7, QuietIsTimer
  <2>2. Believed = r.newSet \cup (r.todo \ r.current)
    BY <1>3, <2>1 DEF QuietInv
  <2>3. Believed' = new.newSet \cup (new.todo \ new.current)
    <3>1. \A j \in Keys \ {k} : told'[j] = "alert" <=> j \in r.newSet \cup (r.todo \ r.current)
      BY <1>14, <2>2 DEF Believed
    <3>2. told[k] = "alert" <=> ~alert
      <4>1. told[k] = "alert" <=> k \in r.newSet \cup (r.todo \ r.current)
        BY <1>2, <2>2 DEF Believed
      <4>2. QED
        BY <1>2, <1>11, <4>1 DEF alert
    <3>3. told'[k] = "alert" <=> k \in newSet
      <4>1. k \notin r.newSet
        BY <1>2, <1>11
      <4>2. QED
        BY <1>6, <1>10, <1>14, <2>1, <3>2, <4>1
    <3>4. new.newSet \subseteq Keys /\ new.todo \subseteq Keys
      BY <1>8 DEF RunType
    <3>5. \A j \in Keys : told'[j] = "alert" <=> j \in new.newSet \cup (new.todo \ new.current)
      BY <1>4, <1>8, <3>1, <3>3
    <3>6. QED
      BY <3>4, <3>5 DEF Believed
  <2>4. QED
    BY <1>1, <1>8, <1>13, <2>1, <2>3 DEF QuietInv, MineOrNone
<1>20. QED
  BY <1>13, <1>15, <1>18, <1>19

\* The other steps of a run, none of which mails anything.
LEMMA LoadStep ==
    ASSUME RunInv, DataInv, ToldInv, QuietInv, NEW u \in Users, LoadFiring(u)
    PROVE  (RunInv /\ DataInv /\ ToldInv /\ QuietInv)'
<1> DEFINE last == IF Readable(u) THEN firing.keys ELSE {}
           new == [NoRun EXCEPT !.at = "beat", !.last = last]
<1>1. /\ run[u].at = "idle" /\ run' = [run EXCEPT ![u] = new]
      /\ UNCHANGED <<firing, tmp, told, owed>>
      /\ IF u = "root" THEN Upset ELSE UNCHANGED upsets
  BY DEF LoadFiring, disk, inbox
<1>2. last \subseteq firing.keys /\ firing.keys \subseteq Keys
  BY DEF DataInv, FileType
<1>3. /\ new \in RunType /\ new.at = "beat" /\ new.last = last
      /\ new.current = {} /\ new.todo = {} /\ new.newSet = {}
  BY <1>2, NothingIs DEF RunType
<1> HIDE DEF new
<1>4. RunInv' /\ run'[u] = new /\ \A v \in Users \ {u} : run'[v] = run[v]
  BY <1>1, <1>3, OthersStay
<1>5. upsets' \in Nat /\ (u = "root" => upsets' # 0) /\ (u # "root" => upsets' = upsets)
  BY <1>1 DEF DataInv, Upset
<1>6. DataInv'
  BY <1>1, <1>5 DEF DataInv
<1>7. ToldInv'
  <2>1. \A k \in firing.keys \cup tmp.keys \cup last : told[k] # "nothing"
    BY <1>2 DEF ToldInv, Told
  <2> HIDE DEF last
  <2>2. QED
    BY <1>1, <1>3, <2>1, ToldStays
<1>8. QuietInv'
  <2> SUFFICES ASSUME upsets' = 0 PROVE QuietInv'
    BY DEF QuietInv
  <2>1. u = "rdda" /\ upsets = 0
    BY <1>5, Bounds
  <2>2. firing.keys = Believed /\ MineOrNone(firing) /\ MineOrNone(tmp)
    BY <1>1, <2>1 DEF QuietInv
  <2>3. last = firing.keys
    BY <2>2 DEF MineOrNone, Readable, NoFile
  <2>4. Believed' = Believed
    BY <1>1 DEF Believed
  <2> HIDE DEF last
  <2>5. QED
    BY <1>1, <1>3, <1>4, <2>1, <2>2, <2>3, <2>4 DEF QuietInv, MineOrNone
<1>9. QED
  BY <1>4, <1>6, <1>7, <1>8

LEMMA ProbeStep ==
    ASSUME RunInv, DataInv, ToldInv, QuietInv, NEW u \in Users, NEW found, found \subseteq Keys,
           NEW next \in {"reach", "units"}, run[u].at \in {"beat", "reach"}, Probe(u, found, next)
    PROVE  (RunInv /\ DataInv /\ ToldInv /\ QuietInv)'
<1> DEFINE r == run[u]
           new == [r EXCEPT !.at = next, !.current = @ \cup found]
<1>1. UNCHANGED <<firing, tmp, told, owed, upsets>>
  BY DEF Probe, disk, inbox, counts
<1>2. r \in RunType /\ r.todo = {} /\ r.newSet = {}
  BY DEF RunInv
<1>3. /\ new \in RunType /\ new.at = next /\ new.last = r.last /\ new.todo = {} /\ new.newSet = {}
      /\ run' = [run EXCEPT ![u] = new]
  BY <1>2 DEF Probe, RunInv, RunType
<1> HIDE DEF new
<1>4. RunInv' /\ run'[u] = new /\ \A v \in Users \ {u} : run'[v] = run[v]
  BY <1>3, OthersStay
<1>5. DataInv'
  BY <1>1 DEF DataInv
<1>6. ToldInv'
  <2>1. \A k \in firing.keys \cup tmp.keys \cup new.last \cup new.newSet : told[k] # "nothing"
    BY <1>3 DEF ToldInv, Told
  <2>2. QED
    BY <1>1, <1>3, <2>1, ToldStays
<1>7. QuietInv'
  <2>1. upsets = 0 => u = "rdda" /\ r.last = Believed
    BY QuietIsTimer DEF QuietInv
  <2>2. Believed' = Believed
    BY <1>1 DEF Believed
  <2>3. QED
    BY <1>1, <1>3, <1>4, <2>1, <2>2 DEF QuietInv, MineOrNone
<1>8. QED
  BY <1>4, <1>5, <1>6, <1>7

LEMMA UnitsStep ==
    ASSUME WorldInv, RunInv, DataInv, ToldInv, QuietInv, NEW u \in Users, EvalUnits(u)
    PROVE  (RunInv /\ DataInv /\ ToldInv /\ QuietInv)'
<1> DEFINE r == run[u]
           cur == r.current \cup down \cup IF cert = "expiring" THEN {"cert-expiry"} ELSE {}
           new == [at |-> "mail", last |-> r.last, current |-> cur,
                   newSet |-> cur \cap r.last, todo |-> ToMail(cur, r.last)]
<1>1. /\ r.at = "units" /\ run' = [run EXCEPT ![u] = new]
      /\ UNCHANGED <<firing, tmp, told, owed, upsets>>
  BY DEF EvalUnits, disk, inbox, counts
<1>2. cur \subseteq Keys /\ r.last \subseteq Keys
  BY DEF RunInv, RunType, WorldInv, Keys
<1> HIDE DEF cur
<1>3. /\ new \in RunType /\ new.at = "mail" /\ new.last = r.last /\ new.current = cur
      /\ new.newSet = cur \cap r.last /\ new.todo = (cur \cup r.last) \ (cur \cap r.last)
  BY <1>2 DEF RunType, ToMail
<1> HIDE DEF new
<1>4. RunInv' /\ run'[u] = new /\ \A v \in Users \ {u} : run'[v] = run[v]
  <2>1. /\ new.todo \cap (new.current \cap new.last) = {} /\ new.todo \cap new.newSet = {}
        /\ new.todo \subseteq new.current \cup new.last
    BY <1>3
  <2>2. QED
    BY <1>1, <1>3, <2>1, OthersStay
<1>5. DataInv'
  BY <1>1 DEF DataInv
<1>6. ToldInv'
  <2>1. \A k \in firing.keys \cup tmp.keys \cup new.last \cup new.newSet : told[k] # "nothing"
    BY <1>3 DEF ToldInv, Told
  <2>2. QED
    BY <1>1, <1>3, <2>1, ToldStays
<1>7. QuietInv'
  <2>1. upsets = 0 => u = "rdda" /\ r.last = Believed
    BY <1>1, QuietIsTimer DEF QuietInv
  <2>2. Believed' = Believed
    BY <1>1 DEF Believed
  <2>3. new.newSet \cup (new.todo \ new.current) = r.last
    BY <1>3
  <2>4. QED
    BY <1>1, <1>3, <1>4, <2>1, <2>2, <2>3 DEF QuietInv, MineOrNone
<1>8. QED
  BY <1>4, <1>5, <1>6, <1>7

\* The run that ends here has nothing more to say.
LEMMA DoneIs ==
    ASSUME RunInv, NEW u \in Users, Done(u)
    PROVE  /\ RunInv' /\ run' = [run EXCEPT ![u] = NoRun]
           /\ run'[u] = NoRun /\ \A v \in Users \ {u} : run'[v] = run[v]
BY NothingIs, OthersStay DEF Done

LEMMA WriteStep ==
    ASSUME RunInv, DataInv, ToldInv, QuietInv, NEW u \in Users, WriteTmp(u)
    PROVE  (RunInv /\ DataInv /\ ToldInv /\ QuietInv)'
<1> DEFINE r == run[u]
           refused == u = "rdda" /\ tmp.owner = "root"
           new == IF refused THEN NoRun ELSE [r EXCEPT !.at = "rename"]
<1>1. /\ r.at = "mail" /\ r.todo = {} /\ UNCHANGED <<firing, told, owed, upsets>>
      /\ refused => tmp' = tmp
      /\ ~refused => tmp' = [keys |-> r.newSet, owner |-> IF tmp.owner = "none" THEN u ELSE tmp.owner]
  BY DEF WriteTmp, inbox, counts
<1>2. r \in RunType
  BY DEF RunInv
<1>3. /\ new \in RunType /\ run' = [run EXCEPT ![u] = new] /\ new.todo = {}
      /\ new.at = IF refused THEN "idle" ELSE "rename"
      /\ new.last \subseteq r.last /\ new.newSet \subseteq r.newSet
  <2>1. CASE refused
    BY <2>1, NothingIs DEF WriteTmp, Done
  <2>2. CASE ~refused
    BY <1>1, <1>2, <2>2 DEF WriteTmp, RunInv, RunType
  <2>3. QED
    BY <2>1, <2>2
<1> HIDE DEF new
<1>4. RunInv' /\ run'[u] = new /\ \A v \in Users \ {u} : run'[v] = run[v]
  BY <1>3, OthersStay
<1>5. tmp' \in FileType /\ (~refused => tmp'.keys = r.newSet /\ tmp' # NoFile)
  <2>1. CASE refused
    BY <1>1, <2>1 DEF DataInv
  <2>2. CASE ~refused
    <3> DEFINE owner == IF tmp.owner = "none" THEN u ELSE tmp.owner
    <3>1. owner \in Users /\ owner # "none"
      BY Bounds DEF DataInv, FileType
    <3>2. tmp' = [keys |-> r.newSet, owner |-> owner] /\ r.newSet \subseteq Keys
      BY <1>1, <1>2, <2>2 DEF RunType
    <3> HIDE DEF owner
    <3>3. QED
      BY <3>1, <3>2, NothingIs DEF FileType
  <2>3. QED
    BY <2>1, <2>2
<1>6. DataInv'
  BY <1>1, <1>5 DEF DataInv
<1>7. ToldInv'
  <2>1. \A k \in firing'.keys \cup tmp'.keys \cup new.last \cup new.newSet : told[k] # "nothing"
    BY <1>1, <1>3, <1>5 DEF ToldInv, Told
  <2>2. QED
    BY <1>1, <1>3, <2>1, ToldStays
<1>8. QuietInv'
  <2> SUFFICES ASSUME upsets = 0 PROVE QuietInv'
    BY <1>1 DEF QuietInv
  <2>1. u = "rdda" /\ Believed = r.newSet /\ MineOrNone(tmp) /\ MineOrNone(firing)
    BY <1>1, QuietIsTimer DEF QuietInv
  <2>2. ~refused
    BY <2>1, NothingIs DEF MineOrNone
  <2>3. tmp'.owner = "rdda"
    BY <1>1, <2>1, <2>2, NothingIs DEF MineOrNone
  <2>4. Believed' = Believed
    BY <1>1 DEF Believed
  <2>5. QED
    BY <1>1, <1>3, <1>4, <1>5, <2>1, <2>2, <2>3, <2>4 DEF QuietInv, MineOrNone
<1>9. QED
  BY <1>4, <1>6, <1>7, <1>8

LEMMA RenameStep ==
    ASSUME RunInv, DataInv, ToldInv, QuietInv, NEW u \in Users, Rename(u)
    PROVE  (RunInv /\ DataInv /\ ToldInv /\ QuietInv)'
<1>1. /\ run[u].at = "rename" /\ Done(u) /\ UNCHANGED <<told, owed, upsets>>
      /\ IF tmp = NoFile THEN UNCHANGED <<firing, tmp>> ELSE firing' = tmp /\ tmp' = NoFile
  BY DEF Rename, inbox, counts, disk
<1>2. /\ RunInv' /\ run' = [run EXCEPT ![u] = NoRun]
      /\ run'[u] = NoRun /\ \A v \in Users \ {u} : run'[v] = run[v]
  BY <1>1, DoneIs
<1>3. DataInv'
  BY <1>1, NothingIs DEF DataInv
<1>4. ToldInv'
  <2>1. \A k \in firing'.keys \cup tmp'.keys : told[k] # "nothing"
    BY <1>1, NothingIs DEF ToldInv, Told
  <2>2. QED
    BY <1>1, <1>2, <2>1, NothingIs, ToldStays
<1>5. QuietInv'
  <2> SUFFICES ASSUME upsets = 0 PROVE QuietInv'
    BY <1>1 DEF QuietInv
  <2>1. u = "rdda" /\ tmp # NoFile /\ tmp.keys = Believed /\ MineOrNone(tmp)
    BY <1>1, QuietIsTimer DEF QuietInv
  <2>2. Believed' = Believed
    BY <1>1 DEF Believed
  <2>3. QED
    BY <1>1, <1>2, <2>1, <2>2, NothingIs DEF QuietInv, MineOrNone
<1>6. QED
  BY <1>2, <1>3, <1>4, <1>5

LEMMA CrashStep ==
    ASSUME RunInv, DataInv, ToldInv, QuietInv, NEW u \in Users, Crash(u)
    PROVE  (RunInv /\ DataInv /\ ToldInv /\ QuietInv)'
<1>1. Done(u) /\ upsets' = upsets + 1 /\ UNCHANGED <<firing, tmp, told, owed>>
  BY DEF Crash, Upset, disk, inbox
<1>2. RunInv' /\ run' = [run EXCEPT ![u] = NoRun]
  BY <1>1, DoneIs
<1>3. DataInv' /\ upsets' # 0
  BY <1>1 DEF DataInv
<1>4. ToldInv'
  <2>1. \A k \in firing.keys \cup tmp.keys : told[k] # "nothing"
    BY DEF ToldInv, Told
  <2>2. QED
    BY <1>1, <1>2, <2>1, NothingIs, ToldStays
<1>5. QED
  BY <1>2, <1>3, <1>4 DEF QuietInv

LEMMA ChownStep ==
    ASSUME RunInv, DataInv, ToldInv, QuietInv, ChownTree
    PROVE  (RunInv /\ DataInv /\ ToldInv /\ QuietInv)'
<1>1. /\ "root" \in {firing.owner, tmp.owner} /\ UNCHANGED <<run, told, owed, upsets>>
      /\ firing' = IF firing = NoFile THEN NoFile ELSE [firing EXCEPT !.owner = "rdda"]
      /\ tmp' = IF tmp = NoFile THEN NoFile ELSE [tmp EXCEPT !.owner = "rdda"]
  BY DEF ChownTree, inbox, counts
<1>2. /\ firing' \in FileType /\ firing'.keys = firing.keys
      /\ tmp' \in FileType /\ tmp'.keys = tmp.keys
  BY <1>1, NothingIs, Bounds DEF DataInv, FileType
<1>3. RunInv' /\ DataInv'
  BY <1>1, <1>2 DEF RunInv, DataInv
<1>4. ToldInv'
  BY <1>1, <1>2 DEF ToldInv, Told
<1>5. upsets # 0
  BY <1>1, NothingIs DEF QuietInv, MineOrNone
<1>6. QED
  BY <1>1, <1>3, <1>4, <1>5 DEF QuietInv

\* The world changes as it likes, and nothing else with it.
LEMMA WorldStep ==
    ASSUME WorldInv, [Next]_vars
    PROVE  WorldInv'
<1>1. CASE Flip
  <2>1. CASE \E b \in BOOLEAN : Beat(b)
    BY <2>1 DEF Beat, WorldInv
  <2>2. CASE Silence
    BY <2>2 DEF Silence, WorldInv
  <2>3. CASE \E n \in Units : UnitFlips(n)
    BY <2>3 DEF UnitFlips, WorldInv
  <2>4. CASE \E c \in {"valid", "expiring", "unknown"} : CertFlips(c)
    BY <2>4 DEF CertFlips, WorldInv
  <2>5. QED
    BY <1>1, <2>1, <2>2, <2>3, <2>4 DEF Flip
<1>2. ASSUME NEW u \in Users, RunStep(u) \/ SendFails(u) \/ SendUnsure(u) \/ Crash(u)
      PROVE  UNCHANGED <<beat, blocked, down, cert>>
  BY <1>2 DEF RunStep, LoadFiring, EvalBeat, EvalReach, EvalUnits, Probe, SendOK, SendFails,
              SendUnsure, Mailed, WriteTmp, Rename, Crash, world
<1>3. CASE UNCHANGED <<beat, blocked, down, cert>>
  BY <1>3 DEF WorldInv
<1>4. QED
  BY <1>1, <1>2, <1>3 DEF Next, ChownTree, vars, world

LEMMA InitIInv == Init => IInv
<1> SUFFICES ASSUME Init PROVE IInv
  OBVIOUS
<1>1. WorldInv
  BY DEF Init, WorldInv
<1>2. /\ firing = NoFile /\ tmp = NoFile /\ owed = {} /\ upsets = 0
      /\ run = [u \in Users |-> NoRun] /\ told = [k \in Keys |-> "nothing"]
  BY DEF Init
<1>3. RunInv
  BY <1>2, NothingIs DEF RunInv
<1>4. DataInv
  BY <1>2, NothingIs DEF DataInv
<1>5. ToldInv
  BY <1>2, NothingIs DEF ToldInv, Told
<1>6. QuietInv
  <2>1. Believed = {}
    BY <1>2 DEF Believed
  <2>2. QED
    BY <1>2, <2>1, NothingIs, Bounds DEF QuietInv, MineOrNone
<1>7. QED
  BY <1>1, <1>3, <1>4, <1>5, <1>6 DEF IInv

LEMMA NextIInv == IInv /\ [Next]_vars => IInv'
<1> SUFFICES ASSUME WorldInv, RunInv, DataInv, ToldInv, QuietInv, [Next]_vars
             PROVE  (RunInv /\ DataInv /\ ToldInv /\ QuietInv)'
  BY WorldStep DEF IInv
<1>1. CASE UNCHANGED <<firing, tmp, run, told, owed, upsets>>
  BY <1>1 DEF RunInv, DataInv, ToldInv, Told, QuietInv, Believed, MineOrNone
<1>2. CASE Flip \/ UNCHANGED vars
  BY <1>1, <1>2 DEF Flip, vars, disk, inbox, counts
<1>3. ASSUME NEW u \in Users, RunStep(u)
      PROVE  (RunInv /\ DataInv /\ ToldInv /\ QuietInv)'
  <2>1. CASE EvalBeat(u)
    <3>1. {} \subseteq Keys /\ {"ru-down"} \subseteq Keys
      BY DEF Keys
    <3>2. QED
      BY <2>1, <3>1, ProbeStep DEF EvalBeat
  <2>2. CASE EvalReach(u)
    <3>1. {} \subseteq Keys /\ {"ru-exit-blocked"} \subseteq Keys
      BY DEF Keys
    <3>2. QED
      BY <2>2, <3>1, ProbeStep DEF EvalReach
  <2>3. QED
    BY <1>3, <2>1, <2>2, LoadStep, UnitsStep, MailStep, WriteStep, RenameStep DEF RunStep
<1>4. ASSUME NEW u \in Users, SendFails(u) \/ SendUnsure(u) \/ Crash(u)
      PROVE  (RunInv /\ DataInv /\ ToldInv /\ QuietInv)'
  BY <1>4, MailStep, CrashStep
<1>5. CASE ChownTree
  BY <1>5, ChownStep
<1>6. QED
  BY <1>2, <1>3, <1>4, <1>5 DEF Next

LEMMA SpecIInv == Spec => []IInv
BY InitIInv, NextIInv, PTL DEF Spec

-----------------------------------------------------------------------------
\* Every variable has its type, and no run mails about a condition that was
\* there before and still is (alert/alert.go:77-186).
THEOREM SpecTypeOK == Spec => []TypeOK
<1>1. IInv => TypeOK
  BY DEF IInv, WorldInv, RunInv, DataInv, TypeOK, FileType, RunType
<1>2. QED
  BY SpecIInv, <1>1, PTL

\* alert/alert.go:152-179 Run: whatever fails, crashes, is run by hand or at the
\* same time, alert-state.json silences only what the operator was mailed about.
THEOREM SpecSilencedWasTold == Spec => []SilencedWasTold
<1>1. IInv => SilencedWasTold
  BY DEF IInv, ToldInv, Told, SilencedWasTold
<1>2. QED
  BY SpecIInv, <1>1, PTL

\* alert/alert.go:142-185 Run: while every run is the timer's and ends, the file
\* between two runs is what the operator's mails say is firing, however many of
\* them failed.
THEOREM SpecFileIsInbox == Spec => []FileIsInbox
<1>1. IInv => FileIsInbox
  BY DEF IInv, QuietInv, Believed, FileIsInbox
<1>2. QED
  BY SpecIInv, <1>1, PTL

\* alert/alert.go:152-179 Run: ... and no mail says what the last one about the
\* same condition said.
THEOREM SpecNoRepeats == Spec => []NoRepeats
<1>1. IInv => NoRepeats
  <2> SUFFICES ASSUME IInv, upsets = 0, Mailing("rdda")
               PROVE  told[Due("rdda")] = "alert" <=> ~IsAlert("rdda", Due("rdda"))
    BY DEF NoRepeats
  <2> DEFINE r == run["rdda"]
             k == Due("rdda")
  <2>1. k \in r.todo /\ k \in Keys
    BY DueIs, Bounds DEF IInv
  <2>2. Believed = r.newSet \cup (r.todo \ r.current)
    BY DEF IInv, QuietInv, Mailing
  <2>3. r.todo \cap r.newSet = {}
    BY Bounds DEF IInv, RunInv
  <2> HIDE DEF k
  <2>4. told[k] = "alert" <=> k \notin r.current
    BY <2>1, <2>2, <2>3 DEF Believed
  <2>5. QED
    BY <2>4 DEF k, IsAlert
<1>2. QED
  BY SpecIInv, <1>1, PTL
=============================================================================
