-------------------------- MODULE RateLimitProofs --------------------------
(***************************************************************************)
(* Theorems about the limiter, for every burst, rate, sweep period, clock  *)
(* bound and set of keys.                                                  *)
(***************************************************************************)
EXTENDS RateLimitWindow, TLAPS

USE CostAssumption, BurstAssumption, RateAssumption, SweepAssumption,
    MaxTimeAssumption, KeysAssumption

Bucket == [tokens : 0..Burst, last : 0..now]

-----------------------------------------------------------------------------
\* The bucket Allow works on is a bucket, and it holds exactly the key's level.
LEMMA TouchedIsLevel ==
    ASSUME TypeOK, NEW k \in Keys
    PROVE  /\ Touched(k) \in Bucket
           /\ Touched(k).tokens = Level(k)
           /\ Touched(k).last = now \/ Rate = 0
<1>1. CASE k \notin DOMAIN buckets
  BY <1>1 DEF TypeOK, Touched, Level, Bucket
<1>2. CASE k \in DOMAIN buckets
  <2> DEFINE t == buckets[k].tokens
             e == now - buckets[k].last
             g == e * Rate
  <2>1. buckets[k] \in Bucket /\ t \in 0..Burst /\ buckets[k].last \in 0..now /\ now \in Nat
    BY <1>2 DEF TypeOK, Bucket
  <2>2. e \in Nat /\ g \in Nat
    BY <2>1
  <2>3. (e = 0 => g = 0) /\ (Rate = 0 => g = 0)
    BY <2>2
  <2> HIDE DEF g
  <2>4. Touched(k) = IF now > buckets[k].last /\ Rate > 0
                     THEN [tokens |-> Cap(t + g), last |-> now] ELSE buckets[k]
    BY <1>2 DEF Touched, g
  <2>5. Level(k) = Cap(t + g)
    BY <1>2 DEF Level, g
  <2>6. CASE now > buckets[k].last /\ Rate > 0
    BY <2>1, <2>2, <2>4, <2>5, <2>6 DEF Cap, Bucket
  <2>7. CASE ~(now > buckets[k].last /\ Rate > 0)
    <3>1. g = 0 /\ (buckets[k].last = now \/ Rate = 0)
      BY <2>1, <2>3, <2>7
    <3>2. QED BY <3>1, <2>1, <2>4, <2>5, <2>7 DEF Cap
  <2>8. QED BY <2>6, <2>7
<1>3. QED BY <1>1, <1>2

\* A level is never more than a burst.
LEMMA LevelBounds == TypeOK => \A k \in Keys : Level(k) \in 0..Burst
BY TouchedIsLevel DEF Bucket

LEMMA NextLevelBounds == TypeOK' => (\A k \in Keys : Level(k) \in 0..Burst)'
BY LevelBounds, PTL

-----------------------------------------------------------------------------
(***************************************************************************)
(* One call of Allow, seen key by key.                                     *)
(***************************************************************************)

\* The caller's bucket was just touched, so a sweep never drops it: the
\* pointer Allow charges always points into the map.
LEMMA CallerKept ==
    ASSUME TypeOK, NEW k \in Keys
    PROVE  k \in DOMAIN Kept(k) /\ Kept(k)[k] = Touched(k)
<1>1. k \in DOMAIN Looked(k) /\ Looked(k)[k] = Touched(k)
  BY DEF Looked
<1>2. k \notin Idle(Looked(k))
  <2>1. CASE Rate = 0
    BY <2>1 DEF Idle
  <2>2. CASE Touched(k).last = now
    <3>1. (now - Touched(k).last) * Rate = 0
      BY <2>2 DEF TypeOK
    <3>2. QED BY <3>1, <1>1 DEF Idle
  <2>3. QED BY <2>1, <2>2, TouchedIsLevel
<1>3. QED BY <1>1, <1>2 DEF Kept, Sweep

\* Every other bucket is left as it was, or was full again and is dropped.
LEMMA OthersKept ==
    ASSUME TypeOK, NEW k \in Keys, NEW j \in Keys, j # k
    PROVE  /\ j \in DOMAIN Kept(k) =>
                 /\ j \in DOMAIN buckets
                 /\ Kept(k)[j] = buckets[j]
                 /\ SweepDue => ~(Rate > 0 /\ (now - buckets[j].last) * Rate >= Burst)
           /\ (j \in DOMAIN buckets /\ j \notin DOMAIN Kept(k)) =>
                 (now - buckets[j].last) * Rate >= Burst
<1>1. j \in DOMAIN Looked(k) <=> j \in DOMAIN buckets
  BY DEF Looked
<1>2. j \in DOMAIN buckets => Looked(k)[j] = buckets[j]
  BY DEF Looked
<1>3. QED BY <1>1, <1>2 DEF Kept, Sweep, Idle

LEMMA KeptKeys ==
    ASSUME TypeOK, NEW k \in Keys
    PROVE  DOMAIN Kept(k) \subseteq Keys
BY DEF TypeOK, Kept, Sweep, Looked

\* The map after the call: the caller's bucket charged, the others untouched.
LEMMA AllowMap ==
    ASSUME TypeOK, NEW k \in Keys, Allow(k)
    PROVE  /\ DOMAIN buckets' = DOMAIN Kept(k)
           /\ k \in DOMAIN buckets'
           /\ buckets'[k] = Charge(Touched(k))
           /\ \A j \in DOMAIN buckets' \ {k} :
                 j \in DOMAIN buckets /\ buckets'[j] = buckets[j]
<1>1. DOMAIN buckets' = DOMAIN Kept(k)
  BY DEF Allow
<1>2. k \in DOMAIN Kept(k) /\ Kept(k)[k] = Touched(k)
  BY CallerKept
<1>3. buckets'[k] = Charge(Touched(k))
  BY <1>2 DEF Allow
<1>4. ASSUME NEW j \in DOMAIN Kept(k) \ {k}
      PROVE  j \in DOMAIN buckets /\ buckets'[j] = buckets[j]
  <2>1. j \in Keys
    BY KeptKeys
  <2>2. j \in DOMAIN buckets /\ Kept(k)[j] = buckets[j]
    BY <2>1, OthersKept
  <2>3. buckets'[j] = Kept(k)[j]
    BY DEF Allow
  <2>4. QED BY <2>2, <2>3
<1>5. QED BY <1>1, <1>2, <1>3, <1>4

-----------------------------------------------------------------------------
LEMMA TypeStep == TypeOK /\ [Next]_vars => TypeOK'
<1> SUFFICES ASSUME TypeOK, [Next]_vars PROVE TypeOK'
  OBVIOUS
<1>1. CASE Tick
  <2>1. buckets \in [DOMAIN buckets -> [tokens : 0..Burst, last : 0..now']]
    <3>1. 0..now \subseteq 0..now'
      BY <1>1 DEF TypeOK, Tick
    <3>2. QED BY <3>1 DEF TypeOK
  <2>2. QED BY <1>1, <2>1 DEF TypeOK, Tick
<1>2. ASSUME NEW k \in Keys, Allow(k) PROVE TypeOK'
  <2>1. DOMAIN buckets' \subseteq Keys
    BY <1>2, AllowMap, KeptKeys
  <2>2. ASSUME NEW j \in DOMAIN buckets'
        PROVE  buckets'[j] \in Bucket
    <3>1. Touched(k) \in Bucket
      BY TouchedIsLevel
    <3>2. CASE j = k
      <4>1. buckets'[k] = Charge(Touched(k))
        BY <1>2, AllowMap
      <4>2. Charge(Touched(k)) \in Bucket
        BY <3>1 DEF Charge, Bucket
      <4>3. QED BY <3>2, <4>1, <4>2
    <3>3. CASE j # k
      BY <1>2, <3>3, AllowMap DEF TypeOK, Bucket
    <3>4. QED BY <3>2, <3>3
  <2>3. buckets' = [j \in DOMAIN buckets' |-> buckets'[j]]
    BY <1>2 DEF Allow
  <2>4. buckets' \in [DOMAIN buckets' -> Bucket]
    BY <2>2, <2>3
  <2>5. now' = now /\ lastSweep' \in Int /\ lastSweep' <= now
    BY <1>2 DEF Allow, TypeOK
  <2>6. answer' \in [key : Keys \cup {"none"}, ok : BOOLEAN]
    BY <1>2 DEF Allow
  <2>7. QED BY <2>1, <2>4, <2>5, <2>6 DEF TypeOK, Bucket
<1>3. CASE UNCHANGED vars
  BY <1>3 DEF TypeOK, vars
<1>4. QED BY <1>1, <1>2, <1>3 DEF Next

LEMMA TypeInit == Init => TypeOK
BY DEF Init, TypeOK, NoAnswer

\* Every bucket stays between empty and full and is never refilled from the
\* future, whatever the callers do.
THEOREM TypeCorrect == Spec => []TypeOK
BY TypeInit, TypeStep, PTL DEF Spec

-----------------------------------------------------------------------------
LEMMA SweptStep == TypeOK /\ SweptMapIsRecent /\ [Next]_vars => SweptMapIsRecent'
<1> SUFFICES ASSUME TypeOK, SweptMapIsRecent, [Next]_vars, Rate > 0,
                    NEW j \in DOMAIN buckets'
             PROVE  (lastSweep' - buckets'[j].last) * Rate < Burst
  BY DEF SweptMapIsRecent
<1>1. CASE Tick
  BY <1>1 DEF Tick, SweptMapIsRecent
<1>2. ASSUME NEW k \in Keys, Allow(k)
      PROVE  (lastSweep' - buckets'[j].last) * Rate < Burst
  <2>1. lastSweep' \in Int /\ now \in Nat /\ lastSweep' <= now
    BY <1>2 DEF Allow, TypeOK
  <2>2. CASE j = k
    <3>1. Touched(k).last = now
      BY TouchedIsLevel
    <3>2. buckets'[k] = Charge(Touched(k))
      BY <1>2, AllowMap
    <3>7. buckets'[k].last = now
      BY <3>1, <3>2 DEF Charge
    <3>3. ASSUME NEW x \in Int, x <= 0 PROVE x * Rate <= 0
      BY <3>3
    <3>8. ASSUME NEW s \in Int, NEW n \in Nat, s <= n PROVE s - n \in Int /\ s - n <= 0
      BY <3>8
    <3>4. lastSweep' - now \in Int /\ lastSweep' - now <= 0
      BY <2>1, <3>8
    <3>5. (lastSweep' - now) * Rate <= 0 /\ (lastSweep' - now) * Rate \in Int
      BY <3>3, <3>4
    <3>6. QED BY <2>2, <3>7, <3>5
  <2>3. CASE j # k
    <3>1. j \in Keys /\ j \in DOMAIN buckets /\ j \in DOMAIN Kept(k)
          /\ buckets'[j] = buckets[j]
      BY <1>2, <2>3, AllowMap DEF TypeOK
    <3>2. buckets[j].last \in 0..now
      BY <3>1 DEF TypeOK
    <3>3. CASE SweepDue
      <4>1. lastSweep' = now
        BY <1>2, <3>3 DEF Allow
      <4>2. ~((now - buckets[j].last) * Rate >= Burst)
        BY <2>3, <3>1, <3>3, OthersKept
      <4>3. (now - buckets[j].last) * Rate \in Int
        BY <3>2, <2>1
      <4>4. QED BY <3>1, <4>1, <4>2, <4>3
    <3>4. CASE ~SweepDue
      BY <1>2, <3>1, <3>4 DEF Allow, SweptMapIsRecent
    <3>5. QED BY <3>3, <3>4
  <2>4. QED BY <2>2, <2>3
<1>3. CASE UNCHANGED vars
  BY <1>3 DEF vars, SweptMapIsRecent
<1>4. QED BY <1>1, <1>2, <1>3 DEF Next

\* However many distinct keys call, the map never holds a bucket that its last
\* sweep could have reclaimed.
THEOREM MapStaysRecent == Spec => []SweptMapIsRecent
<1>1. Init => SweptMapIsRecent
  BY DEF Init, SweptMapIsRecent
<1>2. QED BY <1>1, SweptStep, TypeCorrect, PTL DEF Spec

-----------------------------------------------------------------------------
(***************************************************************************)
(* What the steps do to the levels.                                        *)
(***************************************************************************)

LEMMA TickLevel ==
    ASSUME TypeOK, Tick, NEW k \in Keys
    PROVE  Level(k)' = Cap(Level(k) + Rate)
<1>1. CASE k \notin DOMAIN buckets
  BY <1>1 DEF Tick, Level, Cap
<1>2. CASE k \in DOMAIN buckets
  <2> DEFINE t == buckets[k].tokens
             e == now - buckets[k].last
             g == e * Rate
  <2>1. t \in 0..Burst /\ buckets[k].last \in 0..now /\ now \in Nat
    BY <1>2 DEF TypeOK
  <2>2. e \in Nat /\ g \in Nat
    BY <2>1
  <2>3. Level(k) = Cap(t + g)
    BY <1>2 DEF Level
  <2>10. buckets' = buckets /\ now' = now + 1
    BY DEF Tick
  <2>11. Level(k)' = Cap(buckets'[k].tokens + (now' - buckets'[k].last) * Rate)
    BY <1>2, <2>10 DEF Level
  <2>12. now' - buckets'[k].last = e + 1
    BY <2>1, <2>10
  <2>13. buckets'[k].tokens = t
    BY <2>10
  <2>4. Level(k)' = Cap(t + (e + 1) * Rate)
    BY <2>11, <2>12, <2>13
  <2>6. (e + 1) * Rate = g + Rate
    BY <2>2
  <2>7. Level(k)' = Cap(t + (g + Rate))
    BY <2>4, <2>6
  <2> HIDE DEF g
  <2>8. Cap(t + (g + Rate)) = Cap(Cap(t + g) + Rate)
    BY <2>1, <2>2 DEF Cap
  <2>9. QED BY <2>3, <2>7, <2>8
<1>3. QED BY <1>1, <1>2

LEMMA CallerLevel ==
    ASSUME TypeOK, NEW k \in Keys, Allow(k)
    PROVE  Level(k)' = IF Level(k) >= Cost THEN Level(k) - Cost ELSE Level(k)
<1> DEFINE b == Touched(k)
<1>1. b \in Bucket /\ b.tokens = Level(k) /\ (b.last = now \/ Rate = 0)
  BY TouchedIsLevel
<1>2. k \in DOMAIN buckets' /\ buckets'[k] = Charge(b) /\ now' = now
  BY AllowMap DEF Allow
<1>3. Charge(b).last = b.last /\ Charge(b).tokens \in 0..Burst
  BY <1>1 DEF Charge, Bucket
<1>4. b.last \in 0..now /\ now \in Nat
  BY <1>1 DEF Bucket, TypeOK
<1>5. (now - b.last) * Rate = 0
  BY <1>1, <1>4
<1>6. Level(k)' = Cap(Charge(b).tokens + (now - Charge(b).last) * Rate)
  BY <1>2 DEF Level, Cap
<1>7. Level(k)' = Cap(Charge(b).tokens)
  BY <1>3, <1>5, <1>6
<1>8. Level(k)' = Charge(b).tokens
  BY <1>3, <1>7 DEF Cap
<1>9. Charge(b).tokens = IF b.tokens >= Cost THEN b.tokens - Cost ELSE b.tokens
  BY DEF Charge
<1>10. QED BY <1>1, <1>8, <1>9

\* A bucket the sweep drops was full: its key loses nothing.
LEMMA OtherLevel ==
    ASSUME TypeOK, NEW k \in Keys, Allow(k), NEW j \in Keys, j # k
    PROVE  Level(j)' = Level(j)
<1>1. now' = now /\ DOMAIN buckets' = DOMAIN Kept(k)
  BY AllowMap DEF Allow
<1>2. CASE j \in DOMAIN Kept(k)
  <2>1. j \in DOMAIN buckets /\ j \in DOMAIN buckets' /\ buckets'[j] = buckets[j]
    BY <1>1, <1>2, AllowMap
  <2>2. QED BY <1>1, <2>1 DEF Level, Cap
<1>3. CASE j \notin DOMAIN buckets
  <2>1. j \notin DOMAIN buckets'
    BY <1>1, <1>3, OthersKept
  <2>2. QED BY <1>3, <2>1 DEF Level
<1>4. CASE j \in DOMAIN buckets /\ j \notin DOMAIN Kept(k)
  <2> DEFINE g == (now - buckets[j].last) * Rate
  <2>1. g >= Burst
    BY <1>4, OthersKept
  <2>2. buckets[j].tokens \in 0..Burst /\ buckets[j].last \in 0..now /\ now \in Nat
    BY <1>4 DEF TypeOK
  <2>3. g \in Int
    BY <2>2
  <2>4. Level(j) = Cap(buckets[j].tokens + g)
    BY <1>4 DEF Level
  <2>5. Level(j)' = Burst
    BY <1>1, <1>4 DEF Level
  <2> HIDE DEF g
  <2>6. QED BY <2>1, <2>2, <2>3, <2>4, <2>5 DEF Cap
<1>5. QED BY <1>2, <1>3, <1>4

-----------------------------------------------------------------------------
(***************************************************************************)
(* The limiter implements TokenBucket.                                     *)
(***************************************************************************)

LEMMA InitRefines == Init => Promise!Init
BY DEF Init, Promise!Init, Level, NoAnswer, Promise!NoAnswer

LEMMA StepRefines ==
    TypeOK /\ [Next]_vars =>
        [Promise!Next]_<<[k \in Keys |-> Level(k)], answer>>
<1> DEFINE lv == [k \in Keys |-> Level(k)]
<1> SUFFICES ASSUME TypeOK, [Next]_vars
             PROVE  Promise!Next \/ (lv' = lv /\ answer' = answer)
  OBVIOUS
<1>1. CASE Tick
  <2>1. lv' = [k \in Keys |-> Level(k)']
    OBVIOUS
  <2>2. lv' = [k \in Keys |-> Cap(lv[k] + Rate)]
    BY <1>1, <2>1, TickLevel
  <2>3. lv' = [k \in Keys |-> Promise!Fill(lv[k] + Rate)]
    BY <2>2 DEF Promise!Fill, Cap
  <2>4. Promise!Pass
    BY <1>1, <2>3 DEF Promise!Pass, Tick
  <2>5. QED BY <2>4 DEF Promise!Next
<1>2. ASSUME NEW k \in Keys, Allow(k) PROVE Promise!Next
  <2>1. answer' = [key |-> k, ok |-> lv[k] >= Cost]
    BY <1>2, TouchedIsLevel DEF Allow
  <2>2. lv' = [j \in Keys |-> Level(j)']
    OBVIOUS
  <2>3. ASSUME NEW j \in Keys
        PROVE  Level(j)' = [lv EXCEPT ![k] = IF lv[k] >= Cost THEN @ - Cost ELSE @][j]
    <3>1. CASE j = k
      BY <1>2, <3>1, CallerLevel
    <3>2. CASE j # k
      BY <1>2, <3>2, OtherLevel
    <3>3. QED BY <3>1, <3>2
  <2>4. lv' = [lv EXCEPT ![k] = IF lv[k] >= Cost THEN @ - Cost ELSE @]
    BY <2>2, <2>3
  <2>5. Promise!Request(k)
    BY <2>1, <2>4 DEF Promise!Request
  <2>6. QED BY <2>5 DEF Promise!Next
<1>3. CASE UNCHANGED vars
  BY <1>3 DEF vars, Level, Cap
<1>4. QED BY <1>1, <1>2, <1>3 DEF Next

\* Lazy refill and eviction are invisible to every caller: each answer is the
\* one a bucket per key that is refilled every tick and never evicted gives.
THEOREM EvictionIsLossless == Spec => LosslessEviction
<1>1. Spec => [][Promise!Next]_<<[k \in Keys |-> Level(k)], answer>>
  BY StepRefines, TypeCorrect, PTL DEF Spec
<1>2. Spec => Promise!Init
  BY InitRefines DEF Spec
<1>3. QED BY <1>1, <1>2, PTL DEF LosslessEviction, Promise!Spec

-----------------------------------------------------------------------------
(***************************************************************************)
(* The sustained rate, over every window.                                  *)
(***************************************************************************)

WindowTypeOK ==
    /\ opened \in 0..now
    /\ served \in [Keys -> Nat]

WindowInv == TypeOK /\ WindowTypeOK /\ WindowBudget

LEMMA WindowInit == WInit => WindowInv
<1> SUFFICES ASSUME WInit PROVE WindowInv
  OBVIOUS
<1>1. TypeOK
  BY TypeInit DEF WInit
<1>2. WindowTypeOK
  BY DEF WInit, Init, WindowTypeOK
<1>3. WindowBudget
  <2>1. (now - opened) * Rate = 0
    BY DEF WInit, Init
  <2>2. ASSUME NEW k \in Keys
        PROVE  served[k] * Cost + Level(k) <= Burst + (now - opened) * Rate
    <3>1. served[k] * Cost = 0
      BY DEF WInit
    <3>2. Level(k) = Burst
      BY DEF WInit, Init, Level
    <3>3. QED BY <2>1, <3>1, <3>2
  <2>3. QED BY <2>2 DEF WindowBudget
<1>4. QED BY <1>1, <1>2, <1>3 DEF WindowInv

LEMMA WindowStep == WindowInv /\ [WNext]_wvars => WindowInv'
<1> SUFFICES ASSUME WindowInv, [WNext]_wvars PROVE WindowInv'
  OBVIOUS
<1> USE DEF WindowInv
<1>1. TypeOK'
  <2>1. [Next]_vars
    BY DEF WNext, CountedTick, CountedAllow, OpenWindow, Next, wvars
  <2>2. QED BY <2>1, TypeStep
<1>2. \A k \in Keys : /\ Level(k) \in 0..Burst /\ Level(k)' \in 0..Burst
                      /\ served[k] \in Nat
  <2>1. \A k \in Keys : Level(k) \in 0..Burst
    BY LevelBounds
  <2>2. \A k \in Keys : Level(k)' \in 0..Burst
    BY <1>1, NextLevelBounds
  <2>3. QED BY <2>1, <2>2 DEF WindowTypeOK
<1>3. now \in Nat /\ opened \in 0..now
  BY DEF TypeOK, WindowTypeOK
<1>4. CASE OpenWindow
  <2>1. WindowTypeOK'
    BY <1>3, <1>4 DEF OpenWindow, WindowTypeOK, vars
  <2>2. ASSUME NEW k \in Keys
        PROVE  served'[k] * Cost + Level(k)' <= Burst + (now' - opened') * Rate
    <3>1. served'[k] * Cost = 0 /\ (now' - opened') * Rate = 0
      BY <1>3, <1>4 DEF OpenWindow, vars
    <3>2. QED BY <1>2, <3>1
  <2>3. WindowBudget'
    BY <2>2 DEF WindowBudget
  <2>4. QED BY <1>1, <2>1, <2>3
<1>5. CASE CountedTick
  <2>1. now' = now + 1 /\ opened' = opened /\ served' = served
    BY <1>5 DEF CountedTick, Tick
  <2>2. WindowTypeOK'
    BY <1>3, <2>1 DEF WindowTypeOK
  <2>3. ASSUME NEW k \in Keys
        PROVE  served'[k] * Cost + Level(k)' <= Burst + (now' - opened') * Rate
    <3> DEFINE s == served[k] * Cost
               w == (now - opened) * Rate
    <3>1. Level(k)' <= Level(k) + Rate
      BY <1>2, <1>5, TickLevel DEF CountedTick, Cap
    <3>2. (now' - opened') * Rate = w + Rate
      BY <1>3, <2>1
    <3>3. s \in Nat /\ w \in Nat
      BY <1>2, <1>3
    <3>4. s + Level(k) <= Burst + w
      BY DEF WindowBudget
    <3>5. served'[k] * Cost = s
      BY <2>1
    <3> HIDE DEF s, w
    <3>6. QED BY <1>2, <3>1, <3>2, <3>3, <3>4, <3>5
  <2>4. WindowBudget'
    BY <2>3 DEF WindowBudget
  <2>5. QED BY <1>1, <2>2, <2>4
<1>6. ASSUME NEW c \in Keys, CountedAllow(c) PROVE WindowInv'
  <2>1. Allow(c) /\ now' = now /\ opened' = opened
    BY <1>6 DEF CountedAllow, Allow
  <2>2. served' = [served EXCEPT ![c] = IF Level(c) >= Cost THEN @ + 1 ELSE @]
    BY <1>6, TouchedIsLevel DEF CountedAllow, Allow
  <2>3. WindowTypeOK'
    BY <1>2, <1>3, <2>1, <2>2 DEF WindowTypeOK
  <2>4. ASSUME NEW k \in Keys
        PROVE  served'[k] * Cost + Level(k)' <= Burst + (now' - opened') * Rate
    <3> DEFINE s == served[k] * Cost
               w == (now - opened) * Rate
    <3>1. s + Level(k) <= Burst + w
      BY DEF WindowBudget
    <3>2. s \in Nat /\ w \in Nat /\ (served[k] + 1) * Cost = s + Cost
      BY <1>2, <1>3
    <3>3. (now' - opened') * Rate = w
      BY <2>1
    <3>4. served[k] * Cost = s
      OBVIOUS
    <3> HIDE DEF s, w
    <3>5. CASE k = c /\ Level(c) >= Cost
      <4>1. served'[k] * Cost = s + Cost
        BY <2>2, <3>2, <3>5 DEF WindowTypeOK
      <4>2. Level(k)' = Level(k) - Cost
        BY <2>1, <3>5, CallerLevel
      <4>3. QED BY <1>2, <3>1, <3>2, <3>3, <4>1, <4>2
    <3>6. CASE ~(k = c /\ Level(c) >= Cost)
      <4>1. served'[k] * Cost = s
        BY <2>2, <3>4, <3>6 DEF WindowTypeOK
      <4>2. Level(k)' = Level(k)
        BY <2>1, <3>6, CallerLevel, OtherLevel
      <4>3. QED BY <3>1, <3>3, <4>1, <4>2
    <3>7. QED BY <3>5, <3>6
  <2>5. WindowBudget'
    BY <2>4 DEF WindowBudget
  <2>6. QED BY <1>1, <2>3, <2>5
<1>7. CASE UNCHANGED wvars
  BY <1>1, <1>7 DEF wvars, vars, WindowTypeOK, WindowBudget, Level, Cap
<1>8. QED BY <1>4, <1>5, <1>6, <1>7 DEF WNext

LEMMA BudgetBoundsRate == WindowInv => SustainedRate
<1> SUFFICES ASSUME WindowInv, NEW k \in Keys
             PROVE  served[k] * Cost <= Burst + (now - opened) * Rate
  BY DEF SustainedRate
<1>1. Level(k) \in 0..Burst
  BY LevelBounds DEF WindowInv
<1>2. served[k] * Cost \in Nat /\ (now - opened) * Rate \in Nat
  BY DEF WindowInv, WindowTypeOK, TypeOK
<1>3. served[k] * Cost + Level(k) <= Burst + (now - opened) * Rate
  BY DEF WindowInv, WindowBudget
<1>4. QED BY <1>1, <1>2, <1>3

\* No key is ever granted more than burst + rate * time, over any window,
\* however its bucket is evicted and recreated meanwhile.
THEOREM RateIsSustained == WSpec => []SustainedRate
BY WindowInit, WindowStep, BudgetBoundsRate, PTL DEF WSpec

\* Nor is it ever granted, together with what its bucket still holds, more than
\* that: every token granted in a window has left the bucket, and only time
\* refills it (ratelimit.go:41-70).
THEOREM WindowBudgetHolds == WSpec => []WindowBudget
<1>1. WindowInv => WindowBudget
  BY DEF WindowInv
<1>2. QED
  BY <1>1, WindowInit, WindowStep, PTL DEF WSpec
=============================================================================
