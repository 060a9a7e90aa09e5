----------------------------- MODULE RateLimit -----------------------------
(***************************************************************************)
(* internal/ratelimit/ratelimit.go: the token-bucket limiter in front of   *)
(* /ru/config and /ru/health.  Allow holds the limiter's mutex from its    *)
(* first line to its last and reads the clock under it, so one call is one *)
(* step.  Buckets are refilled lazily, when their key is next seen, and    *)
(* idle ones are swept out of the map.                                     *)
(*                                                                         *)
(* Tokens are float64 in the code.  Here they are counted in units of      *)
(* 1/Cost token, so that with Rate < Cost a tick refills a fraction of a   *)
(* token, as elapsed*perSec does.  Rate = 0 stands for perSec <= 0.        *)
(***************************************************************************)
EXTENDS Integers

CONSTANTS
    Keys,        \* the values clientIP returns
    Burst,       \* burst, in units
    Rate,        \* perSec: units per clock tick
    Cost,        \* units in one token
    SweepEvery,  \* sweepEvery, in clock ticks
    MaxTime      \* bound on the clock, for model checking

ASSUME KeysAssumption == "none" \notin Keys
ASSUME CostAssumption == Cost \in Nat /\ Cost > 0
\* New raises a burst below one token to one token.
ASSUME BurstAssumption == Burst \in Nat /\ Burst >= Cost
ASSUME RateAssumption == Rate \in Nat
ASSUME SweepAssumption == SweepEvery \in Nat
ASSUME MaxTimeAssumption == MaxTime \in Nat

VARIABLES
    now,        \* what l.now() returns
    buckets,    \* the map: a function from the keys present to [tokens, last]
    lastSweep,  \* time of the last sweep
    answer      \* the last call's key and result

vars == <<now, buckets, lastSweep, answer>>

NoAnswer == [key |-> "none", ok |-> FALSE]

Cap(n) == IF n > Burst THEN Burst ELSE n

\* The zero time.Time of a new limiter lies further back than any sweep period.
Init ==
    /\ now = 0
    /\ buckets = [k \in {} |-> [tokens |-> Burst, last |-> 0]]
    /\ lastSweep = -SweepEvery
    /\ answer = NoAnswer

\* Mutant: the refill does not stop at a full bucket.
TouchedUncapped(k) ==
    IF k \notin DOMAIN buckets
    THEN [tokens |-> Burst, last |-> now]
    ELSE [tokens |-> buckets[k].tokens + (now - buckets[k].last) * Rate, last |-> now]

\* Mutant: the refill forgets to move last, and counts the same time again.
TouchedTwice(k) ==
    IF k \notin DOMAIN buckets
    THEN [tokens |-> Burst, last |-> now]
    ELSE [buckets[k] EXCEPT !.tokens = Cap(@ + (now - buckets[k].last) * Rate)]

\* The bucket of k after the refill Allow starts with; a new key gets a full one.
Touched(k) ==
    IF k \notin DOMAIN buckets
    THEN [tokens |-> Burst, last |-> now]
    ELSE IF now > buckets[k].last /\ Rate > 0
         THEN [tokens |-> Cap(buckets[k].tokens + (now - buckets[k].last) * Rate),
               last |-> now]
         ELSE buckets[k]

SweepDue == now - lastSweep >= SweepEvery

\* Mutant: a bucket exactly full again is kept.
IdleStrictly(m) == {k \in DOMAIN m : Rate > 0 /\ (now - m[k].last) * Rate > Burst}

\* Mutant: a bucket that has regained one token is dropped.
IdleOneToken(m) == {k \in DOMAIN m : Rate > 0 /\ (now - m[k].last) * Rate >= Cost}

\* The buckets a sweep deletes from map m: those idle long enough to be full.
Idle(m) == {k \in DOMAIN m : Rate > 0 /\ (now - m[k].last) * Rate >= Burst}

Sweep(m) == [k \in DOMAIN m \ Idle(m) |-> m[k]]

\* The map once Allow has looked k up, and once it has swept.
Looked(k) ==
    [j \in DOMAIN buckets \cup {k} |-> IF j = k THEN Touched(k) ELSE buckets[j]]

Kept(k) == IF SweepDue THEN Sweep(Looked(k)) ELSE Looked(k)

\* A request takes one token from a bucket that holds one.
Charge(b) ==
    IF b.tokens >= Cost THEN [tokens |-> b.tokens - Cost, last |-> b.last] ELSE b

\* Allow charges the bucket it holds a pointer to, whether or not the sweep
\* between the refill and the charge has dropped that bucket from the map.
Allow(k) ==
    /\ buckets' = [j \in DOMAIN Kept(k) |->
                      IF j = k THEN Charge(Kept(k)[j]) ELSE Kept(k)[j]]
    /\ lastSweep' = IF SweepDue THEN now ELSE lastSweep
    /\ answer' = [key |-> k, ok |-> Touched(k).tokens >= Cost]
    /\ UNCHANGED now

Tick ==
    /\ now < MaxTime
    /\ now' = now + 1
    /\ UNCHANGED <<buckets, lastSweep, answer>>

Next == Tick \/ \E k \in Keys : Allow(k)

Spec == Init /\ [][Next]_vars

-----------------------------------------------------------------------------
\* Every variable has the type the code gives it; no bucket is over-full,
\* overdrawn, or refilled at a time that has not come.
TypeOK ==
    /\ now \in Nat
    /\ DOMAIN buckets \subseteq Keys
    /\ buckets \in [DOMAIN buckets -> [tokens : 0..Burst, last : 0..now]]
    /\ lastSweep \in Int
    /\ lastSweep <= now
    /\ answer \in [key : Keys \cup {"none"}, ok : BOOLEAN]

\* ratelimit.go:72-74 "bounds memory under many distinct keys": the map holds
\* no bucket that was already reclaimable when the last sweep ran, so its size
\* is bounded by the keys seen within one refill period before that sweep.
SweptMapIsRecent ==
    Rate > 0 => \A k \in DOMAIN buckets : (lastSweep - buckets[k].last) * Rate < Burst

-----------------------------------------------------------------------------
\* The units k could spend now: what its bucket holds plus what the next Allow
\* will add.  A key that is not in the map could spend a full burst.
Level(k) ==
    IF k \in DOMAIN buckets
    THEN Cap(buckets[k].tokens + (now - buckets[k].last) * Rate)
    ELSE Burst

Promise == INSTANCE TokenBucket WITH level <- [k \in Keys |-> Level(k)]

\* ratelimit.go:72-74 "such a bucket is indistinguishable from a fresh one, so
\* removing it is lossless": lazy refill and sweeping are invisible, and every
\* answer is the one a bucket per key that is never evicted would give.
LosslessEviction == Promise!Spec
=============================================================================
