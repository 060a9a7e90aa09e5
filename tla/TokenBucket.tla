---------------------------- MODULE TokenBucket ----------------------------
(***************************************************************************)
(* What a keyed rate limiter promises, with no map, no clock reading and   *)
(* no eviction: every key that exists or ever will owns a bucket that      *)
(* fills by Rate units per clock tick up to Burst units, and a request is  *)
(* granted exactly when its key's bucket holds a whole token (Cost units). *)
(* RateLimit implements this specification with lazily refilled buckets    *)
(* in a map that is swept.                                                 *)
(***************************************************************************)
EXTENDS Integers

CONSTANTS
    Keys,    \* the callers (client addresses) the limiter tells apart
    Burst,   \* capacity of a bucket, in units
    Rate,    \* units a bucket gains per clock tick
    Cost     \* units one request consumes: one token

VARIABLES
    level,   \* level[k]: the units in the bucket of k
    answer   \* the last request and its outcome

NoAnswer == [key |-> "none", ok |-> FALSE]

Fill(n) == IF n > Burst THEN Burst ELSE n

Init ==
    /\ level = [k \in Keys |-> Burst]
    /\ answer = NoAnswer

Pass ==
    /\ level' = [k \in Keys |-> Fill(level[k] + Rate)]
    /\ UNCHANGED answer

Request(k) ==
    LET ok == level[k] >= Cost
    IN  /\ level' = [level EXCEPT ![k] = IF ok THEN @ - Cost ELSE @]
        /\ answer' = [key |-> k, ok |-> ok]

Next == Pass \/ \E k \in Keys : Request(k)

Spec == Init /\ [][Next]_<<level, answer>>
=============================================================================
