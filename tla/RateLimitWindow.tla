-------------------------- MODULE RateLimitWindow --------------------------
(***************************************************************************)
(* RateLimit with an observer: at any moment it starts a window, and it    *)
(* counts the requests of each key that are granted within it.             *)
(***************************************************************************)
EXTENDS RateLimit

VARIABLES
    opened,  \* when the current window began
    served   \* served[k]: requests of k granted since then

wvars == <<vars, opened, served>>

WInit ==
    /\ Init
    /\ opened = 0
    /\ served = [k \in Keys |-> 0]

OpenWindow ==
    /\ opened' = now
    /\ served' = [k \in Keys |-> 0]
    /\ UNCHANGED vars

CountedAllow(k) ==
    /\ Allow(k)
    /\ served' = [served EXCEPT ![k] = IF answer'.ok THEN @ + 1 ELSE @]
    /\ UNCHANGED opened

CountedTick == Tick /\ UNCHANGED <<opened, served>>

WNext == OpenWindow \/ CountedTick \/ \E k \in Keys : CountedAllow(k)

WSpec == WInit /\ [][WNext]_wvars

-----------------------------------------------------------------------------
\* ratelimit.go:13-14, server.go:72-74 "30 requests burst, ~1/sec sustained, per
\* client IP": in every window, however the key's bucket is refilled, evicted
\* and recreated meanwhile, no key is granted more than one burst plus what
\* refills during the window.
SustainedRate ==
    \A k \in Keys : served[k] * Cost <= Burst + (now - opened) * Rate

\* Why: each granted token left the bucket, and only time refills it.
WindowBudget ==
    \A k \in Keys : served[k] * Cost + Level(k) <= Burst + (now - opened) * Rate
=============================================================================
