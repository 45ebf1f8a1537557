----------------------------- MODULE RateLimiter -----------------------------
(***************************************************************************)
(* src/src/middleware/rate_limit.rs: the sliding window that every request *)
(* passes, with the parameters create_router gives it.                     *)
(***************************************************************************)
EXTENDS Histories

CONSTANTS
    IPs,         \* client addresses
    Burst,       \* rate_limit.burst_size
    Rps,         \* rate_limit.requests_per_second
    MaxTracked,  \* MAX_TRACKED_IPS
    MaxTime      \* bound on the clock, for model checking only

ASSUME RateLimiterAssumption ==
    /\ Burst \in Nat \ {0}
    /\ Rps \in Nat \ {0}
    /\ MaxTracked \in Nat \ {0}
    /\ MaxTime \in Nat

VARIABLES
    now,       \* the clock, in seconds
    requests,  \* RateLimiter.requests: client -> stamps of its grants
    granted    \* history: all the grants of a client since it was evicted

vars == <<now, requests, granted>>

\* create_router: whole seconds, and at least one.
Window == IF Burst \div Rps = 0 THEN 1 ELSE Burst \div Rps

Init ==
    /\ now = 0
    /\ requests = << >>
    /\ granted = [ip \in IPs |-> << >>]

\* The history restarts for a client whose stamps an eviction forgot.
Granted(h, ip) == IF ip \in DOMAIN requests \ DOMAIN h THEN << >> ELSE granted[ip]

\* MUTANT: one request more than the burst gets through.
HasQuotaPlusOne(times) == Len(times) <= Burst

HasQuota(times) == Len(times) < Burst

Grant(ip) ==
    \E h \in RoomFor(requests, ip, MaxTracked) :
        LET recent == Recent(HistoryOf(h, ip), now, Window)
        IN  /\ HasQuota(recent)
            /\ requests' = WithHistory(h, ip, Append(recent, now))
            /\ granted' = [x \in IPs |->
                              IF x = ip THEN Append(Granted(h, x), now)
                                        ELSE Granted(h, x)]

Refuse(ip) ==
    \E h \in RoomFor(requests, ip, MaxTracked) :
        LET recent == Recent(HistoryOf(h, ip), now, Window)
        IN  /\ ~HasQuota(recent)
            /\ requests' = WithHistory(h, ip, recent)
            /\ granted' = [x \in IPs |-> Granted(h, x)]

CheckRateLimit(ip) == Grant(ip) \/ Refuse(ip)

\* start_cleanup_task; a client it forgets has no stamp left in the window.
Cleanup ==
    /\ requests' = Swept(requests, now, Window)
    /\ UNCHANGED granted

Tick ==
    /\ now < MaxTime
    /\ now' = now + 1
    /\ UNCHANGED <<requests, granted>>

Next ==
    \/ Tick
    \/ /\ \/ \E ip \in IPs : CheckRateLimit(ip)
          \/ Cleanup
       /\ UNCHANGED now

Spec == Init /\ [][Next]_vars

-----------------------------------------------------------------------------
(* Properties *)

\* The stamps of a tracked client are clock readings in the order they were
\* taken, which is what lets a reader look at the last one only.
TypeOK ==
    /\ now \in Nat
    /\ DOMAIN requests \subseteq IPs
    /\ requests \in [DOMAIN requests -> Seq(Nat)]
    /\ granted \in [IPs -> Seq(Nat)]
    /\ \A ip \in DOMAIN requests : Chronological(requests[ip], now)

\* The map never outgrows its cap.  That rests on every tracked client having
\* a stamp: the eviction passes over clients with empty histories, so one
\* such client per slot would let the map grow without bound.
TrackedBounded ==
    /\ Cardinality(DOMAIN requests) <= MaxTracked
    /\ \A ip \in DOMAIN requests : requests[ip] # << >>

\* Whatever the cleanup and other clients do meanwhile, no client that is not
\* evicted gets more than Burst requests through in any span of Window
\* seconds, wherever the span begins (a sliding window, not a fixed one).
WindowQuota ==
    \A ip \in IPs : \A i \in 1..(Len(granted[ip]) - Burst) :
        granted[ip][i + Burst] - granted[ip][i] >= Window

\* Pruning forgets nothing that still counts: the stamps in the window are
\* exactly those of the grants in the window.
NoGrantForgotten ==
    \A ip \in IPs :
        Recent(HistoryOf(requests, ip), now, Window)
            = Recent(granted[ip], now, Window)

=============================================================================
