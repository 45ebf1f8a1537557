------------------------------ MODULE Histories ------------------------------
(***************************************************************************)
(* The per-client time stamps that src/src/middleware/auth.rs and          *)
(* src/src/middleware/rate_limit.rs keep in a HashMap<IpAddr, Vec<Instant>>*)
(* and prune with the same three idioms: a history h maps the tracked      *)
(* clients to their stamps.  A stamp is pushed under the lock that read    *)
(* the clock, so a Vec is in order and `retain` drops a prefix of it.      *)
(***************************************************************************)
EXTENDS Naturals, Sequences, FiniteSets

Latest(times) == times[Len(times)]

HistoryOf(h, ip) == IF ip \in DOMAIN h THEN h[ip] ELSE << >>

WithHistory(h, ip, times) ==
    [x \in DOMAIN h \cup {ip} |-> IF x = ip THEN times ELSE h[x]]

Without(h, ip) == [x \in DOMAIN h \ {ip} |-> h[x]]

\* The stamps that are no longer younger than the window.
Expired(times, t, window) == {i \in DOMAIN times : t - times[i] >= window}

\* entry.retain(|time| now.duration_since(time) < window)
Recent(times, t, window) ==
    SubSeq(times, Cardinality(Expired(times, t, window)) + 1, Len(times))

\* min_by_key over the last stamps: any client whose latest is the oldest.
Oldest(h) ==
    {ip \in DOMAIN h :
        /\ h[ip] # << >>
        /\ \A x \in DOMAIN h :
              h[x] # << >> => Latest(h[ip]) <= Latest(h[x])}

\* The maps that making room for one more client may leave.
RoomFor(h, ip, cap) ==
    IF Cardinality(DOMAIN h) >= cap /\ ip \notin DOMAIN h /\ Oldest(h) # {}
    THEN {Without(h, o) : o \in Oldest(h)}
    ELSE {h}

\* MUTANT: the clients whose stamps have all expired stay in the map.
SweptKeepingEmpty(h, t, window) == [ip \in DOMAIN h |-> Recent(h[ip], t, window)]

\* MUTANT: a client is forgotten as soon as its oldest stamp expires.
SweptByOldest(h, t, window) ==
    [ip \in {x \in DOMAIN h : Expired(h[x], t, window) = {}} |-> h[ip]]

\* The periodic cleanup: prune every client and forget the idle ones.
Swept(h, t, window) ==
    [ip \in {x \in DOMAIN h : Recent(h[x], t, window) # << >>} |->
        Recent(h[ip], t, window)]

\* A history is ordered, and nothing in it is from the future.
Chronological(times, t) ==
    /\ \A i \in DOMAIN times : times[i] <= t
    /\ \A i, j \in DOMAIN times : i <= j => times[i] <= times[j]

=============================================================================
