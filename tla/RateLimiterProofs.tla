-------------------------- MODULE RateLimiterProofs --------------------------
(***************************************************************************)
(* The sliding window holds for every burst, rate and cap, and any number  *)
(* of clients: what the limiter remembers of a client is always the end of *)
(* what it has granted to it, and what it has forgotten no longer counts.  *)
(***************************************************************************)
EXTENDS RateLimiter, DataLemmas

\* r is the end of g, and what it lacks has left the window at t.
Remains(r, g, t) ==
    /\ Len(r) <= Len(g)
    /\ \A i \in 1..Len(r) : r[i] = g[i + (Len(g) - Len(r))]
    /\ \A i \in 1..(Len(g) - Len(r)) : t - g[i] >= Window

\* WindowQuota for the grants of one client.
WithinQuota(g) ==
    \A i \in 1..(Len(g) - Burst) : g[i + Burst] - g[i] >= Window

GrantsOrdered == \A ip \in IPs : Chronological(granted[ip], now)

GrantsRemembered ==
    \A ip \in IPs : Remains(HistoryOf(requests, ip), granted[ip], now)

\* The quota follows from the grants that are remembered, and that they are
\* from the order of the stamps: pruning looks at each stamp, but forgets
\* only the oldest ones because they are in order.
IInv ==
    /\ TypeOK
    /\ IsFiniteSet(DOMAIN requests)
    /\ TrackedBounded
    /\ GrantsOrdered
    /\ GrantsRemembered
    /\ WindowQuota

-----------------------------------------------------------------------------
(* One history *)

LEMMA Parameters ==
    /\ Burst \in Nat \ {0} /\ MaxTracked \in Nat \ {0}
    /\ Window \in Nat \ {0}
<1>1. Burst \in Nat \ {0} /\ MaxTracked \in Nat \ {0} /\ Rps \in Nat \ {0}
  BY RateLimiterAssumption
<1>2. Burst \div Rps \in Nat
  BY <1>1
<1>3. QED
  BY <1>1, <1>2 DEF Window

LEMMA EmptyHistory ==
    ASSUME NEW t \in Nat
    PROVE  /\ << >> \in Seq(Nat) /\ Len(<< >>) = 0
           /\ Chronological(<< >>, t)
           /\ Remains(<< >>, << >>, t)
           /\ WithinQuota(<< >>)
<1>1. << >> \in Seq(Nat) /\ Len(<< >>) = 0 /\ DOMAIN << >> = {}
  OBVIOUS
<1>2. QED
  BY <1>1, Parameters DEF Chronological, Remains, WithinQuota

LEMMA Pruned ==
    ASSUME NEW s \in Seq(Nat), NEW t \in Nat, Chronological(s, t),
           NEW p, p = Recent(s, t, Window)
    PROVE  /\ p \in Seq(Nat) /\ Chronological(p, t)
           /\ Len(p) <= Len(s)
           /\ \A i \in 1..Len(p) : p[i] = s[i + (Len(s) - Len(p))]
           /\ \A i \in 1..(Len(s) - Len(p)) : t - s[i] >= Window
           /\ \A i \in (Len(s) - Len(p) + 1)..Len(s) : t - s[i] < Window
<1>1. Window \in Nat
  BY Parameters
<1>2. p \in Seq(Nat) /\ Chronological(p, t) /\ Len(p) <= Len(s)
  BY <1>1, Pruning
<1>3. \A i \in 1..Len(p) : p[i] = s[i + (Len(s) - Len(p))]
  BY <1>1, Pruning
<1>4. \A i \in 1..(Len(s) - Len(p)) : t - s[i] >= Window
  BY <1>1, Pruning
<1>5. \A i \in (Len(s) - Len(p) + 1)..Len(s) : t - s[i] < Window
  BY <1>1, Pruning
<1>6. QED
  BY <1>2, <1>3, <1>4, <1>5

\* Pruning the end of a history gives an end of it, the part of it that is
\* in the window.
LEMMA PrunedRemains ==
    ASSUME NEW r \in Seq(Nat), NEW g \in Seq(Nat), NEW t \in Nat,
           Chronological(r, t), Chronological(g, t), Remains(r, g, t),
           NEW p, p = Recent(r, t, Window)
    PROVE  /\ p \in Seq(Nat) /\ Chronological(p, t)
           /\ Remains(p, g, t)
           /\ p = Recent(g, t, Window)
<1> DEFINE q == Recent(g, t, Window)
           d == Len(r) - Len(p)
           e == Len(g) - Len(r)
           f == Len(g) - Len(q)
<1>0. Window \in Nat
  BY Parameters
<1>1. /\ p \in Seq(Nat) /\ Chronological(p, t)
      /\ Len(p) <= Len(r)
      /\ \A i \in 1..Len(p) : p[i] = r[i + d]
      /\ \A i \in 1..d : t - r[i] >= Window
      /\ \A i \in (d + 1)..Len(r) : t - r[i] < Window
  BY Pruned
<1>2. /\ q \in Seq(Nat)
      /\ Len(q) <= Len(g)
      /\ \A i \in 1..Len(q) : q[i] = g[i + f]
      /\ \A i \in 1..f : t - g[i] >= Window
      /\ \A i \in (f + 1)..Len(g) : t - g[i] < Window
  BY Pruned
<1>3. /\ Len(p) \in Nat /\ Len(q) \in Nat /\ Len(r) \in Nat /\ Len(g) \in Nat
      /\ Len(r) <= Len(g)
      /\ \A i \in 1..Len(r) : r[i] = g[i + e]
      /\ \A i \in 1..e : t - g[i] >= Window
  BY <1>1, <1>2, LenProperties DEF Remains
<1> HIDE DEF q
<1>4. \A i \in 1..Len(p) : p[i] = g[i + (e + d)]
  <2> TAKE i \in 1..Len(p)
  <2>1. i + d \in 1..Len(r) /\ (i + d) + e = i + (e + d)
    BY <1>1, <1>3
  <2>2. QED
    BY <1>1, <1>3, <2>1
<1>5. \A i \in 1..(e + d) : t - g[i] >= Window
  <2> TAKE i \in 1..(e + d)
  <2>1. CASE i <= e
    BY <1>3, <2>1
  <2>2. CASE ~(i <= e)
    <3>1. i - e \in 1..d /\ i - e \in 1..Len(r) /\ (i - e) + e = i
      BY <1>1, <1>3, <2>2
    <3>2. t - r[i - e] >= Window /\ r[i - e] = g[i]
      BY <1>1, <1>3, <3>1
    <3>3. QED
      BY <3>2
  <2>3. QED
    BY <2>1, <2>2
<1>6. Len(g) - Len(p) = e + d
  BY <1>3
<1>7. Remains(p, g, t)
  BY <1>1, <1>3, <1>4, <1>5, <1>6 DEF Remains
<1>8. e + d = f
  <2>1. CASE e + d < f
    <3> DEFINE i == e + d + 1
    <3>1. i \in 1..f /\ i - e \in (d + 1)..Len(r) /\ i - e \in 1..Len(r)
      <4>1. /\ d \in Nat /\ e \in Nat /\ f \in Int /\ Len(r) \in Nat
            /\ f <= e + Len(r)
        BY <1>1, <1>3
      <4> HIDE DEF d, e, f
      <4>2. QED
        BY <2>1, <4>1
    <3>2. t - g[i] >= Window /\ t - r[i - e] < Window
      BY <1>1, <1>2, <3>1
    <3>3. r[i - e] = g[i]
      <4>1. (i - e) + e = i
        BY <1>3, <3>1
      <4>2. QED
        BY <1>3, <3>1, <4>1
    <3>4. g[i] \in Nat
      <4>1. i \in 1..Len(g)
        BY <1>2, <1>3, <3>1
      <4>2. QED
        BY <4>1, ElementOfSeq
    <3>5. QED
      BY <1>0, <3>2, <3>3, <3>4
  <2>2. CASE f < e + d
    <3> DEFINE i == e + d
    <3>1. i \in (f + 1)..Len(g) /\ i \in 1..(e + d) /\ i \in 1..Len(g)
      BY <1>1, <1>2, <1>3, <2>2
    <3>2. t - g[i] < Window /\ t - g[i] >= Window
      BY <1>2, <1>5, <3>1
    <3>3. g[i] \in Nat
      BY <3>1, ElementOfSeq
    <3>4. QED
      BY <1>0, <3>2, <3>3
  <2>3. e + d \in Int /\ f \in Int
    BY <1>3
  <2> HIDE DEF d, e, f
  <2>4. QED
    BY <2>1, <2>2, <2>3
<1>9. p = q
  <2>1. Len(p) = Len(q)
    BY <1>3, <1>8
  <2>2. \A i \in 1..Len(p) : p[i] = q[i]
    BY <1>2, <1>4, <1>8, <2>1
  <2>3. QED
    BY <1>1, <1>2, <2>1, <2>2, SeqEqual
<1>10. QED
  BY <1>1, <1>7, <1>9 DEF q

\* One more grant, with fewer than Burst of them in the window.
LEMMA GrantRemains ==
    ASSUME NEW p \in Seq(Nat), NEW g \in Seq(Nat), NEW t \in Nat,
           Chronological(g, t), Remains(p, g, t),
           WithinQuota(g), Len(p) < Burst
    PROVE  /\ Remains(Append(p, t), Append(g, t), t)
           /\ WithinQuota(Append(g, t))
<1> DEFINE a == Append(p, t)
           b == Append(g, t)
           d == Len(g) - Len(p)
<1>1. /\ Len(p) \in Nat /\ Len(g) \in Nat
      /\ Len(a) = Len(p) + 1 /\ Len(b) = Len(g) + 1
      /\ \A i \in 1..Len(p) : a[i] = p[i]
      /\ \A i \in 1..Len(g) : b[i] = g[i] /\ g[i] \in Nat
      /\ a[Len(p) + 1] = t /\ b[Len(g) + 1] = t
  BY LenProperties, AppendProperties, ElementOfSeq
<1>2. /\ Len(p) <= Len(g)
      /\ \A i \in 1..Len(p) : p[i] = g[i + d]
      /\ \A i \in 1..d : t - g[i] >= Window
  BY DEF Remains
<1> HIDE DEF a, b
<1>3. Remains(a, b, t)
  <2>1. Len(b) - Len(a) = d /\ Len(a) <= Len(b) /\ d \in Nat
    BY <1>1, <1>2
  <2>2. ASSUME NEW i \in 1..Len(a) PROVE a[i] = b[i + d]
    <3>1. CASE i = Len(p) + 1
      <4>1. i + d = Len(g) + 1
        BY <1>1, <3>1
      <4>2. QED
        BY <1>1, <3>1, <4>1
    <3>2. CASE i # Len(p) + 1
      <4>1. i \in 1..Len(p) /\ i + d \in 1..Len(g)
        BY <1>1, <2>1, <3>2
      <4>2. QED
        BY <1>1, <1>2, <4>1
    <3>3. QED
      BY <3>1, <3>2
  <2>3. ASSUME NEW i \in 1..d PROVE t - b[i] >= Window
    <3>1. i \in 1..Len(g)
      BY <1>1, <2>1
    <3>2. QED
      BY <1>1, <1>2, <3>1
  <2>4. QED
    BY <2>1, <2>2, <2>3 DEF Remains
<1>4. WithinQuota(b)
  <2> SUFFICES ASSUME NEW i \in 1..(Len(b) - Burst)
               PROVE  b[i + Burst] - b[i] >= Window
    BY DEF WithinQuota
  <2>0. Burst \in Nat \ {0} /\ Window \in Nat
    BY Parameters
  <2>1. i \in 1..Len(g) /\ i + Burst \in 1..(Len(g) + 1)
    BY <1>1, <2>0
  <2>2. CASE i + Burst = Len(g) + 1
    <3>1. i \in 1..d
      BY <1>1, <1>2, <2>0, <2>1, <2>2
    <3>2. QED
      BY <1>1, <1>2, <2>1, <2>2, <3>1
  <2>3. CASE i + Burst # Len(g) + 1
    <3>1. i + Burst \in 1..Len(g)
      <4>1. Len(g) \in Nat
        BY <1>1
      <4>2. \A k \in 1..(Len(g) + 1) : k # Len(g) + 1 => k \in 1..Len(g)
        BY <4>1
      <4>3. QED
        BY <2>1, <2>3, <4>2
    <3>2. i \in 1..(Len(g) - Burst)
      BY <1>1, <2>0, <2>1, <3>1
    <3>3. g[i + Burst] - g[i] >= Window
      BY <3>2 DEF WithinQuota
    <3>4. QED
      BY <1>1, <2>1, <3>1, <3>3
  <2>4. QED
    BY <2>2, <2>3
<1>5. QED
  BY <1>3, <1>4 DEF a, b

-----------------------------------------------------------------------------
(* The steps *)

LEMMA InitIInv == Init => IInv
<1> SUFFICES ASSUME Init PROVE IInv
  OBVIOUS
<1>1. /\ now = 0 /\ requests = << >> /\ DOMAIN requests = {}
      /\ granted = [ip \in IPs |-> << >>]
  BY DEF Init
<1>2. /\ \A ip \in IPs : granted[ip] = << >>
      /\ \A ip \in IPs : HistoryOf(requests, ip) = << >>
  BY <1>1 DEF HistoryOf
<1>3. << >> \in Seq(Nat) /\ 0 \in Nat
  OBVIOUS
<1>4. TypeOK
  BY <1>1, <1>3 DEF TypeOK
<1>5. IsFiniteSet(DOMAIN requests) /\ Cardinality(DOMAIN requests) = 0
  BY <1>1, FS_EmptySet
<1>6. TrackedBounded
  BY <1>1, <1>5, Parameters DEF TrackedBounded
<1>7. GrantsOrdered /\ GrantsRemembered
  BY <1>1, <1>2, EmptyHistory DEF GrantsOrdered, GrantsRemembered
<1>8. WindowQuota
  BY <1>2, EmptyHistory DEF WindowQuota, WithinQuota
<1>9. QED
  BY <1>4, <1>5, <1>6, <1>7, <1>8 DEF IInv

\* What check_rate_limit finds, once it has made room: of every client but
\* an evicted one, of which nothing is left on either side.
LEMMA RoomMade ==
    ASSUME IInv, NEW ip \in IPs,
           NEW h \in RoomFor(requests, ip, MaxTracked)
    PROVE  /\ DOMAIN h \subseteq DOMAIN requests
           /\ \A x \in DOMAIN h : h[x] = requests[x]
           /\ IsFiniteSet(DOMAIN h \cup {ip})
           /\ Cardinality(DOMAIN h \cup {ip}) <= MaxTracked
           /\ \A x \in IPs :
                 /\ HistoryOf(h, x) \in Seq(Nat)
                 /\ Chronological(HistoryOf(h, x), now)
                 /\ Granted(h, x) \in Seq(Nat)
                 /\ Chronological(Granted(h, x), now)
                 /\ Remains(HistoryOf(h, x), Granted(h, x), now)
                 /\ WithinQuota(Granted(h, x))
<1> USE DEF IInv
<1>1. /\ DOMAIN h \subseteq DOMAIN requests
      /\ \A x \in DOMAIN h : h[x] = requests[x]
      /\ IsFiniteSet(DOMAIN h \cup {ip})
      /\ Cardinality(DOMAIN h \cup {ip}) <= MaxTracked
  BY Parameters, RoomForOneMore DEF TypeOK, TrackedBounded
<1>2. now \in Nat
  BY DEF TypeOK
<1>3. ASSUME NEW x \in IPs
      PROVE  /\ HistoryOf(h, x) \in Seq(Nat)
             /\ Chronological(HistoryOf(h, x), now)
             /\ Granted(h, x) \in Seq(Nat)
             /\ Chronological(Granted(h, x), now)
             /\ Remains(HistoryOf(h, x), Granted(h, x), now)
             /\ WithinQuota(Granted(h, x))
  <2>1. CASE x \in DOMAIN requests \ DOMAIN h
    <3>1. HistoryOf(h, x) = << >> /\ Granted(h, x) = << >>
      BY <2>1 DEF HistoryOf, Granted
    <3>2. QED
      BY <1>2, <3>1, EmptyHistory
  <2>2. CASE ~(x \in DOMAIN requests \ DOMAIN h)
    <3>1. HistoryOf(h, x) = HistoryOf(requests, x) /\ Granted(h, x) = granted[x]
      BY <1>1, <2>2 DEF HistoryOf, Granted
    <3>2. granted[x] \in Seq(Nat) /\ WithinQuota(granted[x])
      BY DEF TypeOK, WindowQuota, WithinQuota
    <3>3. /\ HistoryOf(requests, x) \in Seq(Nat)
          /\ Chronological(HistoryOf(requests, x), now)
      BY <1>2, EmptyHistory DEF TypeOK, HistoryOf
    <3>4. QED
      BY <3>1, <3>2, <3>3 DEF GrantsOrdered, GrantsRemembered
  <2>3. QED
    BY <2>1, <2>2
<1>4. QED
  BY <1>1, <1>3

\* Both outcomes of check_rate_limit replace the history of one client.
LEMMA HistoryReplaced ==
    ASSUME IInv, NEW ip \in IPs,
           NEW h \in RoomFor(requests, ip, MaxTracked),
           NEW times \in Seq(Nat), times # << >>, Chronological(times, now),
           NEW grants \in Seq(Nat), Chronological(grants, now),
           Remains(times, grants, now), WithinQuota(grants),
           requests' = WithHistory(h, ip, times),
           granted' = [x \in IPs |-> IF x = ip THEN grants ELSE Granted(h, x)],
           now' = now
    PROVE  IInv'
<1>1. /\ DOMAIN h \subseteq DOMAIN requests
      /\ \A x \in DOMAIN h : h[x] = requests[x]
      /\ IsFiniteSet(DOMAIN h \cup {ip})
      /\ Cardinality(DOMAIN h \cup {ip}) <= MaxTracked
      /\ \A x \in IPs :
            /\ HistoryOf(h, x) \in Seq(Nat)
            /\ Chronological(HistoryOf(h, x), now)
            /\ Granted(h, x) \in Seq(Nat)
            /\ Chronological(Granted(h, x), now)
            /\ Remains(HistoryOf(h, x), Granted(h, x), now)
            /\ WithinQuota(Granted(h, x))
  BY RoomMade
<1>2. /\ DOMAIN requests' = DOMAIN h \cup {ip}
      /\ requests'[ip] = times
      /\ \A x \in DOMAIN h \ {ip} : requests'[x] = requests[x]
  BY <1>1 DEF WithHistory
<1>3. /\ granted'[ip] = grants
      /\ \A x \in IPs \ {ip} : granted'[x] = Granted(h, x)
  OBVIOUS
<1>4. /\ HistoryOf(requests, ip)' = times
      /\ \A x \in IPs \ {ip} : HistoryOf(requests, x)' = HistoryOf(h, x)
  BY <1>1, <1>2 DEF HistoryOf
<1>5. TypeOK'
  <2>1. /\ now \in Nat /\ DOMAIN requests \subseteq IPs
        /\ requests \in [DOMAIN requests -> Seq(Nat)]
        /\ \A x \in DOMAIN requests : Chronological(requests[x], now)
    BY DEF IInv, TypeOK
  <2>2. \A x \in DOMAIN requests' :
           requests'[x] \in Seq(Nat) /\ Chronological(requests'[x], now)
    BY <1>1, <1>2, <2>1
  <2>3. requests' = [x \in DOMAIN requests' |-> requests'[x]]
    BY DEF WithHistory
  <2>4. requests' \in [DOMAIN requests' -> Seq(Nat)]
    BY <2>2, <2>3
  <2>5. granted' \in [IPs -> Seq(Nat)]
    BY <1>1
  <2>6. QED
    BY <1>1, <1>2, <2>1, <2>2, <2>4, <2>5 DEF TypeOK
<1>6. IsFiniteSet(DOMAIN requests)' /\ TrackedBounded'
  <2>1. \A x \in DOMAIN h : requests[x] # << >>
    BY <1>1 DEF IInv, TrackedBounded
  <2>2. QED
    BY <1>1, <1>2, <2>1 DEF TrackedBounded
<1>7. GrantsOrdered'
  BY <1>1, <1>3 DEF GrantsOrdered
<1>8. GrantsRemembered'
  BY <1>1, <1>3, <1>4 DEF GrantsRemembered
<1>9. WindowQuota'
  BY <1>1, <1>3 DEF WindowQuota, WithinQuota
<1>10. QED
  BY <1>5, <1>6, <1>7, <1>8, <1>9 DEF IInv

LEMMA CheckStep ==
    ASSUME IInv, NEW ip \in IPs, CheckRateLimit(ip), now' = now
    PROVE  IInv'
<1>0. now \in Nat /\ Burst \in Nat \ {0}
  BY Parameters DEF IInv, TypeOK
<1>1. CASE Grant(ip)
  <2>1. PICK h \in RoomFor(requests, ip, MaxTracked) :
          LET recent == Recent(HistoryOf(h, ip), now, Window)
          IN  /\ HasQuota(recent)
              /\ requests' = WithHistory(h, ip, Append(recent, now))
              /\ granted' = [x \in IPs |->
                                IF x = ip THEN Append(Granted(h, x), now)
                                          ELSE Granted(h, x)]
    BY <1>1 DEF Grant
  <2> DEFINE recent == Recent(HistoryOf(h, ip), now, Window)
             times  == Append(recent, now)
             grants == Append(Granted(h, ip), now)
  <2>2. /\ recent \in Seq(Nat) /\ Chronological(recent, now)
        /\ Granted(h, ip) \in Seq(Nat)
        /\ Chronological(Granted(h, ip), now)
        /\ Remains(recent, Granted(h, ip), now)
        /\ WithinQuota(Granted(h, ip))
        /\ Len(recent) < Burst
    BY <1>0, <2>1, RoomMade, PrunedRemains DEF HasQuota
  <2>3. /\ requests' = WithHistory(h, ip, times)
        /\ granted' = [x \in IPs |-> IF x = ip THEN grants ELSE Granted(h, x)]
    BY <2>1
  <2> HIDE DEF recent
  <2>4. /\ times \in Seq(Nat) /\ times # << >> /\ Chronological(times, now)
        /\ grants \in Seq(Nat) /\ Chronological(grants, now)
        /\ Remains(times, grants, now) /\ WithinQuota(grants)
    <3>1. /\ times \in Seq(Nat) /\ Chronological(times, now)
          /\ Len(times) = Len(recent) + 1
      BY <1>0, <2>2, AppendChronological
    <3>2. grants \in Seq(Nat) /\ Chronological(grants, now)
      BY <1>0, <2>2, AppendChronological
    <3>3. times # << >>
      <4>1. Len(recent) \in Nat
        BY <2>2, LenProperties
      <4>2. Len(times) # 0
        BY <3>1, <4>1
      <4>3. QED
        BY <1>0, <4>2, EmptyHistory
    <3>4. Remains(times, grants, now) /\ WithinQuota(grants)
      BY <1>0, <2>2, GrantRemains
    <3>5. QED
      BY <3>1, <3>2, <3>3, <3>4
  <2> HIDE DEF times, grants
  <2>5. QED
    BY <2>3, <2>4, HistoryReplaced
<1>2. CASE Refuse(ip)
  <2>1. PICK h \in RoomFor(requests, ip, MaxTracked) :
          LET recent == Recent(HistoryOf(h, ip), now, Window)
          IN  /\ ~HasQuota(recent)
              /\ requests' = WithHistory(h, ip, recent)
              /\ granted' = [x \in IPs |-> Granted(h, x)]
    BY <1>2 DEF Refuse
  <2> DEFINE times  == Recent(HistoryOf(h, ip), now, Window)
             grants == Granted(h, ip)
  <2>2. /\ times \in Seq(Nat) /\ Chronological(times, now)
        /\ grants \in Seq(Nat) /\ Chronological(grants, now)
        /\ Remains(times, grants, now) /\ WithinQuota(grants)
        /\ ~(Len(times) < Burst)
    BY <1>0, <2>1, RoomMade, PrunedRemains DEF HasQuota
  <2>3. /\ requests' = WithHistory(h, ip, times)
        /\ granted' = [x \in IPs |-> IF x = ip THEN grants ELSE Granted(h, x)]
    BY <2>1
  <2> HIDE DEF times, grants
  <2>4. times # << >>
    BY <1>0, <2>2, EmptyHistory
  <2>5. QED
    BY <2>2, <2>3, <2>4, HistoryReplaced
<1>3. QED
  BY <1>1, <1>2 DEF CheckRateLimit

LEMMA CleanupStep == ASSUME IInv, Cleanup, now' = now PROVE IInv'
<1> USE DEF IInv
<1>1. /\ now \in Nat /\ Window \in Nat
      /\ DOMAIN requests \subseteq IPs
      /\ requests \in [DOMAIN requests -> Seq(Nat)]
      /\ granted \in [IPs -> Seq(Nat)]
      /\ \A x \in DOMAIN requests : Chronological(requests[x], now)
  BY Parameters DEF TypeOK
<1>2. /\ requests' = Swept(requests, now, Window)
      /\ granted' = granted
  BY DEF Cleanup
<1>3. /\ DOMAIN requests' \subseteq DOMAIN requests
      /\ \A x \in DOMAIN requests' :
            requests'[x] = Recent(requests[x], now, Window) /\ requests'[x] # << >>
      /\ \A x \in DOMAIN requests \ DOMAIN requests' :
            Recent(requests[x], now, Window) = << >>
  BY <1>2 DEF Swept
<1>4. ASSUME NEW x \in IPs
      PROVE  /\ HistoryOf(requests, x)' = Recent(HistoryOf(requests, x), now, Window)
             /\ HistoryOf(requests, x)' \in Seq(Nat)
             /\ Chronological(HistoryOf(requests, x)', now)
             /\ Remains(HistoryOf(requests, x)', granted[x], now)
  <2>1. /\ HistoryOf(requests, x) \in Seq(Nat)
        /\ Chronological(HistoryOf(requests, x), now)
    BY <1>1, EmptyHistory DEF HistoryOf
  <2>2. HistoryOf(requests, x)' = Recent(HistoryOf(requests, x), now, Window)
    <3>1. CASE x \in DOMAIN requests
      BY <1>3, <3>1 DEF HistoryOf
    <3>2. CASE x \notin DOMAIN requests
      <4>1. HistoryOf(requests, x)' = << >> /\ HistoryOf(requests, x) = << >>
        BY <1>3, <3>2 DEF HistoryOf
      <4>2. /\ Recent(<< >>, now, Window) \in Seq(Nat)
            /\ Len(Recent(<< >>, now, Window)) <= 0
        BY <1>1, EmptyHistory, RecentIsSuffix
      <4>3. Recent(<< >>, now, Window) = << >>
        BY <4>2, EmptySeq
      <4>4. QED
        BY <4>1, <4>3
    <3>3. QED
      BY <3>1, <3>2
  <2>3. /\ granted[x] \in Seq(Nat) /\ Chronological(granted[x], now)
        /\ Remains(HistoryOf(requests, x), granted[x], now)
    BY <1>1 DEF GrantsOrdered, GrantsRemembered
  <2>4. QED
    BY <1>1, <2>1, <2>2, <2>3, PrunedRemains
<1>5. \A x \in DOMAIN requests' :
         requests'[x] \in Seq(Nat) /\ Chronological(requests'[x], now)
  BY <1>1, <1>3, <1>4 DEF HistoryOf
<1>6. TypeOK'
  <2>1. requests' = [x \in DOMAIN requests' |-> requests'[x]]
    BY <1>2 DEF Swept
  <2>2. requests' \in [DOMAIN requests' -> Seq(Nat)]
    BY <1>5, <2>1
  <2>3. QED
    BY <1>1, <1>2, <1>3, <1>5, <2>2 DEF TypeOK
<1>7. IsFiniteSet(DOMAIN requests)' /\ TrackedBounded'
  <2>1. /\ IsFiniteSet(DOMAIN requests')
        /\ Cardinality(DOMAIN requests') <= Cardinality(DOMAIN requests)
    BY <1>3, FS_Subset
  <2>2. /\ Cardinality(DOMAIN requests') \in Nat
        /\ Cardinality(DOMAIN requests) \in Nat
    BY <2>1, FS_CardinalityType
  <2>3. QED
    BY <1>3, <2>1, <2>2, Parameters DEF TrackedBounded
<1>8. GrantsOrdered' /\ GrantsRemembered'
  BY <1>2, <1>4 DEF GrantsOrdered, GrantsRemembered
<1>9. WindowQuota'
  BY <1>2 DEF WindowQuota
<1>10. QED
  BY <1>6, <1>7, <1>8, <1>9

LEMMA TickStep == ASSUME IInv, Tick PROVE IInv'
<1> USE DEF IInv
<1>1. /\ now \in Nat /\ now' = now + 1
      /\ requests' = requests /\ granted' = granted
  BY DEF Tick, TypeOK
<1>2. ASSUME NEW s \in Seq(Nat), Chronological(s, now)
      PROVE  Chronological(s, now')
  BY <1>1, <1>2, LenProperties DEF Chronological
<1>3. ASSUME NEW r \in Seq(Nat), NEW g \in Seq(Nat), Remains(r, g, now)
      PROVE  Remains(r, g, now')
  <2>1. /\ Len(r) \in Nat /\ Len(g) \in Nat /\ Len(r) <= Len(g)
        /\ \A i \in 1..Len(g) : g[i] \in Nat
        /\ Window \in Nat
    BY <1>3, LenProperties, Parameters DEF Remains
  <2>2. \A i \in 1..(Len(g) - Len(r)) : i \in 1..Len(g)
    BY <2>1
  <2>3. \A i \in 1..(Len(g) - Len(r)) : now' - g[i] >= Window
    BY <1>1, <1>3, <2>1, <2>2 DEF Remains
  <2>4. QED
    BY <1>3, <2>3 DEF Remains
<1>4. TypeOK'
  BY <1>1, <1>2 DEF TypeOK
<1>5. GrantsOrdered'
  BY <1>1, <1>2 DEF GrantsOrdered, TypeOK
<1>6. GrantsRemembered'
  <2> SUFFICES ASSUME NEW x \in IPs
               PROVE  Remains(HistoryOf(requests, x), granted[x], now')
    BY <1>1 DEF GrantsRemembered, HistoryOf
  <2>1. HistoryOf(requests, x) \in Seq(Nat) /\ granted[x] \in Seq(Nat)
    BY EmptyHistory DEF HistoryOf, TypeOK
  <2>2. QED
    BY <1>3, <2>1 DEF GrantsRemembered
<1>7. TrackedBounded' /\ WindowQuota' /\ IsFiniteSet(DOMAIN requests)'
  BY <1>1 DEF TrackedBounded, WindowQuota
<1>8. QED
  BY <1>4, <1>5, <1>6, <1>7

LEMMA Invariance == Spec => []IInv
<1>1. IInv /\ [Next]_vars => IInv'
  <2> SUFFICES ASSUME IInv, [Next]_vars PROVE IInv'
    OBVIOUS
  <2>1. CASE Tick
    BY <2>1, TickStep
  <2>2. ASSUME NEW ip \in IPs, CheckRateLimit(ip), UNCHANGED now PROVE IInv'
    BY <2>2, CheckStep
  <2>3. CASE Cleanup /\ UNCHANGED now
    BY <2>3, CleanupStep
  <2>4. CASE UNCHANGED vars
    BY <2>4 DEF IInv, vars, TypeOK, TrackedBounded, GrantsOrdered,
                GrantsRemembered, WindowQuota, HistoryOf
  <2>5. QED
    BY <2>1, <2>2, <2>3, <2>4 DEF Next
<1>2. QED
  BY <1>1, InitIInv, PTL DEF Spec

-----------------------------------------------------------------------------
(* The theorems *)

\* The stamps of a client are always in the order of the clock.
THEOREM TypeCorrect == Spec => []TypeOK
BY Invariance, PTL DEF IInv

\* The map of check_rate_limit never outgrows its cap.
THEOREM TrackedStaysBounded == Spec => []TrackedBounded
BY Invariance, PTL DEF IInv

\* Nobody gets more than Burst requests through in any window.
THEOREM NobodyExceedsQuota == Spec => []WindowQuota
BY Invariance, PTL DEF IInv

\* The stamps in the window are those of the grants in the window.
THEOREM WindowIsComplete == Spec => []NoGrantForgotten
<1>1. IInv => NoGrantForgotten
  <2> SUFFICES ASSUME IInv, NEW ip \in IPs
               PROVE  Recent(HistoryOf(requests, ip), now, Window)
                        = Recent(granted[ip], now, Window)
    BY DEF NoGrantForgotten
  <2>1. now \in Nat /\ granted[ip] \in Seq(Nat)
    BY DEF IInv, TypeOK
  <2>2. /\ HistoryOf(requests, ip) \in Seq(Nat)
        /\ Chronological(HistoryOf(requests, ip), now)
    BY <2>1, EmptyHistory DEF IInv, TypeOK, HistoryOf
  <2>3. QED
    BY <2>1, <2>2, PrunedRemains DEF IInv, GrantsOrdered, GrantsRemembered
<1>2. QED
  BY <1>1, Invariance, PTL

=============================================================================
