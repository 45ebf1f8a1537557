----------------------------- MODULE GateProofs -----------------------------
(***************************************************************************)
(* Proofs about AuthState and about the middleware that uses it.           *)
(*                                                                         *)
(* The failure and ban maps stay consistent however many tasks record      *)
(* failures and successes at once, for every threshold, duration and cap.  *)
(* The middleware uses them as AuthState allows, so that this holds there; *)
(* and for every number of requests in flight, dropped at any await, a     *)
(* handler sees only requests that were authorised, a ban outlives every   *)
(* login that arrived after it, and the wrong keys that are answered       *)
(* within a window are bounded.                                            *)
(***************************************************************************)
EXTENDS Gate, DataLemmas

-----------------------------------------------------------------------------
(* The failure and ban maps *)

\* At most one task is between the two maps.
MutualExclusion ==
    \A c, d \in DOMAIN pending :
        pending[c] # None /\ pending[d] # None => c = d

\* What a task that is between the maps may rely on.
PendingJustified ==
    \A c \in DOMAIN pending :
        /\ Doing(c, "ban") => strikes[pending[c].ip] >= MaxAttempts
        /\ Doing(c, "unban") => pending[c].ip \notin DOMAIN failed_attempts
        /\ Doing(c, "sweep") => pending[c].asof <= now

\* No ban ends later than one that would start now.
BansBounded ==
    \A ip \in DOMAIN banned_until : banned_until[ip] <= now + BanDuration

\* ThresholdBans without its hypothesis: whoever has the lock is about to
\* insert the ban that is missing.
ThresholdBansSoon ==
    \A ip \in DOMAIN failed_attempts :
        Len(failed_attempts[ip]) >= MaxAttempts =>
            \/ now >= Latest(failed_attempts[ip]) + BanDuration
            \/ /\ ip \in DOMAIN banned_until
               /\ banned_until[ip] >= Latest(failed_attempts[ip]) + BanDuration
            \/ \E c \in Callers : Doing(c, "ban") /\ pending[c].ip = ip
            \/ ip \in cut

IInv ==
    /\ TypeOK
    /\ IsFiniteSet(DOMAIN failed_attempts)
    /\ AttemptsBounded
    /\ MutualExclusion
    /\ PendingJustified
    /\ BansBounded
    /\ BansEarned
    /\ ThresholdBansSoon

LEMMA PendingKinds ==
    \A p \in Pending :
        /\ p # None
        /\ p.op = "ban" => p.ip \in IPs
        /\ p.op = "unban" => p.ip \in IPs /\ p = Unbanning(p.ip)
        /\ p.op = "sweep" => p.asof \in Nat
        /\ p.op \in {"ban", "unban", "sweep"}
BY AuthAssumption DEF Pending, Unbanning

LEMMA PendingConstructors ==
    /\ \A ip \in IPs, code \in {401, 429} :
          /\ Banning(ip, code) \in Pending
          /\ Banning(ip, code).op = "ban"
          /\ Banning(ip, code).ip = ip
    /\ \A ip \in IPs :
          /\ Unbanning(ip) \in Pending
          /\ Unbanning(ip).op = "unban"
          /\ Unbanning(ip).ip = ip
    /\ \A t \in Nat :
          /\ Sweeping(t) \in Pending
          /\ Sweeping(t).op = "sweep"
          /\ Sweeping(t).asof = t
BY DEF Pending, Banning, Unbanning, Sweeping

LEMMA InitIInv == Init => IInv
<1> SUFFICES ASSUME Init PROVE IInv
  OBVIOUS
<1>1. /\ DOMAIN failed_attempts = {}
      /\ DOMAIN banned_until = {}
      /\ failed_attempts = << >> /\ banned_until = << >>
      /\ now = 0
      /\ pending = [c \in Callers \cup {Sweeper} |-> None]
      /\ strikes = [ip \in IPs |-> 0] /\ cut = {}
  BY DEF Init
<1>2. TypeOK
  BY <1>1, AuthAssumption DEF TypeOK
<1>3. IsFiniteSet(DOMAIN failed_attempts) /\ Cardinality(DOMAIN failed_attempts) = 0
  BY <1>1, FS_EmptySet
<1>4. AttemptsBounded
  BY <1>1, <1>3, AuthAssumption DEF AttemptsBounded
<1>5. MutualExclusion /\ PendingJustified
  BY <1>1 DEF MutualExclusion, PendingJustified, Doing
<1>6. BansBounded /\ BansEarned /\ ThresholdBansSoon
  BY <1>1 DEF BansBounded, BansEarned, ThresholdBansSoon
<1>7. QED
  BY <1>2, <1>3, <1>4, <1>5, <1>6 DEF IInv

\* The history of the client after record_failure, whoever was evicted.
LEMMA FailureHistory ==
    ASSUME IInv, NEW ip \in IPs,
           NEW h \in RoomFor(failed_attempts, ip, MaxTracked),
           NEW recent, recent = Recent(HistoryOf(h, ip), now, AuthWindow),
           NEW times,
           times = IF MeetsThreshold(recent) THEN recent
                                             ELSE Append(recent, now)
    PROVE  /\ DOMAIN h \subseteq DOMAIN failed_attempts
           /\ \A x \in DOMAIN h : h[x] = failed_attempts[x]
           /\ IsFiniteSet(DOMAIN h \cup {ip})
           /\ Cardinality(DOMAIN h \cup {ip}) <= MaxTracked
           /\ times \in Seq(Nat)
           /\ Chronological(times, now)
           /\ Len(times) \in 1..MaxAttempts
           /\ Len(times) <= strikes[ip] + 1
           /\ MeetsThreshold(recent) => Len(times) <= strikes[ip]
           /\ Latest(times) <= now
<1> USE DEF IInv
<1>0. /\ MaxAttempts \in Nat \ {0} /\ AuthWindow \in Nat \ {0}
      /\ MaxTracked \in Nat \ {0} /\ now \in Nat
      /\ strikes[ip] \in 0..MaxAttempts
  BY AuthAssumption DEF TypeOK
<1>1. \A x \in DOMAIN failed_attempts : failed_attempts[x] # << >>
  <2> TAKE x \in DOMAIN failed_attempts
  <2>1. Len(failed_attempts[x]) \in 1..MaxAttempts
    BY DEF AttemptsBounded
  <2>2. Len(<< >>) = 0
    OBVIOUS
  <2>3. QED
    BY <1>0, <2>1, <2>2
<1>2. /\ DOMAIN h \subseteq DOMAIN failed_attempts
      /\ \A x \in DOMAIN h : h[x] = failed_attempts[x]
      /\ IsFiniteSet(DOMAIN h \cup {ip})
      /\ Cardinality(DOMAIN h \cup {ip}) <= MaxTracked
  BY <1>0, <1>1, RoomForOneMore DEF TypeOK, AttemptsBounded
<1> DEFINE old == HistoryOf(h, ip)
<1>3. /\ old \in Seq(Nat)
      /\ Chronological(old, now)
      /\ Len(old) <= MaxAttempts
      /\ Len(old) <= strikes[ip]
  <2>1. CASE ip \in DOMAIN h
    <3>1. ip \in DOMAIN failed_attempts /\ old = failed_attempts[ip]
      BY <1>2, <2>1 DEF HistoryOf
    <3>2. QED
      BY <1>0, <3>1 DEF TypeOK, AttemptsBounded, BansEarned
  <2>2. CASE ip \notin DOMAIN h
    <3>1. old = << >>
      BY <2>2 DEF HistoryOf
    <3>2. << >> \in Seq(Nat) /\ Len(<< >>) = 0 /\ DOMAIN << >> = {}
      OBVIOUS
    <3>3. QED
      BY <1>0, <3>1, <3>2 DEF Chronological
  <2>3. QED
    BY <2>1, <2>2
<1> HIDE DEF old
<1>4. /\ recent \in Seq(Nat)
      /\ Len(recent) <= Len(old)
      /\ Chronological(recent, now)
      /\ Len(recent) \in Nat /\ Len(old) \in Nat
  <2>1. recent = Recent(old, now, AuthWindow)
    BY DEF old
  <2>2. recent \in Seq(Nat) /\ Len(recent) <= Len(old)
    BY <1>0, <1>3, <2>1, RecentIsSuffix
  <2>3. Chronological(recent, now)
    BY <1>0, <1>3, <2>1, RecentChronological
  <2>4. QED
    BY <1>3, <2>2, <2>3, LenProperties
<1>5. CASE MeetsThreshold(recent)
  <2>1. times = recent /\ Len(recent) >= MaxAttempts
    BY <1>5 DEF MeetsThreshold
  <2>2. Len(recent) \in DOMAIN recent
    BY <1>0, <1>4, <2>1, LenProperties
  <2>3. Latest(times) <= now
    BY <1>4, <2>1, <2>2 DEF Latest, Chronological
  <2>4. QED
    BY <1>0, <1>2, <1>3, <1>4, <2>1, <2>3
<1>6. CASE ~MeetsThreshold(recent)
  <2>1. times = Append(recent, now) /\ ~(Len(recent) >= MaxAttempts)
    BY <1>6 DEF MeetsThreshold
  <2>2. /\ times \in Seq(Nat) /\ Len(times) = Len(recent) + 1
        /\ Latest(times) = now /\ Chronological(times, now)
    BY <1>0, <1>4, <2>1, AppendChronological
  <2>3. QED
    BY <1>0, <1>2, <1>3, <1>4, <1>6, <2>1, <2>2
<1>7. QED
  BY <1>5, <1>6

\* record_failure: the history grows by at most one stamp, and a threshold
\* that is met leaves a ban to be inserted under the same lock.
LEMMA RecordFailureStep ==
    ASSUME IInv, NEW c \in Callers, NEW ip \in IPs, RecordFailure(c, ip)
    PROVE  IInv' /\ RunningBanKept
<1> USE DEF IInv
<1>1. PICK h \in RoomFor(failed_attempts, ip, MaxTracked) :
        LET recent == Recent(HistoryOf(h, ip), now, AuthWindow)
            met    == MeetsThreshold(recent)
            times  == IF met THEN recent ELSE Append(recent, now)
        IN  /\ failed_attempts' = WithHistory(h, ip, times)
            /\ pending' = IF MeetsThreshold(times)
                          THEN [pending EXCEPT ![c] =
                                   Banning(ip, IF met THEN 429 ELSE 401)]
                          ELSE pending
  BY DEF RecordFailure
<1> DEFINE recent == Recent(HistoryOf(h, ip), now, AuthWindow)
           met    == MeetsThreshold(recent)
           times  == IF met THEN recent ELSE Append(recent, now)
           code   == IF met THEN 429 ELSE 401
<1>2. /\ DOMAIN h \subseteq DOMAIN failed_attempts
      /\ \A x \in DOMAIN h : h[x] = failed_attempts[x]
      /\ IsFiniteSet(DOMAIN h \cup {ip})
      /\ Cardinality(DOMAIN h \cup {ip}) <= MaxTracked
      /\ times \in Seq(Nat)
      /\ Chronological(times, now)
      /\ Len(times) \in 1..MaxAttempts
      /\ Len(times) <= strikes[ip] + 1
      /\ met => Len(times) <= strikes[ip]
      /\ Latest(times) <= now
  BY FailureHistory
<1>3. /\ failed_attempts' = WithHistory(h, ip, times)
      /\ pending' = IF MeetsThreshold(times)
                    THEN [pending EXCEPT ![c] = Banning(ip, code)]
                    ELSE pending
  BY <1>1
<1>4. code \in {401, 429}
  OBVIOUS
<1> HIDE DEF times, recent, met, code
<1>5. /\ DOMAIN failed_attempts' = DOMAIN h \cup {ip}
      /\ failed_attempts'[ip] = times
      /\ \A x \in DOMAIN failed_attempts' \ {ip} :
            x \in DOMAIN failed_attempts /\ failed_attempts'[x] = failed_attempts[x]
  BY <1>2, <1>3 DEF WithHistory
<1>6. /\ LockFree
      /\ strikes' = [strikes EXCEPT
                        ![ip] = IF @ < MaxAttempts THEN @ + 1 ELSE @]
      /\ now' = now /\ banned_until' = banned_until /\ cut' = cut
  BY DEF RecordFailure
<1>7. /\ MaxAttempts \in Nat \ {0} /\ now \in Nat /\ BanDuration \in Nat
      /\ strikes \in [IPs -> 0..MaxAttempts]
      /\ pending \in [Callers \cup {Sweeper} -> Pending \cup {None}]
  BY AuthAssumption DEF TypeOK
<1>8. /\ strikes' \in [IPs -> 0..MaxAttempts]
      /\ \A x \in IPs : strikes'[x] >= strikes[x]
      /\ Len(times) <= strikes'[ip]
  <2>1. strikes'[ip] = IF strikes[ip] < MaxAttempts THEN strikes[ip] + 1
                                                    ELSE strikes[ip]
    BY <1>6, <1>7
  <2>2. strikes[ip] \in 0..MaxAttempts /\ Len(times) \in 1..MaxAttempts
    BY <1>2, <1>7
  <2>3. Len(times) <= strikes'[ip]
    BY <1>2, <1>7, <2>1, <2>2
  <2>4. QED
    BY <1>6, <1>7, <2>1, <2>2, <2>3
<1>9. /\ pending' \in [Callers \cup {Sweeper} -> Pending \cup {None}]
      /\ \A d \in DOMAIN pending' \ {c} : pending'[d] = None
      /\ IF MeetsThreshold(times)
         THEN pending'[c] = Banning(ip, code)
         ELSE pending'[c] = None
  BY <1>3, <1>4, <1>6, <1>7, PendingConstructors DEF LockFree
<1>10. TypeOK'
  <2>1. DOMAIN failed_attempts' \subseteq IPs
    BY <1>5 DEF TypeOK
  <2>2. failed_attempts' \in [DOMAIN failed_attempts' -> Seq(Nat)]
    <3>1. \A x \in DOMAIN failed_attempts' : failed_attempts'[x] \in Seq(Nat)
      BY <1>2, <1>5 DEF TypeOK
    <3>2. failed_attempts' = [x \in DOMAIN failed_attempts' |-> failed_attempts'[x]]
      BY <1>3 DEF WithHistory
    <3>3. QED
      BY <3>1, <3>2
  <2>3. \A x \in DOMAIN failed_attempts' :
            Chronological(failed_attempts'[x], now')
    BY <1>2, <1>5, <1>6 DEF TypeOK
  <2>4. QED
    BY <1>6, <1>8, <1>9, <2>1, <2>2, <2>3 DEF TypeOK
<1>11. IsFiniteSet(DOMAIN failed_attempts') /\ AttemptsBounded'
  BY <1>2, <1>5 DEF AttemptsBounded
<1>12. MutualExclusion'
  BY <1>9 DEF MutualExclusion
<1>13. PendingJustified'
  <2> SUFFICES ASSUME NEW d \in DOMAIN pending', pending'[d] # None
               PROVE  pending'[d].op = "ban"
                        /\ strikes'[pending'[d].ip] >= MaxAttempts
    BY DEF PendingJustified, Doing
  <2>1. d = c /\ MeetsThreshold(times) /\ pending'[d] = Banning(ip, code)
    BY <1>9
  <2>2. strikes'[ip] >= MaxAttempts
    BY <1>2, <1>7, <1>8, <2>1 DEF MeetsThreshold
  <2>3. QED
    BY <1>4, <2>1, <2>2, PendingConstructors
<1>14. BansBounded'
  BY <1>6 DEF BansBounded
<1>15. BansEarned'
  <2>1. ASSUME NEW x \in DOMAIN banned_until'
        PROVE  strikes'[x] >= MaxAttempts \/ x \in cut'
    <3>1. x \in IPs /\ (strikes[x] >= MaxAttempts \/ x \in cut)
      BY <1>6, PendingConstructors, PendingKinds
      DEF BansEarned, LockFree, TypeOK
    <3>2. strikes[x] \in Nat /\ strikes'[x] \in Nat
      BY <1>7, <1>8, <3>1
    <3>3. QED
      BY <1>6, <1>7, <1>8, <3>1, <3>2
  <2>2. ASSUME NEW x \in DOMAIN failed_attempts'
        PROVE  Len(failed_attempts'[x]) <= strikes'[x]
    <3>1. CASE x = ip
      BY <1>5, <1>8, <3>1
    <3>2. CASE x # ip
      <4>1. x \in IPs /\ Len(failed_attempts[x]) <= strikes[x]
        BY <1>5, <3>2 DEF BansEarned, TypeOK
      <4>2. strikes'[x] = strikes[x]
        BY <1>6, <1>7, <3>2, <4>1
      <4>3. QED
        BY <1>5, <3>2, <4>1, <4>2
    <3>3. QED
      BY <3>1, <3>2
  <2>3. QED
    BY <2>1, <2>2 DEF BansEarned
<1>16. ThresholdBansSoon'
  <2> SUFFICES ASSUME NEW x \in DOMAIN failed_attempts',
                      Len(failed_attempts'[x]) >= MaxAttempts
               PROVE  \/ now >= Latest(failed_attempts'[x]) + BanDuration
                      \/ /\ x \in DOMAIN banned_until
                         /\ banned_until[x]
                              >= Latest(failed_attempts'[x]) + BanDuration
                      \/ \E d \in Callers :
                            Doing(d, "ban")' /\ pending'[d].ip = x
                      \/ x \in cut'
    BY <1>6 DEF ThresholdBansSoon
  <2>1. CASE x = ip
    <3>1. pending'[c] = Banning(ip, code)
      BY <1>5, <1>9, <2>1 DEF MeetsThreshold
    <3>2. pending'[c] # None /\ pending'[c].op = "ban" /\ pending'[c].ip = ip
      BY <1>4, <3>1, PendingConstructors, PendingKinds
    <3>3. QED
      BY <2>1, <3>2 DEF Doing
  <2>2. CASE x # ip
    BY <1>5, <1>6, <2>2 DEF ThresholdBansSoon, LockFree, Doing, TypeOK
  <2>3. QED
    BY <2>1, <2>2
<1>17. RunningBanKept
  BY <1>6 DEF RunningBanKept, TypeOK
<1>18. QED
  BY <1>10, <1>11, <1>12, <1>13, <1>14, <1>15, <1>16, <1>17

\* The second half of record_failure.
LEMMA InsertBanStep ==
    ASSUME IInv, NEW c \in Callers, InsertBan(c)
    PROVE  IInv' /\ RunningBanKept
<1> USE DEF IInv
<1> DEFINE ip == pending[c].ip
<1>1. /\ c \in DOMAIN pending /\ pending[c] \in Pending
      /\ pending[c].op = "ban" /\ ip \in IPs
      /\ strikes[ip] >= MaxAttempts
  BY PendingKinds DEF InsertBan, Doing, TypeOK, PendingJustified
<1>2. /\ banned_until' = WithHistory(banned_until, ip, now + BanDuration)
      /\ pending' = [pending EXCEPT ![c] = None]
      /\ now' = now /\ failed_attempts' = failed_attempts
      /\ strikes' = strikes /\ cut' = cut \ {ip}
  BY DEF InsertBan
<1>3. /\ now \in Nat /\ BanDuration \in Nat /\ now + BanDuration \in Nat
      /\ pending \in [Callers \cup {Sweeper} -> Pending \cup {None}]
  BY AuthAssumption DEF TypeOK
<1> HIDE DEF ip
<1>4. /\ DOMAIN banned_until' = DOMAIN banned_until \cup {ip}
      /\ banned_until'[ip] = now + BanDuration
      /\ \A x \in DOMAIN banned_until' \ {ip} :
            x \in DOMAIN banned_until /\ banned_until'[x] = banned_until[x]
      /\ banned_until' = [x \in DOMAIN banned_until' |-> banned_until'[x]]
  BY <1>2 DEF WithHistory
<1>5. \A d \in DOMAIN pending' : pending'[d] = None
  BY <1>1, <1>2, <1>3, PendingKinds DEF MutualExclusion
<1>6. TypeOK'
  <2>1. \A x \in DOMAIN banned_until' : banned_until'[x] \in Nat
    BY <1>3, <1>4 DEF TypeOK
  <2>2. banned_until' \in [DOMAIN banned_until' -> Nat]
    BY <1>4, <2>1
  <2>3. pending' \in [Callers \cup {Sweeper} -> Pending \cup {None}]
    BY <1>2, <1>3
  <2>4. DOMAIN banned_until' \subseteq IPs
    BY <1>1, <1>4 DEF TypeOK
  <2>5. QED
    BY <1>2, <2>2, <2>3, <2>4 DEF TypeOK
<1>7. IsFiniteSet(DOMAIN failed_attempts') /\ AttemptsBounded'
  BY <1>2 DEF AttemptsBounded
<1>8. MutualExclusion' /\ PendingJustified'
  BY <1>5 DEF MutualExclusion, PendingJustified, Doing
<1>9. BansBounded'
  BY <1>2, <1>3, <1>4 DEF BansBounded
<1>10. BansEarned'
  <2>1. ASSUME NEW x \in DOMAIN banned_until'
        PROVE  strikes'[x] >= MaxAttempts \/ x \in cut'
    <3>1. CASE x = ip
      BY <1>1, <1>2, <3>1
    <3>2. CASE x # ip
      <4>1. x \in DOMAIN banned_until
        BY <1>4, <3>2
      <4>2. \A d \in Callers : pending[d] # Unbanning(x)
        <5> SUFFICES ASSUME NEW d \in Callers, pending[d] = Unbanning(x)
                     PROVE  FALSE
          OBVIOUS
        <5>1. x \in IPs
          BY <4>1 DEF TypeOK
        <5>2. pending[d].op = "unban" /\ pending[d] # None
          BY <5>1, PendingConstructors, PendingKinds
        <5>3. d = c
          BY <1>1, <1>3, <5>2, PendingKinds DEF MutualExclusion
        <5>4. QED
          BY <1>1, <5>2, <5>3
      <4>3. QED
        BY <1>2, <3>2, <4>1, <4>2 DEF BansEarned
    <3>3. QED
      BY <3>1, <3>2
  <2>2. QED
    BY <1>2, <2>1 DEF BansEarned
<1>11. ThresholdBansSoon'
  <2> SUFFICES ASSUME NEW x \in DOMAIN failed_attempts,
                      Len(failed_attempts[x]) >= MaxAttempts
               PROVE  \/ now >= Latest(failed_attempts[x]) + BanDuration
                      \/ /\ x \in DOMAIN banned_until'
                         /\ banned_until'[x]
                              >= Latest(failed_attempts[x]) + BanDuration
                      \/ x \in cut'
    BY <1>2 DEF ThresholdBansSoon
  <2>1. CASE x = ip
    <3>1. /\ failed_attempts[x] \in Seq(Nat)
          /\ Len(failed_attempts[x]) \in DOMAIN failed_attempts[x]
      BY LenProperties DEF TypeOK, AttemptsBounded
    <3>2. /\ Latest(failed_attempts[x]) \in Nat
          /\ Latest(failed_attempts[x]) <= now
      BY <3>1, LenProperties DEF TypeOK, Chronological, Latest
    <3>3. QED
      BY <1>3, <1>4, <2>1, <3>2
  <2>2. CASE x # ip
    <3>1. ~ \E d \in Callers : Doing(d, "ban") /\ pending[d].ip = x
      BY <1>1, <1>3, <2>2, PendingKinds DEF MutualExclusion, Doing, ip
    <3>2. QED
      BY <1>2, <1>4, <2>2, <3>1 DEF ThresholdBansSoon
  <2>3. QED
    BY <2>1, <2>2
<1>12. RunningBanKept
  <2> SUFFICES ASSUME NEW x \in DOMAIN banned_until
               PROVE  /\ x \in DOMAIN banned_until'
                      /\ banned_until'[x] >= banned_until[x]
    BY DEF RunningBanKept
  <2>1. banned_until[x] \in Nat /\ banned_until[x] <= now + BanDuration
    BY DEF BansBounded, TypeOK
  <2>2. x \in DOMAIN banned_until'
    BY <1>4
  <2>3. CASE x = ip
    BY <1>3, <1>4, <2>1, <2>2, <2>3
  <2>4. CASE x # ip
    BY <1>4, <2>1, <2>2, <2>4
  <2>5. QED
    BY <2>3, <2>4
<1>13. QED
  BY <1>6, <1>7, <1>8, <1>9, <1>10, <1>11, <1>12

\* record_success forgets the failures, and has the lock until the ban goes.
LEMMA RecordSuccessStep ==
    ASSUME IInv, NEW c \in Callers, NEW ip \in IPs, RecordSuccess(c, ip)
    PROVE  IInv' /\ RunningBanKept
<1> USE DEF IInv
<1>1. /\ LockFree
      /\ failed_attempts' = Without(failed_attempts, ip)
      /\ pending' = [pending EXCEPT ![c] = Unbanning(ip)]
      /\ strikes' = [strikes EXCEPT ![ip] = 0]
      /\ now' = now /\ banned_until' = banned_until /\ cut' = cut
  BY DEF RecordSuccess
<1>2. /\ pending \in [Callers \cup {Sweeper} -> Pending \cup {None}]
      /\ strikes \in [IPs -> 0..MaxAttempts]
      /\ MaxAttempts \in Nat
  BY AuthAssumption DEF TypeOK
<1>3. /\ DOMAIN failed_attempts' = DOMAIN failed_attempts \ {ip}
      /\ failed_attempts' =
            [x \in DOMAIN failed_attempts' |-> failed_attempts[x]]
  BY <1>1 DEF Without
<1>4. /\ pending'[c] = Unbanning(ip)
      /\ pending' \in [Callers \cup {Sweeper} -> Pending \cup {None}]
      /\ \A d \in DOMAIN pending' \ {c} : pending'[d] = None
  BY <1>1, <1>2, PendingConstructors DEF LockFree
<1>5. \A d \in Callers : \A x : ~(Doing(d, "ban") /\ pending[d].ip = x)
  BY <1>1, <1>2 DEF LockFree, Doing
<1>6. TypeOK'
  <2>1. failed_attempts' \in [DOMAIN failed_attempts' -> Seq(Nat)]
    BY <1>3 DEF TypeOK
  <2>2. strikes' \in [IPs -> 0..MaxAttempts]
    BY <1>1, <1>2
  <2>3. QED
    BY <1>1, <1>3, <1>4, <2>1, <2>2 DEF TypeOK
<1>7. IsFiniteSet(DOMAIN failed_attempts') /\ AttemptsBounded'
  <2>1. /\ IsFiniteSet(DOMAIN failed_attempts')
        /\ Cardinality(DOMAIN failed_attempts')
             <= Cardinality(DOMAIN failed_attempts)
    BY <1>3, FS_Subset
  <2>2. /\ Cardinality(DOMAIN failed_attempts') \in Nat
        /\ Cardinality(DOMAIN failed_attempts) \in Nat
        /\ MaxTracked \in Nat
    BY <2>1, FS_CardinalityType, AuthAssumption
  <2>3. QED
    BY <1>3, <2>1, <2>2 DEF AttemptsBounded
<1>8. MutualExclusion'
  BY <1>4 DEF MutualExclusion
<1>9. PendingJustified'
  <2> SUFFICES ASSUME NEW d \in DOMAIN pending', pending'[d] # None
               PROVE  pending'[d].op = "unban"
                        /\ pending'[d].ip \notin DOMAIN failed_attempts'
    BY DEF PendingJustified, Doing
  <2>1. d = c
    BY <1>4
  <2>2. QED
    BY <1>3, <1>4, <2>1, PendingConstructors
<1>10. BansBounded'
  BY <1>1 DEF BansBounded
<1>11. BansEarned'
  <2>1. ASSUME NEW x \in DOMAIN banned_until', x # ip
        PROVE  strikes'[x] >= MaxAttempts \/ x \in cut'
    <3>1. x \in IPs /\ (strikes[x] >= MaxAttempts \/ x \in cut)
      BY <1>1, PendingConstructors, PendingKinds
      DEF BansEarned, LockFree, TypeOK
    <3>2. QED
      BY <1>1, <1>2, <2>1, <3>1
  <2>2. ASSUME NEW x \in DOMAIN failed_attempts'
        PROVE  Len(failed_attempts'[x]) <= strikes'[x]
    <3>1. x # ip /\ x \in IPs /\ failed_attempts'[x] = failed_attempts[x]
      BY <1>3 DEF TypeOK
    <3>2. strikes'[x] = strikes[x]
      BY <1>1, <1>2, <3>1
    <3>3. QED
      BY <1>3, <3>1, <3>2 DEF BansEarned
  <2>3. QED
    BY <1>4, <2>1, <2>2 DEF BansEarned
<1>12. ThresholdBansSoon'
  BY <1>1, <1>3, <1>5 DEF ThresholdBansSoon
<1>13. RunningBanKept
  BY <1>1 DEF RunningBanKept, TypeOK
<1>14. QED
  BY <1>6, <1>7, <1>8, <1>9, <1>10, <1>11, <1>12, <1>13

\* The second half of record_success.
LEMMA RemoveBanStep ==
    ASSUME IInv, NEW c \in Callers, RemoveBan(c)
    PROVE  IInv' /\ RunningBanKept
<1> USE DEF IInv
<1> DEFINE ip == pending[c].ip
<1>1. /\ c \in DOMAIN pending /\ pending[c] \in Pending
      /\ pending[c].op = "unban" /\ ip \in IPs
      /\ pending[c] = Unbanning(ip)
      /\ ip \notin DOMAIN failed_attempts
  BY PendingKinds DEF RemoveBan, Doing, TypeOK, PendingJustified
<1>2. /\ banned_until' = Without(banned_until, ip)
      /\ pending' = [pending EXCEPT ![c] = None]
      /\ now' = now /\ failed_attempts' = failed_attempts
      /\ strikes' = strikes /\ cut' = cut \ {ip}
  BY DEF RemoveBan
<1>3. pending \in [Callers \cup {Sweeper} -> Pending \cup {None}]
  BY DEF TypeOK
<1> HIDE DEF ip
<1>4. /\ DOMAIN banned_until' = DOMAIN banned_until \ {ip}
      /\ banned_until' = [x \in DOMAIN banned_until' |-> banned_until[x]]
  BY <1>2 DEF Without
<1>5. /\ \A d \in DOMAIN pending' : pending'[d] = None
      /\ \A d \in DOMAIN pending : pending[d] # None => d = c
  BY <1>1, <1>2, <1>3, PendingKinds DEF MutualExclusion
<1>6. TypeOK'
  <2>1. pending' \in [Callers \cup {Sweeper} -> Pending \cup {None}]
    BY <1>2, <1>3
  <2>2. QED
    BY <1>2, <1>4, <2>1 DEF TypeOK
<1>7. IsFiniteSet(DOMAIN failed_attempts') /\ AttemptsBounded'
  BY <1>2 DEF AttemptsBounded
<1>8. MutualExclusion' /\ PendingJustified'
  BY <1>5 DEF MutualExclusion, PendingJustified, Doing
<1>9. BansBounded'
  BY <1>2, <1>4 DEF BansBounded
<1>10. BansEarned'
  <2>1. ASSUME NEW x \in DOMAIN banned_until'
        PROVE  strikes[x] >= MaxAttempts \/ x \in cut'
    <3>1. x \in DOMAIN banned_until /\ x # ip /\ x \in IPs
      BY <1>4 DEF TypeOK
    <3>2. ASSUME NEW d \in Callers, pending[d] = Unbanning(x)
          PROVE  FALSE
      <4>1. pending[d] # None /\ pending[d].ip = x
        BY <3>1, <3>2, PendingConstructors, PendingKinds
      <4>2. d = c
        BY <1>3, <1>5, <4>1
      <4>3. QED
        BY <3>1, <4>1, <4>2 DEF ip
    <3>3. QED
      BY <1>2, <3>1, <3>2 DEF BansEarned
  <2>2. QED
    BY <1>2, <2>1 DEF BansEarned
<1>11. ThresholdBansSoon'
  <2> SUFFICES ASSUME NEW x \in DOMAIN failed_attempts,
                      Len(failed_attempts[x]) >= MaxAttempts
               PROVE  \/ now >= Latest(failed_attempts[x]) + BanDuration
                      \/ /\ x \in DOMAIN banned_until'
                         /\ banned_until'[x]
                              >= Latest(failed_attempts[x]) + BanDuration
                      \/ x \in cut'
    BY <1>2 DEF ThresholdBansSoon
  <2>1. x # ip
    BY <1>1
  <2>2. ~ \E d \in Callers : Doing(d, "ban") /\ pending[d].ip = x
    BY <1>1, <1>3, <1>5 DEF Doing
  <2>3. QED
    BY <1>2, <1>4, <2>1, <2>2 DEF ThresholdBansSoon
<1>12. RunningBanKept
  <2> SUFFICES ASSUME NEW x \in DOMAIN banned_until,
                      ~ \E d \in Callers : pending[d] = Unbanning(x)
               PROVE  /\ x \in DOMAIN banned_until'
                      /\ banned_until'[x] >= banned_until[x]
    BY DEF RunningBanKept
  <2>1. x # ip /\ banned_until[x] \in Nat
    BY <1>1 DEF TypeOK
  <2>2. QED
    BY <1>4, <2>1
<1>13. QED
  BY <1>6, <1>7, <1>8, <1>9, <1>10, <1>11, <1>12

\* A dropped request gives the lock back; its client is on record as cut.
LEMMA CancelStep ==
    ASSUME IInv, NEW c \in Callers, Cancel(c)
    PROVE  IInv' /\ RunningBanKept
<1> USE DEF IInv
<1> DEFINE ip == pending[c].ip
<1>1. /\ Doing(c, "ban") \/ Doing(c, "unban")
      /\ cut' = cut \cup {ip}
      /\ pending' = [pending EXCEPT ![c] = None]
      /\ now' = now /\ failed_attempts' = failed_attempts
      /\ banned_until' = banned_until /\ strikes' = strikes
  BY DEF Cancel
<1>2. /\ c \in DOMAIN pending /\ pending[c] \in Pending /\ ip \in IPs
      /\ pending \in [Callers \cup {Sweeper} -> Pending \cup {None}]
  BY <1>1, PendingKinds DEF TypeOK, Doing
<1> HIDE DEF ip
<1>3. \A d \in DOMAIN pending' : pending'[d] = None
  BY <1>1, <1>2, PendingKinds DEF MutualExclusion
<1>4. \A d \in Callers : pending[d] # None => d = c
  BY <1>2, PendingKinds DEF MutualExclusion
<1>5. TypeOK'
  <2>1. pending' \in [Callers \cup {Sweeper} -> Pending \cup {None}]
    BY <1>1, <1>2
  <2>2. cut' \subseteq IPs
    BY <1>1, <1>2 DEF TypeOK
  <2>3. QED
    BY <1>1, <2>1, <2>2 DEF TypeOK
<1>6. IsFiniteSet(DOMAIN failed_attempts') /\ AttemptsBounded'
  BY <1>1 DEF AttemptsBounded
<1>7. MutualExclusion' /\ PendingJustified'
  BY <1>3 DEF MutualExclusion, PendingJustified, Doing
<1>8. BansBounded'
  BY <1>1 DEF BansBounded
<1>9. BansEarned'
  <2>1. ASSUME NEW x \in DOMAIN banned_until
        PROVE  strikes[x] >= MaxAttempts \/ x \in cut'
    <3>1. ASSUME NEW d \in Callers, pending[d] = Unbanning(x)
          PROVE  x = ip
      <4>1. x \in IPs
        BY DEF TypeOK
      <4>2. pending[d] # None /\ pending[d].ip = x
        BY <3>1, <4>1, PendingConstructors, PendingKinds
      <4>3. QED
        BY <1>4, <4>2 DEF ip
    <3>2. QED
      BY <1>1, <3>1 DEF BansEarned
  <2>2. QED
    BY <1>1, <2>1 DEF BansEarned
<1>10. ThresholdBansSoon'
  <2> SUFFICES ASSUME NEW x \in DOMAIN failed_attempts,
                      Len(failed_attempts[x]) >= MaxAttempts
               PROVE  \/ now >= Latest(failed_attempts[x]) + BanDuration
                      \/ /\ x \in DOMAIN banned_until
                         /\ banned_until[x]
                              >= Latest(failed_attempts[x]) + BanDuration
                      \/ x \in cut'
    BY <1>1 DEF ThresholdBansSoon
  <2>1. \A d \in Callers : Doing(d, "ban") /\ pending[d].ip = x => x = ip
    BY <1>4 DEF Doing, ip
  <2>2. QED
    BY <1>1, <2>1 DEF ThresholdBansSoon
<1>11. RunningBanKept
  BY <1>1 DEF RunningBanKept, TypeOK
<1>12. QED
  BY <1>5, <1>6, <1>7, <1>8, <1>9, <1>10, <1>11

\* The cleanup prunes histories under the lock; a client that keeps enough
\* failures to be banned keeps the latest of them.
LEMMA SweepAttemptsStep ==
    ASSUME IInv, SweepAttempts
    PROVE  IInv' /\ RunningBanKept
<1> USE DEF IInv
<1>1. /\ LockFree
      /\ failed_attempts' = Swept(failed_attempts, now, AuthWindow)
      /\ pending' = [pending EXCEPT ![Sweeper] = Sweeping(now)]
      /\ now' = now /\ banned_until' = banned_until /\ strikes' = strikes
      /\ cut' = cut
  BY DEF SweepAttempts
<1>2. /\ pending \in [Callers \cup {Sweeper} -> Pending \cup {None}]
      /\ now \in Nat /\ AuthWindow \in Nat /\ MaxAttempts \in Nat \ {0}
      /\ BanDuration \in Nat
  BY AuthAssumption DEF TypeOK
<1>3. /\ DOMAIN failed_attempts' \subseteq DOMAIN failed_attempts
      /\ failed_attempts' =
            [x \in DOMAIN failed_attempts' |->
                Recent(failed_attempts[x], now, AuthWindow)]
      /\ \A x \in DOMAIN failed_attempts' : failed_attempts'[x] # << >>
  BY <1>1 DEF Swept
<1>4. ASSUME NEW x \in DOMAIN failed_attempts'
      PROVE  /\ x \in DOMAIN failed_attempts
             /\ failed_attempts'[x] \in Seq(Nat)
             /\ Len(failed_attempts'[x]) <= Len(failed_attempts[x])
             /\ Len(failed_attempts'[x]) \in 1..MaxAttempts
             /\ Latest(failed_attempts'[x]) = Latest(failed_attempts[x])
             /\ Chronological(failed_attempts'[x], now)
  <2>1. /\ x \in DOMAIN failed_attempts
        /\ failed_attempts[x] \in Seq(Nat)
        /\ Chronological(failed_attempts[x], now)
        /\ Len(failed_attempts[x]) \in 1..MaxAttempts
        /\ failed_attempts'[x] = Recent(failed_attempts[x], now, AuthWindow)
        /\ failed_attempts'[x] # << >>
    BY <1>3 DEF TypeOK, AttemptsBounded
  <2>2. /\ failed_attempts'[x] \in Seq(Nat)
        /\ Len(failed_attempts'[x]) <= Len(failed_attempts[x])
        /\ Latest(failed_attempts'[x]) = Latest(failed_attempts[x])
    BY <1>2, <2>1, RecentIsSuffix
  <2>3. Chronological(failed_attempts'[x], now)
    BY <1>2, <2>1, RecentChronological
  <2>4. Len(failed_attempts'[x]) \in Nat /\ Len(failed_attempts'[x]) # 0
    BY <2>1, <2>2, LenProperties, EmptySeq
  <2>5. QED
    BY <1>2, <2>1, <2>2, <2>3, <2>4
<1>5. /\ pending'[Sweeper] = Sweeping(now)
      /\ pending' \in [Callers \cup {Sweeper} -> Pending \cup {None}]
      /\ \A d \in DOMAIN pending' \ {Sweeper} : pending'[d] = None
  BY <1>1, <1>2, PendingConstructors DEF LockFree
<1>6. TypeOK'
  <2>1. failed_attempts' \in [DOMAIN failed_attempts' -> Seq(Nat)]
    BY <1>3, <1>4
  <2>2. QED
    BY <1>1, <1>3, <1>4, <1>5, <2>1 DEF TypeOK
<1>7. IsFiniteSet(DOMAIN failed_attempts') /\ AttemptsBounded'
  <2>1. /\ IsFiniteSet(DOMAIN failed_attempts')
        /\ Cardinality(DOMAIN failed_attempts')
             <= Cardinality(DOMAIN failed_attempts)
    BY <1>3, FS_Subset
  <2>2. /\ Cardinality(DOMAIN failed_attempts') \in Nat
        /\ Cardinality(DOMAIN failed_attempts) \in Nat
        /\ MaxTracked \in Nat
    BY <2>1, FS_CardinalityType, AuthAssumption
  <2>3. Cardinality(DOMAIN failed_attempts') <= MaxTracked
    BY <2>1, <2>2 DEF AttemptsBounded
  <2>4. QED
    BY <1>4, <2>1, <2>3 DEF AttemptsBounded
<1>8. MutualExclusion'
  BY <1>5 DEF MutualExclusion
<1>9. PendingJustified'
  <2> SUFFICES ASSUME NEW d \in DOMAIN pending', pending'[d] # None
               PROVE  pending'[d].op = "sweep" /\ pending'[d].asof <= now'
    BY DEF PendingJustified, Doing
  <2>1. d = Sweeper
    BY <1>5
  <2>2. QED
    BY <1>1, <1>2, <1>5, <2>1, PendingConstructors
<1>10. BansBounded'
  BY <1>1 DEF BansBounded
<1>11. BansEarned'
  <2>1. ASSUME NEW x \in DOMAIN banned_until'
        PROVE  strikes[x] >= MaxAttempts \/ x \in cut'
    BY <1>1, PendingConstructors, PendingKinds
    DEF BansEarned, LockFree, TypeOK
  <2>2. ASSUME NEW x \in DOMAIN failed_attempts'
        PROVE  Len(failed_attempts'[x]) <= strikes[x]
    <3>1. /\ x \in IPs /\ Len(failed_attempts[x]) <= strikes[x]
          /\ strikes[x] \in Nat
          /\ Len(failed_attempts[x]) \in Nat
      BY <1>2, <1>4 DEF BansEarned, TypeOK, AttemptsBounded
    <3>2. QED
      BY <1>4, <3>1
  <2>3. QED
    BY <1>1, <2>1, <2>2 DEF BansEarned
<1>12. ThresholdBansSoon'
  <2> SUFFICES ASSUME NEW x \in DOMAIN failed_attempts',
                      Len(failed_attempts'[x]) >= MaxAttempts
               PROVE  \/ now >= Latest(failed_attempts'[x]) + BanDuration
                      \/ /\ x \in DOMAIN banned_until
                         /\ banned_until[x]
                              >= Latest(failed_attempts'[x]) + BanDuration
                      \/ x \in cut
    BY <1>1 DEF ThresholdBansSoon
  <2>1. Len(failed_attempts[x]) >= MaxAttempts
    BY <1>2, <1>4 DEF AttemptsBounded
  <2>2. ~ \E d \in Callers : Doing(d, "ban") /\ pending[d].ip = x
    BY <1>1, <1>2 DEF LockFree, Doing
  <2>3. QED
    BY <1>4, <2>1, <2>2 DEF ThresholdBansSoon
<1>13. RunningBanKept
  BY <1>1 DEF RunningBanKept, TypeOK
<1>14. QED
  BY <1>6, <1>7, <1>8, <1>9, <1>10, <1>11, <1>12, <1>13

\* The cleanup drops only bans that have ended, though its clock reading is
\* older than the lock it drops them under.
LEMMA SweepBansStep ==
    ASSUME IInv, SweepBans
    PROVE  IInv' /\ RunningBanKept
<1> USE DEF IInv
<1> DEFINE t == pending[Sweeper].asof
<1>1. /\ Sweeper \in DOMAIN pending /\ pending[Sweeper] \in Pending
      /\ pending[Sweeper].op = "sweep"
      /\ t \in Nat /\ t <= now /\ now \in Nat
  BY PendingKinds DEF SweepBans, Doing, TypeOK, PendingJustified
<1>2. /\ banned_until' = [ip \in RunningBans(t) |-> banned_until[ip]]
      /\ pending' = [pending EXCEPT ![Sweeper] = None]
      /\ now' = now /\ failed_attempts' = failed_attempts
      /\ strikes' = strikes /\ cut' = cut
  BY DEF SweepBans
<1>3. /\ pending \in [Callers \cup {Sweeper} -> Pending \cup {None}]
      /\ Sweeper \notin Callers
  BY AuthAssumption DEF TypeOK
<1> HIDE DEF t
<1>4. /\ DOMAIN banned_until' = {x \in DOMAIN banned_until : banned_until[x] > t}
      /\ \A x \in DOMAIN banned_until' : banned_until'[x] = banned_until[x]
      /\ banned_until' = [x \in DOMAIN banned_until' |-> banned_until[x]]
  BY <1>2 DEF RunningBans
<1>5. /\ \A d \in DOMAIN pending' : pending'[d] = None
      /\ \A d \in Callers : pending[d] = None
  BY <1>1, <1>2, <1>3, PendingKinds DEF MutualExclusion
<1>6. TypeOK'
  <2>1. pending' \in [Callers \cup {Sweeper} -> Pending \cup {None}]
    BY <1>2, <1>3
  <2>2. DOMAIN banned_until' \subseteq DOMAIN banned_until
    BY <1>4
  <2>3. banned_until' \in [DOMAIN banned_until' -> Nat]
    BY <1>4, <2>2 DEF TypeOK
  <2>4. QED
    BY <1>2, <2>1, <2>2, <2>3 DEF TypeOK
<1>7. IsFiniteSet(DOMAIN failed_attempts') /\ AttemptsBounded'
  BY <1>2 DEF AttemptsBounded
<1>8. MutualExclusion' /\ PendingJustified'
  BY <1>5 DEF MutualExclusion, PendingJustified, Doing
<1>9. BansBounded'
  BY <1>2, <1>4 DEF BansBounded
<1>10. BansEarned'
  <2>1. ASSUME NEW x \in DOMAIN banned_until'
        PROVE  strikes[x] >= MaxAttempts \/ x \in cut'
    BY <1>2, <1>4, <1>5, PendingConstructors, PendingKinds
    DEF BansEarned, TypeOK
  <2>2. QED
    BY <1>2, <2>1 DEF BansEarned
<1>11. ThresholdBansSoon'
  <2> SUFFICES ASSUME NEW x \in DOMAIN failed_attempts,
                      Len(failed_attempts[x]) >= MaxAttempts
               PROVE  \/ now >= Latest(failed_attempts[x]) + BanDuration
                      \/ /\ x \in DOMAIN banned_until'
                         /\ banned_until'[x]
                              >= Latest(failed_attempts[x]) + BanDuration
                      \/ x \in cut'
    BY <1>2 DEF ThresholdBansSoon
  <2> DEFINE last == Latest(failed_attempts[x]) + BanDuration
  <2>1. last \in Nat
    <3>1. /\ failed_attempts[x] \in Seq(Nat)
          /\ Len(failed_attempts[x]) \in DOMAIN failed_attempts[x]
      BY LenProperties DEF TypeOK, AttemptsBounded
    <3>2. Latest(failed_attempts[x]) \in Nat
      BY <3>1, LenProperties DEF Latest
    <3>3. QED
      BY <3>2, AuthAssumption
  <2> HIDE DEF last
  <2>2. ~ \E d \in Callers : Doing(d, "ban") /\ pending[d].ip = x
    BY <1>5 DEF Doing
  <2>3. \/ now >= last
        \/ x \in DOMAIN banned_until /\ banned_until[x] >= last
        \/ x \in cut
    BY <2>2 DEF ThresholdBansSoon, last
  <2>4. CASE x \in DOMAIN banned_until /\ banned_until[x] >= last
    <3>1. banned_until[x] \in Nat
      BY <2>4 DEF TypeOK
    <3>2. CASE banned_until[x] > t
      BY <1>4, <2>4, <3>2 DEF last
    <3>3. CASE ~(banned_until[x] > t)
      BY <1>1, <2>1, <2>4, <3>1, <3>3 DEF last
    <3>4. QED
      BY <3>2, <3>3
  <2>5. QED
    BY <1>2, <2>3, <2>4 DEF last
<1>12. RunningBanKept
  <2> SUFFICES ASSUME NEW x \in DOMAIN banned_until, now < banned_until[x]
               PROVE  /\ x \in DOMAIN banned_until'
                      /\ banned_until'[x] >= banned_until[x]
    BY DEF RunningBanKept, IsBanned
  <2>1. banned_until[x] \in Nat
    BY DEF TypeOK
  <2>2. banned_until[x] > t
    BY <1>1, <2>1
  <2>3. QED
    BY <1>4, <2>1, <2>2
<1>13. QED
  BY <1>6, <1>7, <1>8, <1>9, <1>10, <1>11, <1>12

\* Time passes, also while a task is between the maps.
LEMMA TickStep ==
    ASSUME IInv, Tick
    PROVE  IInv' /\ RunningBanKept
<1> USE DEF IInv
<1>1. /\ now \in Nat /\ now' = now + 1
      /\ UNCHANGED <<failed_attempts, banned_until, pending, strikes, cut>>
      /\ BanDuration \in Nat
  BY AuthAssumption DEF Tick, TypeOK
<1>2. TypeOK'
  <2>1. ASSUME NEW x \in DOMAIN failed_attempts
        PROVE  Chronological(failed_attempts[x], now')
    <3>1. /\ Chronological(failed_attempts[x], now)
          /\ failed_attempts[x] \in Seq(Nat)
      BY DEF TypeOK
    <3>2. \A i \in DOMAIN failed_attempts[x] : failed_attempts[x][i] \in Nat
      BY <3>1, LenProperties
    <3>3. QED
      BY <1>1, <3>1, <3>2 DEF Chronological
  <2>2. QED
    BY <1>1, <2>1 DEF TypeOK
<1>3. IsFiniteSet(DOMAIN failed_attempts') /\ AttemptsBounded'
  BY <1>1 DEF AttemptsBounded
<1>4. MutualExclusion'
  BY <1>1 DEF MutualExclusion
<1>5. PendingJustified'
  <2> SUFFICES ASSUME NEW c \in DOMAIN pending
               PROVE  (/\ Doing(c, "ban") => strikes[pending[c].ip] >= MaxAttempts
                       /\ Doing(c, "unban") =>
                             pending[c].ip \notin DOMAIN failed_attempts
                       /\ Doing(c, "sweep") => pending[c].asof <= now)'
    BY <1>1 DEF PendingJustified
  <2>1. Doing(c, "sweep") => pending[c].asof \in Nat /\ pending[c].asof <= now
    BY PendingKinds DEF PendingJustified, Doing, TypeOK
  <2>2. QED
    BY <1>1, <2>1 DEF PendingJustified, Doing
<1>6. BansBounded'
  <2> SUFFICES ASSUME NEW x \in DOMAIN banned_until
               PROVE  banned_until[x] <= now + 1 + BanDuration
    BY <1>1 DEF BansBounded
  <2>1. banned_until[x] \in Nat /\ banned_until[x] <= now + BanDuration
    BY DEF BansBounded, TypeOK
  <2>2. QED
    BY <1>1, <2>1
<1>7. BansEarned'
  BY <1>1 DEF BansEarned
<1>8. ThresholdBansSoon'
  <2> SUFFICES ASSUME NEW x \in DOMAIN failed_attempts,
                      Len(failed_attempts[x]) >= MaxAttempts,
                      now >= Latest(failed_attempts[x]) + BanDuration
               PROVE  now + 1 >= Latest(failed_attempts[x]) + BanDuration
    BY <1>1 DEF ThresholdBansSoon, Doing
  <2>1. /\ failed_attempts[x] \in Seq(Nat)
        /\ Len(failed_attempts[x]) \in DOMAIN failed_attempts[x]
    BY LenProperties DEF TypeOK, AttemptsBounded
  <2>2. Latest(failed_attempts[x]) \in Nat
    BY <2>1, LenProperties DEF Latest
  <2>3. QED
    BY <1>1, <2>2
<1>9. RunningBanKept
  BY <1>1 DEF RunningBanKept, TypeOK
<1>10. QED
  BY <1>2, <1>3, <1>4, <1>5, <1>6, <1>7, <1>8, <1>9

-----------------------------------------------------------------------------
(* The theorems *)

LEMMA NextStep == ASSUME IInv, [Next]_vars PROVE IInv' /\ [RunningBanKept]_vars
<1>1. CASE UNCHANGED vars
  <2>1. IInv'
    BY <1>1
    DEF IInv, vars, TypeOK, AttemptsBounded, MutualExclusion, Doing,
        PendingJustified, BansBounded, BansEarned, ThresholdBansSoon
  <2>2. QED
    BY <1>1, <2>1
<1>2. CASE Next
  <2>1. ASSUME NEW c \in Callers, CallerStep(c) PROVE IInv' /\ RunningBanKept
    BY <2>1, RecordFailureStep, RecordSuccessStep, InsertBanStep, RemoveBanStep,
       CancelStep
    DEF CallerStep
  <2>2. QED
    BY <1>2, <2>1, SweepAttemptsStep, SweepBansStep, TickStep DEF Next
<1>3. QED
  BY <1>1, <1>2

LEMMA Invariance == Spec => []IInv
BY InitIInv, NextStep, PTL DEF Spec

\* Both maps are well typed, and every history is in order.
THEOREM TypeCorrect == Spec => []TypeOK
BY Invariance, PTL DEF IInv

\* The failure map respects its cap, and no record exceeds the threshold.
THEOREM AttemptsStayBounded == Spec => []AttemptsBounded
BY Invariance, PTL DEF IInv

\* No ban stands for failures that a later success has forgiven.
THEOREM NoUnearnedBan == Spec => []BansEarned
BY Invariance, PTL DEF IInv

\* Whenever the maps are at rest, enough failures on record mean a ban.
THEOREM EnoughFailuresBan == Spec => []ThresholdBans
<1>1. IInv => ThresholdBans
  BY DEF IInv, TypeOK, ThresholdBans, ThresholdBansSoon, LockFree, Doing
<1>2. QED
  BY <1>1, Invariance, PTL

\* A client is banned for enough failures, and for nothing else.
THEOREM BansMatchFailures == Spec => []BansConsistent
<1>1. BansEarned /\ ThresholdBans => BansConsistent
  BY DEF BansConsistent
<1>2. QED
  BY <1>1, NoUnearnedBan, EnoughFailuresBan, PTL

\* Only a success ends or shortens a ban that still runs.
THEOREM BansLast == Spec => OnlySuccessEndsBan
BY Invariance, NextStep, PTL DEF Spec, OnlySuccessEndsBan

-----------------------------------------------------------------------------
(* The middleware is a user of AuthState *)

\* Whoever has arrived has a call, and that call an address.
RequestsOK ==
    /\ keys \in Deployments
    /\ call \in [Callers -> Calls \cup {None}]
    /\ pc \in [Callers -> Labels]
    /\ \A r \in Callers : pc[r] # "idle" => call[r] \in Calls

LEMMA Addresses ==
    ASSUME RequestsOK, NEW r \in Callers, pc[r] # "idle"
    PROVE  call[r] \in Call /\ IpOf(r) \in IPs
<1>1. call[r] \in Call
  BY GateAssumption DEF RequestsOK
<1>2. QED
  BY <1>1 DEF IpOf, ClientIp, Call

\* A step of a request moves it on or is its last.
LEMMA RequestStep ==
    ASSUME NEW r \in Callers, Proceed(r) \/ Record(r) \/ Disconnect(r)
    PROVE  /\ pc[r] # "idle" /\ UNCHANGED keys
           /\ Finish(r) \/ \E l \in Labels : Goto(r, l) /\ UNCHANGED call
<1>1. CASE Proceed(r)
  BY <1>1 DEF Proceed, Reject, RateLimit, Refused, PassBanCheck, Ban, Unban,
              Handle, Answer, Labels
<1>2. CASE Record(r)
  BY <1>2 DEF Record, Fail, Succeed, Answer, Labels
<1>3. CASE Disconnect(r)
  BY <1>3 DEF Disconnect
<1>4. QED
  BY <1>1, <1>2, <1>3

LEMMA RequestsKept == RequestsOK /\ [GateNext]_gateVars => RequestsOK'
<1> SUFFICES ASSUME RequestsOK, [GateNext]_gateVars PROVE RequestsOK'
  OBVIOUS
<1>1. ASSUME NEW r \in Callers, NEW c \in Calls, Arrive(r, c)
      PROVE  RequestsOK'
  BY <1>1 DEF Arrive, Goto, RequestsOK, Labels
<1>2. ASSUME NEW r \in Callers, Proceed(r) \/ Record(r) \/ Disconnect(r)
      PROVE  RequestsOK'
  <2>1. /\ pc[r] # "idle" /\ UNCHANGED keys
        /\ Finish(r) \/ \E l \in Labels : Goto(r, l) /\ UNCHANGED call
    BY <1>2, RequestStep
  <2>2. CASE Finish(r)
    BY <2>1, <2>2 DEF Finish, Goto, RequestsOK, Labels
  <2>3. CASE \E l \in Labels : Goto(r, l) /\ UNCHANGED call
    BY <2>1, <2>3 DEF Goto, RequestsOK
  <2>4. QED
    BY <2>1, <2>2, <2>3
<1>3. CASE UNCHANGED <<keys, call, pc>>
  BY <1>3 DEF RequestsOK
<1>4. QED
  BY <1>1, <1>2, <1>3 DEF GateNext, Cleanup, GateTick, gateVars

LEMMA AuthStep == RequestsOK /\ [GateNext]_gateVars => [Next]_vars
<1> SUFFICES ASSUME RequestsOK, [GateNext]_gateVars PROVE [Next]_vars
  OBVIOUS
<1>1. CASE UNCHANGED vars
  BY <1>1 DEF vars, vars
<1>2. ASSUME NEW r \in Callers, CallerStep(r) PROVE Next
  BY <1>2 DEF Next
<1>3. ASSUME NEW r \in Callers, NEW c \in Calls, Arrive(r, c)
      PROVE  UNCHANGED vars
  BY <1>3 DEF Arrive
<1>4. ASSUME NEW r \in Callers, Proceed(r)
      PROVE  UNCHANGED vars \/ CallerStep(r)
  BY <1>4 DEF Proceed, Reject, RateLimit, Refused, PassBanCheck, Ban, Unban,
              Handle, CallerStep
<1>5. ASSUME NEW r \in Callers, Record(r) PROVE CallerStep(r)
  <2>1. IpOf(r) \in IPs
    BY <1>5, Addresses DEF Record, Fail, Succeed
  <2>2. QED
    BY <1>5, <2>1 DEF Record, Fail, Succeed, CallerStep
<1>6. ASSUME NEW r \in Callers, Disconnect(r)
      PROVE  UNCHANGED vars \/ CallerStep(r)
  BY <1>6 DEF Disconnect, CallerStep
<1>7. CASE Cleanup \/ GateTick
  BY <1>7 DEF Cleanup, GateTick, Next
<1>8. CASE UNCHANGED gateVars
  BY <1>8, <1>1 DEF gateVars
<1>9. QED
  BY <1>1, <1>2, <1>3, <1>4, <1>5, <1>6, <1>7, <1>8 DEF GateNext

LEMMA RequestsStayOK == GateSpec => []RequestsOK
<1>1. GateInit => RequestsOK
  BY DEF GateInit, RequestsOK, Labels
<1>2. QED
  BY <1>1, RequestsKept, PTL DEF GateSpec

\* The refinement: leaving the middleware out, each of its behaviours, the
\* dropped requests included, is one that AuthState allows.
THEOREM ImplementsAuth == GateSpec => AuthSpec
<1>1. GateInit => Init
  BY DEF GateInit
<1>2. QED
  BY <1>1, AuthStep, RequestsStayOK, PTL DEF GateSpec, AuthSpec, Spec

LEMMA AuthStaysTyped == GateSpec => []TypeOK
BY TypeCorrect, ImplementsAuth, PTL DEF AuthSpec

-----------------------------------------------------------------------------
(* The inductive invariant *)

Checked == {"valid", "invalid", "banning", "unbanning", "handling"}

\* What a task still has to do under the lock is about its own client.
BetweenTheMaps(r) ==
    /\ pc[r] = "banning" => Doing(r, "ban") /\ pending[r].ip = IpOf(r)
    /\ pc[r] = "unbanning" => pending[r] = Unbanning(IpOf(r))
    /\ pc[r] \notin {"banning", "unbanning"} => pending[r] = None

\* Whoever has passed the ban check has done so before any ban that runs.
FellLater(ip, t) == IsBanned(ip) => t + BanDuration <= banned_until[ip]

BanChecked(r) ==
    /\ since[r] <= now
    /\ IF pc[r] \in Checked THEN FellLater(IpOf(r), since[r])
                            ELSE since[r] = 0

\* What the middleware has found out about a request that is still there.
Authorised(r) ==
    /\ pc[r] \in Checked \cup {"limited"} => Acceptable(call[r])
    /\ pc[r] \in {"valid", "unbanning"} => ValidKey(call[r])
    /\ pc[r] = "handling" => ValidKey(call[r]) \/ ~AuthRequired(call[r])

\* No ban is shorter than it should be.
BansFull == \A ip \in DOMAIN banned_until : banned_until[ip] >= BanDuration

GateInv ==
    /\ since \in [Callers -> Nat]
    /\ guesses \in [IPs -> Seq(Nat)]
    /\ BansFull
    /\ \A r \in Callers : BetweenTheMaps(r) /\ BanChecked(r) /\ Authorised(r)

LEMMA Started == GateInit => GateInv
<1> SUFFICES ASSUME GateInit PROVE GateInv
  OBVIOUS
<1>1. since \in [Callers -> Nat] /\ guesses \in [IPs -> Seq(Nat)]
  BY DEF GateInit
<1>2. BansFull
  BY DEF GateInit, Init, BansFull
<1>3. ASSUME NEW r \in Callers
      PROVE  BetweenTheMaps(r) /\ BanChecked(r) /\ Authorised(r)
  BY DEF GateInit, Init, BetweenTheMaps, BanChecked, Checked, Authorised
<1>4. QED
  BY <1>1, <1>2, <1>3 DEF GateInv

\* Time and bans move on so that a ban check that was good remains good.
LEMMA BansMove ==
    ASSUME TypeOK, BansFull, [Next]_vars
    PROVE  /\ now \in Nat /\ now' \in Nat /\ now <= now'
           /\ BansFull'
           /\ \A ip, t : t \in Nat /\ t <= now /\ FellLater(ip, t)
                            => FellLater(ip, t)'
<1> DEFINE Good == /\ now' \in Nat /\ now <= now'
                   /\ BansFull'
                   /\ \A ip, t : t \in Nat /\ t <= now /\ FellLater(ip, t)
                                    => FellLater(ip, t)'
<1>1. /\ now \in Nat /\ BanDuration \in Nat
      /\ banned_until \in [DOMAIN banned_until -> Nat]
  BY AuthAssumption DEF TypeOK
<1>2. CASE UNCHANGED <<now, banned_until>>
  BY <1>1, <1>2 DEF BansFull, FellLater, IsBanned
<1>3. CASE Tick
  <2>1. now' = now + 1 /\ banned_until' = banned_until
    BY <1>3 DEF Tick
  <2>2. \A ip : IsBanned(ip)' => IsBanned(ip)
    BY <1>1, <2>1 DEF IsBanned
  <2>3. QED
    BY <1>1, <2>1, <2>2 DEF BansFull, FellLater
<1>4. ASSUME NEW c \in Callers, InsertBan(c) PROVE Good
  <2> DEFINE who == pending[c].ip
  <2>1. /\ now' = now
        /\ banned_until' = [x \in DOMAIN banned_until \cup {who} |->
                               IF x = who THEN now + BanDuration
                                          ELSE banned_until[x]]
    BY <1>4 DEF InsertBan, WithHistory
  <2>2. BansFull'
    BY <1>1, <2>1 DEF BansFull
  <2>3. ASSUME NEW ip, NEW t \in Nat, t <= now, FellLater(ip, t),
               IsBanned(ip)'
        PROVE  t + BanDuration <= banned_until'[ip]
    <3>1. CASE ip = who
      BY <1>1, <2>1, <2>3, <3>1
    <3>2. CASE ip # who
      BY <1>1, <2>1, <2>3, <3>2 DEF FellLater, IsBanned
    <3>3. QED
      BY <3>1, <3>2
  <2>4. QED
    BY <1>1, <2>1, <2>2, <2>3 DEF FellLater
<1>5. ASSUME now' = now,
             DOMAIN banned_until' \subseteq DOMAIN banned_until,
             \A ip \in DOMAIN banned_until' : banned_until'[ip] = banned_until[ip]
      PROVE  Good
  BY <1>1, <1>5 DEF BansFull, FellLater, IsBanned
<1>6. ASSUME NEW c \in Callers, RemoveBan(c) PROVE Good
  BY <1>5, <1>6 DEF RemoveBan, Without
<1>7. CASE SweepBans
  BY <1>5, <1>7 DEF SweepBans, RunningBans
<1>8. ASSUME NEW c \in Callers, NEW ip \in IPs,
             RecordFailure(c, ip) \/ RecordSuccess(c, ip)
      PROVE  Good
  BY <1>2, <1>8 DEF RecordFailure, RecordSuccess
<1>9. ASSUME NEW c \in Callers, Cancel(c) PROVE Good
  BY <1>2, <1>9 DEF Cancel
<1>10. CASE SweepAttempts
  BY <1>2, <1>10 DEF SweepAttempts
<1>11. CASE UNCHANGED vars
  BY <1>2, <1>11 DEF vars
<1> HIDE DEF Good
<1>12. ASSUME NEW c \in Callers, CallerStep(c) PROVE Good
  BY <1>4, <1>6, <1>8, <1>9, <1>12 DEF CallerStep
<1>13. CASE Next
  BY <1>1, <1>3, <1>7, <1>10, <1>12, <1>13 DEF Next, Good
<1>14. QED
  BY <1>1, <1>11, <1>13 DEF Good

\* What is known of a request remains known while others take their steps.
LEMMA OthersKeep ==
    ASSUME TypeOK, GateInv, [Next]_vars, UNCHANGED keys,
           NEW q \in Callers,
           pc'[q] = pc[q], call'[q] = call[q], since'[q] = since[q],
           pending'[q] = pending[q]
    PROVE  BetweenTheMaps(q)' /\ BanChecked(q)' /\ Authorised(q)'
<1>1. BetweenTheMaps(q) /\ BanChecked(q) /\ Authorised(q)
  BY DEF GateInv
<1>2. IpOf(q)' = IpOf(q)
  BY DEF IpOf
<1>3. BetweenTheMaps(q)'
  BY <1>1, <1>2 DEF BetweenTheMaps, Doing
<1>4. /\ since[q] \in Nat /\ now \in Nat /\ now' \in Nat /\ now <= now'
      /\ \A ip, t : t \in Nat /\ t <= now /\ FellLater(ip, t)
                       => FellLater(ip, t)'
  BY BansMove DEF GateInv
<1>5. BanChecked(q)'
  <2>1. since'[q] <= now'
    BY <1>1, <1>4 DEF BanChecked
  <2>2. CASE pc[q] \in Checked
    <3>1. FellLater(IpOf(q), since[q])
      BY <1>1, <2>2 DEF BanChecked
    <3>2. PICK ip, t : ip = IpOf(q) /\ t = since[q]
      OBVIOUS
    <3>3. FellLater(ip, t)'
      BY <1>1, <1>4, <3>1, <3>2 DEF BanChecked
    <3>4. QED
      BY <1>2, <2>1, <2>2, <3>2, <3>3
      DEF BanChecked, Checked, FellLater, IsBanned
  <2>3. CASE pc[q] \notin Checked
    BY <1>1, <2>1, <2>3 DEF BanChecked, Checked
  <2>4. QED
    BY <2>2, <2>3
<1>6. Authorised(q)'
  BY <1>1 DEF Authorised, Acceptable, ValidKey, AuthRequired
<1>7. QED
  BY <1>3, <1>5, <1>6

\* A request that is done leaves nothing behind.
LEMMA FinishedOK ==
    ASSUME RequestsOK, TypeOK, GateInv, [Next]_vars,
           NEW r \in Callers, Finish(r), pending'[r] = None
    PROVE  BetweenTheMaps(r)' /\ BanChecked(r)' /\ Authorised(r)'
<1>1. pc'[r] = "idle" /\ since'[r] = 0
  BY DEF Finish, Goto, RequestsOK, GateInv
<1>2. now' \in Nat /\ 0 <= now'
  BY BansMove DEF GateInv
<1>3. QED
  BY <1>1, <1>2 DEF BetweenTheMaps, BanChecked, Authorised, Checked

\* A request that moves on past the ban check.
LEMMA MovedOn ==
    ASSUME RequestsOK, TypeOK, GateInv, [Next]_vars,
           NEW r \in Callers, pc[r] \in Checked,
           NEW l \in Checked, Goto(r, l), UNCHANGED <<call, since>>
    PROVE  pc'[r] = l /\ IpOf(r)' = IpOf(r) /\ BanChecked(r)'
<1>1. pc'[r] = l /\ IpOf(r)' = IpOf(r)
  BY DEF Goto, RequestsOK, IpOf
<1>2. /\ since[r] \in Nat /\ since[r] <= now
      /\ FellLater(IpOf(r), since[r])
  BY DEF GateInv, BanChecked
<1>3. /\ now \in Nat /\ now' \in Nat /\ now <= now'
      /\ \A ip, t : t \in Nat /\ t <= now /\ FellLater(ip, t)
                       => FellLater(ip, t)'
  BY BansMove DEF GateInv
<1>4. PICK ip, t : ip = IpOf(r) /\ t = since[r]
  OBVIOUS
<1>5. FellLater(ip, t)'
  BY <1>2, <1>3, <1>4
<1>6. since'[r] <= now'
  BY <1>2, <1>3
<1>7. QED
  BY <1>1, <1>4, <1>5, <1>6 DEF BanChecked, FellLater, IsBanned

\* What the operations of AuthState do to the task that calls them.
LEMMA Pendings ==
    ASSUME TypeOK, NEW r \in Callers
    PROVE  /\ InsertBan(r) \/ RemoveBan(r) \/ Cancel(r)
                 => pending' = [pending EXCEPT ![r] = None]
           /\ \A ip \in IPs : RecordSuccess(r, ip) =>
                 /\ pending' = [pending EXCEPT ![r] = Unbanning(ip)]
                 /\ UNCHANGED <<now, banned_until>>
           /\ \A ip \in IPs : RecordFailure(r, ip) =>
                 /\ \/ UNCHANGED pending
                    \/ \E code \in {401, 429} :
                          pending' = [pending EXCEPT
                                         ![r] = Banning(ip, code)]
                 /\ UNCHANGED <<now, banned_until>>
<1>1. InsertBan(r) \/ RemoveBan(r) \/ Cancel(r)
         => pending' = [pending EXCEPT ![r] = None]
  BY DEF InsertBan, RemoveBan, Cancel
<1>2. ASSUME NEW ip \in IPs, RecordSuccess(r, ip)
      PROVE  /\ pending' = [pending EXCEPT ![r] = Unbanning(ip)]
             /\ UNCHANGED <<now, banned_until>>
  BY <1>2 DEF RecordSuccess
<1>3. ASSUME NEW ip \in IPs, RecordFailure(r, ip)
      PROVE  /\ \/ UNCHANGED pending
                \/ \E code \in {401, 429} :
                      pending' = [pending EXCEPT ![r] = Banning(ip, code)]
             /\ UNCHANGED <<now, banned_until>>
  <2>1. PICK h \in RoomFor(failed_attempts, ip, MaxTracked) :
           LET recent == Recent(HistoryOf(h, ip), now, AuthWindow)
               times  == IF MeetsThreshold(recent)
                         THEN recent ELSE Append(recent, now)
           IN  pending' = IF MeetsThreshold(times)
                          THEN [pending EXCEPT ![r] = Banning(ip,
                                   IF MeetsThreshold(recent) THEN 429 ELSE 401)]
                          ELSE pending
    BY <1>3 DEF RecordFailure
  <2>2. PICK code \in {401, 429} :
           code = IF MeetsThreshold(
                        Recent(HistoryOf(h, ip), now, AuthWindow))
                  THEN 429 ELSE 401
    OBVIOUS
  <2>3. \/ UNCHANGED pending
        \/ pending' = [pending EXCEPT ![r] = Banning(ip, code)]
    BY <2>1, <2>2
  <2>4. UNCHANGED <<now, banned_until>>
    BY <1>3 DEF RecordFailure
  <2>5. QED
    BY <2>3, <2>4
<1>4. QED
  BY <1>1, <1>2, <1>3

\* A step of one request leaves the others, and who holds what, alone.
LEMMA ActsAlone ==
    ASSUME RequestsOK, TypeOK, GateInv,
           NEW r \in Callers, Proceed(r) \/ Record(r) \/ Disconnect(r)
    PROVE  /\ since' \in [Callers -> Nat]
           /\ \A q \in Callers \ {r} :
                 /\ pc'[q] = pc[q] /\ call'[q] = call[q]
                 /\ since'[q] = since[q] /\ pending'[q] = pending[q]
<1>1. /\ pc \in [Callers -> Labels]
      /\ call \in [Callers -> Calls \cup {None}]
      /\ since \in [Callers -> Nat] /\ now \in Nat
      /\ pending \in [Callers \cup {Sweeper} -> Pending \cup {None}]
  BY DEF RequestsOK, GateInv, TypeOK
<1>2. /\ Finish(r) \/ \E l \in Labels : Goto(r, l) /\ UNCHANGED call
      /\ pc[r] # "idle"
  BY RequestStep
<1>3. /\ since' \in [Callers -> Nat]
      /\ \A q \in Callers \ {r} : since'[q] = since[q]
  <2>1. Finish(r) \/ UNCHANGED since \/ since' = [since EXCEPT ![r] = now]
    BY DEF Proceed, Record, Disconnect, Reject, RateLimit, Refused,
           PassBanCheck, Ban, Unban, Handle, Fail, Succeed, Answer
  <2>2. QED
    BY <1>1, <2>1 DEF Finish
<1>4. \A q \in Callers \ {r} : pending'[q] = pending[q]
  <2>1. UNCHANGED pending \/ \E x : pending' = [pending EXCEPT ![r] = x]
    <3>1. IpOf(r) \in IPs
      BY <1>2, Addresses
    <3>2. QED
      BY <3>1, Pendings
      DEF Proceed, Record, Disconnect, Reject, RateLimit, Refused,
          PassBanCheck, Ban, Unban, Handle, Fail, Succeed, vars
  <2>2. QED
    BY <1>1, <2>1
<1>5. \A q \in Callers \ {r} : pc'[q] = pc[q] /\ call'[q] = call[q]
  BY <1>1, <1>2 DEF Finish, Goto
<1>6. QED
  BY <1>3, <1>4, <1>5

\* Each step of a request, for the request itself.
LEMMA ActsWell ==
    ASSUME RequestsOK, TypeOK, GateInv, [Next]_vars,
           NEW r \in Callers, Proceed(r) \/ Record(r) \/ Disconnect(r)
    PROVE  BetweenTheMaps(r)' /\ BanChecked(r)' /\ Authorised(r)'
<1> DEFINE Well == BetweenTheMaps(r)' /\ BanChecked(r)' /\ Authorised(r)'
<1>1. /\ pc \in [Callers -> Labels]
      /\ call \in [Callers -> Calls \cup {None}]
      /\ since \in [Callers -> Nat] /\ now \in Nat
      /\ pending \in [Callers \cup {Sweeper} -> Pending \cup {None}]
      /\ UNCHANGED keys
  BY RequestStep DEF RequestsOK, GateInv, TypeOK
<1>2. BetweenTheMaps(r) /\ BanChecked(r) /\ Authorised(r)
  BY DEF GateInv
<1>3. pc[r] # "idle" /\ IpOf(r) \in IPs
  BY RequestStep, Addresses
<1>4. Finish(r) /\ pending'[r] = None => Well
  BY FinishedOK
<1>5. CASE Reject(r) \/ Refused(r) \/ Handle(r)
  <2>1. Finish(r)
    BY <1>5 DEF Reject, Refused, Handle, Answer
  <2>2. pending'[r] = None
    BY <1>2, <1>5 DEF Reject, Refused, Handle, vars, BetweenTheMaps
  <2>3. QED
    BY <1>4, <2>1, <2>2
<1>6. CASE RateLimit(r)
  <2>1. /\ pc[r] = "arrived" /\ Acceptable(call[r])
        /\ pending'[r] = None /\ UNCHANGED <<keys, now, banned_until>>
    BY <1>2, <1>6 DEF RateLimit, BetweenTheMaps, vars
  <2>2. CASE Answer(r, 429)
    BY <1>4, <2>1, <2>2 DEF Answer
  <2>3. CASE /\ Goto(r, IF AuthRequired(call[r]) THEN "limited"
                                                 ELSE "handling")
             /\ UNCHANGED <<call, since>>
    <3>1. /\ pc'[r] = IF AuthRequired(call[r]) THEN "limited" ELSE "handling"
          /\ since'[r] = 0 /\ IpOf(r)' = IpOf(r)
      BY <1>1, <1>2, <2>1, <2>3 DEF Goto, BanChecked, Checked, IpOf
    <3>2. BetweenTheMaps(r)'
      BY <2>1, <3>1 DEF BetweenTheMaps
    <3>3. BanChecked(r)'
      <4>1. IsBanned(IpOf(r)) => BanDuration <= banned_until[IpOf(r)]
        BY DEF GateInv, BansFull, IsBanned
      <4>2. BanDuration \in Nat /\ 0 + BanDuration = BanDuration
        BY AuthAssumption
      <4>3. QED
        BY <1>1, <2>1, <3>1, <4>1, <4>2
        DEF BanChecked, Checked, FellLater, IsBanned
    <3>4. Authorised(r)'
      BY <2>1, <2>3, <3>1
      DEF Authorised, Checked, Acceptable, AuthRequired
    <3>5. QED
      BY <3>2, <3>3, <3>4
  <2>4. QED
    BY <1>6, <2>2, <2>3 DEF RateLimit
<1>7. CASE PassBanCheck(r)
  <2>1. /\ pc[r] = "limited" /\ ~IsBanned(IpOf(r))
        /\ pc'[r] = IF ValidKey(call[r]) THEN "valid" ELSE "invalid"
        /\ since'[r] = now /\ IpOf(r)' = IpOf(r)
        /\ UNCHANGED <<keys, pending, now, banned_until, call>>
    BY <1>1, <1>7 DEF PassBanCheck, Goto, IpOf, vars
  <2>2. BetweenTheMaps(r)'
    BY <1>2, <2>1 DEF BetweenTheMaps
  <2>3. BanChecked(r)'
    BY <1>1, <2>1 DEF BanChecked, Checked, FellLater, IsBanned
  <2>4. Authorised(r)'
    BY <1>2, <2>1 DEF Authorised, Checked, Acceptable, ValidKey
  <2>5. QED
    BY <2>2, <2>3, <2>4
<1>8. CASE Fail(r)
  <2>1. /\ pc[r] = "invalid" /\ pending[r] = None
        /\ RecordFailure(r, IpOf(r))
    BY <1>2, <1>8 DEF Fail, BetweenTheMaps
  <2>2. CASE pending'[r] = None
    BY <1>4, <1>8, <2>2 DEF Fail, Answer
  <2>3. CASE pending'[r] # None
    <3>1. Goto(r, "banning") /\ UNCHANGED <<call, since>>
      BY <1>8, <2>3 DEF Fail
    <3>2. pc'[r] = "banning" /\ IpOf(r)' = IpOf(r) /\ BanChecked(r)'
      BY <2>1, <3>1, MovedOn DEF Checked
    <3>3. PICK code \in {401, 429} :
             pending' = [pending EXCEPT ![r] = Banning(IpOf(r), code)]
      BY <1>3, <2>1, <2>3, Pendings
    <3>4. pending'[r].op = "ban" /\ pending'[r].ip = IpOf(r)
      BY <1>1, <3>3 DEF Banning
    <3>5. BetweenTheMaps(r)'
      BY <2>3, <3>2, <3>4 DEF BetweenTheMaps, Doing
    <3>6. Authorised(r)'
      BY <1>1, <1>2, <2>1, <3>1, <3>2
      DEF Authorised, Checked, Acceptable
    <3>7. QED
      BY <3>2, <3>5, <3>6
  <2>4. QED
    BY <2>2, <2>3
<1>9. CASE Ban(r)
  <2>1. Finish(r) /\ InsertBan(r)
    BY <1>9 DEF Ban, Answer
  <2>2. pending'[r] = None
    BY <1>1, <2>1, Pendings
  <2>3. QED
    BY <1>4, <2>1, <2>2
<1>10. CASE Succeed(r)
  <2>1. /\ pc[r] = "valid" /\ RecordSuccess(r, IpOf(r))
        /\ Goto(r, "unbanning") /\ UNCHANGED <<call, since>>
    BY <1>10 DEF Succeed
  <2>2. pc'[r] = "unbanning" /\ IpOf(r)' = IpOf(r) /\ BanChecked(r)'
    BY <2>1, MovedOn DEF Checked
  <2>3. pending'[r] = Unbanning(IpOf(r))
    BY <1>1, <1>3, <2>1, Pendings
  <2>4. BetweenTheMaps(r)'
    <3>1. Unbanning(IpOf(r))' = Unbanning(IpOf(r))
      BY <2>2 DEF Unbanning
    <3>2. QED
      BY <2>2, <2>3, <3>1 DEF BetweenTheMaps
  <2>5. Authorised(r)'
    BY <1>1, <1>2, <2>1, <2>2
    DEF Authorised, Checked, Acceptable, ValidKey
  <2>6. QED
    BY <2>2, <2>4, <2>5
<1>11. CASE Unban(r)
  <2>1. /\ pc[r] = "unbanning" /\ RemoveBan(r)
        /\ Goto(r, "handling") /\ UNCHANGED <<call, since>>
    BY <1>11 DEF Unban
  <2>2. pc'[r] = "handling" /\ IpOf(r)' = IpOf(r) /\ BanChecked(r)'
    BY <2>1, MovedOn DEF Checked
  <2>3. pending'[r] = None
    BY <1>1, <2>1, Pendings
  <2>4. BetweenTheMaps(r)'
    BY <2>2, <2>3 DEF BetweenTheMaps
  <2>5. Authorised(r)'
    BY <1>1, <1>2, <2>1, <2>2
    DEF Authorised, Checked, Acceptable, ValidKey, AuthRequired
  <2>6. QED
    BY <2>2, <2>4, <2>5
<1>12. CASE Disconnect(r)
  <2>1. pending'[r] = None
    <3>1. CASE pending[r] = None
      BY <1>12, <3>1 DEF Disconnect, vars
    <3>2. CASE pending[r] # None
      <4>1. Cancel(r)
        BY <1>12, <3>2 DEF Disconnect
      <4>2. QED
        BY <1>1, <4>1, Pendings
    <3>3. QED
      BY <3>1, <3>2
  <2>2. QED
    BY <1>4, <1>12, <2>1 DEF Disconnect
<1>13. QED
  BY <1>5, <1>6, <1>7, <1>8, <1>9, <1>10, <1>11, <1>12 DEF Proceed, Record

LEMMA GuessesTyped ==
    ASSUME RequestsOK, TypeOK, GateInv, [GateNext]_gateVars
    PROVE  guesses' \in [IPs -> Seq(Nat)]
<1>1. guesses \in [IPs -> Seq(Nat)] /\ now \in Nat
  BY DEF GateInv, TypeOK
<1>2. \A s \in Seq(Nat) : Append(s, now) \in Seq(Nat)
  BY <1>1
<1>3. << >> \in Seq(Nat)
  OBVIOUS
<1>4. ASSUME NEW answered PROVE GuessesAfter(answered) \in [IPs -> Seq(Nat)]
  BY <1>1, <1>2, <1>3 DEF GuessesAfter
<1>5. ASSUME NEW r \in Callers, Proceed(r) \/ Record(r) \/ Disconnect(r)
      PROVE  guesses' \in [IPs -> Seq(Nat)]
  <2>1. \/ UNCHANGED guesses
        \/ \E answered : guesses' = GuessesAfter(answered)
        \/ guesses' = [guesses EXCEPT ![IpOf(r)] = << >>]
    BY <1>5 DEF Proceed, Record, Disconnect, Reject, RateLimit, Refused,
                PassBanCheck, Ban, Unban, Handle, Fail, Succeed
  <2>2. QED
    BY <1>1, <1>3, <1>4, <2>1
<1>6. CASE UNCHANGED guesses
  BY <1>1, <1>6
<1>7. QED
  BY <1>5, <1>6 DEF GateNext, Arrive, Cleanup, GateTick, gateVars

LEMMA StepKeeps ==
    RequestsOK /\ TypeOK /\ GateInv /\ [GateNext]_gateVars => GateInv'
<1> SUFFICES ASSUME RequestsOK, TypeOK, GateInv, [GateNext]_gateVars PROVE GateInv'
  OBVIOUS
<1>1. [Next]_vars
  BY AuthStep
<1>2. guesses' \in [IPs -> Seq(Nat)] /\ BansFull'
  BY <1>1, GuessesTyped, BansMove DEF GateInv
<1> DEFINE Rest == /\ since' \in [Callers -> Nat]
                   /\ \A q \in Callers : /\ BetweenTheMaps(q)'
                                          /\ BanChecked(q)'
                                          /\ Authorised(q)'
<1>3. ASSUME NEW r \in Callers, Proceed(r) \/ Record(r) \/ Disconnect(r)
      PROVE  Rest
  <2>1. BetweenTheMaps(r)' /\ BanChecked(r)' /\ Authorised(r)'
    BY <1>1, <1>3, ActsWell
  <2>2. ASSUME NEW q \in Callers, q # r
        PROVE  BetweenTheMaps(q)' /\ BanChecked(q)' /\ Authorised(q)'
    <3>1. /\ pc'[q] = pc[q] /\ call'[q] = call[q]
          /\ since'[q] = since[q] /\ pending'[q] = pending[q]
          /\ UNCHANGED keys
      BY <1>3, <2>2, ActsAlone, RequestStep
    <3>2. QED
      BY <1>1, <3>1, OthersKeep
  <2>3. since' \in [Callers -> Nat]
    BY <1>3, ActsAlone
  <2>4. QED
    BY <2>1, <2>2, <2>3
<1>4. ASSUME NEW r \in Callers, NEW c \in Calls, Arrive(r, c) PROVE Rest
  <2>1. /\ pc[r] = "idle" /\ pc' = [pc EXCEPT ![r] = "arrived"]
        /\ call' = [call EXCEPT ![r] = c]
        /\ UNCHANGED <<keys, vars, since>>
    BY <1>4 DEF Arrive, Goto
  <2>2. /\ pc \in [Callers -> Labels]
        /\ call \in [Callers -> Calls \cup {None}]
        /\ since \in [Callers -> Nat]
    BY DEF RequestsOK, GateInv
  <2>3. BetweenTheMaps(r)' /\ BanChecked(r)' /\ Authorised(r)'
    <3>1. BetweenTheMaps(r) /\ BanChecked(r)
      BY DEF GateInv
    <3>2. QED
      BY <2>1, <2>2, <3>1
      DEF BetweenTheMaps, BanChecked, Authorised, Checked, vars
  <2>4. ASSUME NEW q \in Callers, q # r
        PROVE  BetweenTheMaps(q)' /\ BanChecked(q)' /\ Authorised(q)'
    BY <1>1, <2>1, <2>2, <2>4, OthersKeep DEF vars
  <2>5. QED
    BY <2>1, <2>2, <2>3, <2>4
<1>5. ASSUME UNCHANGED <<keys, call, pc, since>>,
             \A q \in Callers : pending'[q] = pending[q]
      PROVE  Rest
  BY <1>1, <1>5, OthersKeep DEF GateInv
<1>6. CASE Cleanup
  <2>1. \A q \in Callers : pending'[q] = pending[q]
    BY <1>6, AuthAssumption
    DEF Cleanup, SweepAttempts, SweepBans, TypeOK
  <2>2. Rest
    BY <1>5, <1>6, <2>1 DEF Cleanup
  <2>3. QED
    BY <1>2, <2>2 DEF GateInv
<1>7. CASE GateTick \/ UNCHANGED gateVars
  <2>1. Rest
    BY <1>5, <1>7 DEF GateTick, Tick, gateVars, vars
  <2>2. QED
    BY <1>2, <2>1 DEF GateInv
<1>8. QED
  BY <1>2, <1>3, <1>4, <1>6, <1>7 DEF GateNext, GateInv

\* A task is between the maps exactly while it has something to do there.
LEMMA PendingMeansBetween ==
    ASSUME GateInv, RequestsOK, NEW r \in Callers
    PROVE  pending[r] # None <=> pc[r] \in {"banning", "unbanning"}
<1>1. CASE pc[r] = "unbanning"
  <2>1. Unbanning(IpOf(r)) \in Pending
    BY <1>1, Addresses DEF Unbanning, Pending
  <2>2. QED
    BY <1>1, <2>1, AuthAssumption DEF GateInv, BetweenTheMaps
<1>2. CASE pc[r] # "unbanning"
  BY <1>2 DEF GateInv, BetweenTheMaps, Doing
<1>3. QED
  BY <1>1, <1>2

LEMMA Inductive == GateSpec => [](GateInv /\ RequestsOK /\ TypeOK)
BY Started, StepKeeps, RequestsStayOK, AuthStaysTyped, PTL DEF GateSpec

-----------------------------------------------------------------------------
(* Counting guesses: sequences of stamps *)

\* Counted from the end, each guess of g is forgotten, being in F, or one of
\* the first n failures of h is no older.
Match(g, h, n, F) ==
    \A k \in 0..(Len(g) - 1) :
        \/ g[Len(g) - k] \in F
        \/ k < n /\ g[Len(g) - k] <= h[n - k]

\* No more than the last k guesses are in the window at t.
AtMost(g, k, t) == \A i \in 1..(Len(g) - k) : t - g[i] >= AuthWindow

\* The failures on record that have been answered: the one that meets the
\* threshold is answered once its ban is in place.
Answered(h) == IF Len(h) >= MaxAttempts THEN Len(h) - 1 ELSE Len(h)

LEMMA MatchMore ==
    ASSUME NEW g \in Seq(Nat), NEW h \in Seq(Nat), NEW t \in Nat,
           Chronological(h, t),
           NEW n \in 0..Len(h), NEW m \in 0..Len(h), n <= m,
           NEW F, NEW G, F \subseteq G, Match(g, h, n, F)
    PROVE  Match(g, h, m, G)
<1> SUFFICES ASSUME NEW k \in 0..(Len(g) - 1), g[Len(g) - k] \notin G
             PROVE  k < m /\ g[Len(g) - k] <= h[m - k]
  BY DEF Match
<1>1. /\ Len(g) \in Nat /\ Len(h) \in Nat /\ DOMAIN h = 1..Len(h)
      /\ \A i \in 1..Len(h) : h[i] \in Nat
      /\ \A i \in 1..Len(g) : g[i] \in Nat
  BY LenProperties
<1>2. k < n /\ g[Len(g) - k] <= h[n - k]
  BY DEF Match
<1>3. n - k \in 1..Len(h) /\ m - k \in 1..Len(h) /\ n - k <= m - k
  <2>1. \A l \in Nat : \A a, b \in 0..l :
           a <= b /\ k < a => /\ a - k \in 1..l /\ b - k \in 1..l
                             /\ a - k <= b - k
    OBVIOUS
  <2>2. QED
    BY <1>1, <1>2, <2>1
<1>4. h[n - k] <= h[m - k]
  BY <1>1, <1>3 DEF Chronological
<1>5. g[Len(g) - k] \in Nat /\ h[n - k] \in Nat /\ h[m - k] \in Nat
  <2>1. Len(g) - k \in 1..Len(g)
    BY <1>1
  <2>2. QED
    BY <1>1, <1>3, <2>1, Zenon
<1>6. k < m
  BY <1>1, <1>2
<1>7. \A a, b, c \in Nat : a <= b /\ b <= c => a <= c
  OBVIOUS
<1>8. QED
  BY <1>2, <1>4, <1>5, <1>6, <1>7, Zenon

\* What pruning leaves of the failures, and what it drops.
LEMMA PrunedFailures ==
    ASSUME NEW h \in Seq(Nat), NEW t \in Nat, Chronological(h, t),
           NEW r, r = Recent(h, t, AuthWindow)
    PROVE  /\ r \in Seq(Nat) /\ Chronological(r, t)
           /\ Len(r) <= Len(h)
           /\ \A i \in 1..Len(r) : r[i] = h[i + (Len(h) - Len(r))]
           /\ Len(h) - Len(r) \in 0..Len(h)
           /\ \A i \in 1..(Len(h) - Len(r)) : t - h[i] >= AuthWindow
<1>1. AuthWindow \in Nat
  BY AuthAssumption
<1>2. r \in Seq(Nat) /\ Chronological(r, t)
  BY <1>1, Pruning
<1>3. Len(r) <= Len(h) /\ Len(h) - Len(r) \in 0..Len(h)
  BY <1>1, Pruning
<1>4. \A i \in 1..Len(r) : r[i] = h[i + (Len(h) - Len(r))]
  BY <1>1, Pruning
<1>5. \A i \in 1..(Len(h) - Len(r)) : t - h[i] >= AuthWindow
  BY <1>1, Pruning
<1>6. QED
  BY <1>2, <1>3, <1>4, <1>5

\* Pruning the failures keeps the match: what it drops has left the window,
\* and so has every guess that is no younger.
LEMMA MatchPruned ==
    ASSUME NEW g \in Seq(Nat), NEW h \in Seq(Nat), NEW t \in Nat,
           Chronological(h, t), Len(h) <= MaxAttempts,
           NEW F, \A s \in Nat : t - s >= AuthWindow => s \in F,
           Match(g, h, Answered(h), F),
           NEW r, r = Recent(h, t, AuthWindow)
    PROVE  /\ r \in Seq(Nat) /\ Chronological(r, t)
           /\ Len(r) <= Len(h)
           /\ Match(g, r, Answered(r), F)
           /\ Match(g, r, Len(r), F)
<1>0. AuthWindow \in Nat /\ MaxAttempts \in Nat \ {0}
  BY AuthAssumption
<1> DEFINE d == Len(h) - Len(r)
<1>1. /\ r \in Seq(Nat) /\ Chronological(r, t)
      /\ Len(r) <= Len(h)
      /\ \A i \in 1..Len(r) : r[i] = h[i + d]
      /\ d \in 0..Len(h)
      /\ \A i \in 1..d : t - h[i] >= AuthWindow
  BY PrunedFailures
<1>2. /\ Len(g) \in Nat /\ Len(h) \in Nat /\ Len(r) \in Nat
      /\ \A i \in 1..Len(h) : h[i] \in Nat
      /\ \A i \in 1..Len(g) : g[i] \in Nat
  BY <1>1, LenProperties
<1>3. Match(g, h, Len(h), F)
  <2>1. Answered(h) \in 0..Len(h)
    BY <1>0, <1>2 DEF Answered
  <2>2. QED
    BY <1>2, <2>1, MatchMore
<1>4. Match(g, r, Len(r), F)
  <2> SUFFICES ASSUME NEW k \in 0..(Len(g) - 1), g[Len(g) - k] \notin F
               PROVE  k < Len(r) /\ g[Len(g) - k] <= r[Len(r) - k]
    BY DEF Match
  <2> DEFINE s == g[Len(g) - k]
  <2>1. k < Len(h) /\ s <= h[Len(h) - k]
    BY <1>3 DEF Match
  <2>2. s \in Nat /\ Len(h) - k \in 1..Len(h)
    <3>1. \A a, b \in Nat : \A j \in 0..(a - 1) :
             j < b => a - j \in 1..a /\ b - j \in 1..b
      OBVIOUS
    <3>2. Len(g) - k \in 1..Len(g) /\ Len(h) - k \in 1..Len(h)
      BY <1>2, <2>1, <3>1, Zenon
    <3>3. QED
      BY <1>2, <3>2
  <2>3. k < Len(r)
    <3> SUFFICES ASSUME ~(k < Len(r)) PROVE FALSE
      OBVIOUS
    <3>1. Len(h) - k \in 1..d
      BY <1>1, <1>2, <2>1, <2>2
    <3>2. t - h[Len(h) - k] >= AuthWindow
      BY <1>1, <3>1
    <3>3. h[Len(h) - k] \in Nat
      BY <1>2, <2>2
    <3> HIDE DEF s
    <3>4. t - s >= AuthWindow
      <4>1. \A a, b \in Nat : a <= b /\ t - b >= AuthWindow
                                  => t - a >= AuthWindow
        BY <1>0
      <4>2. QED
        BY <2>1, <2>2, <3>2, <3>3, <4>1, Zenon
    <3>5. QED
      BY <2>2, <3>4 DEF s
  <2>4. Len(r) - k \in 1..Len(r) /\ (Len(r) - k) + d = Len(h) - k
    <3>1. \A a, b \in Nat : k < a => /\ a - k \in 1..a
                                      /\ (a - k) + (b - a) = b - k
      OBVIOUS
    <3>2. QED
      BY <1>2, <2>3, <3>1
  <2>5. r[Len(r) - k] = h[Len(h) - k]
    BY <1>1, <2>4
  <2>6. QED
    BY <2>1, <2>3, <2>5
<1>5. Match(g, r, Answered(r), F)
  <2>1. CASE Len(r) = Len(h)
    <3>1. \A i \in 1..Len(h) : r[i] = h[i]
      BY <1>1, <1>2, <2>1
    <3>2. Answered(r) = Answered(h) /\ Answered(h) \in 0..Len(h)
      BY <1>0, <1>2, <2>1 DEF Answered
    <3> HIDE DEF d
    <3>3. ASSUME NEW k \in 0..(Len(g) - 1), k < Answered(h)
          PROVE  r[Answered(h) - k] = h[Answered(h) - k]
      <4>1. \A l \in Nat : \A a \in 0..l : k < a => a - k \in 1..l
        OBVIOUS
      <4>2. Answered(h) - k \in 1..Len(h)
        BY <1>2, <3>2, <3>3, <4>1
      <4>3. QED
        BY <3>1, <4>2
    <3>4. QED
      BY <3>2, <3>3 DEF Match
  <2>2. CASE Len(r) < Len(h)
    <3>1. Answered(r) = Len(r)
      BY <1>0, <1>2, <2>2 DEF Answered
    <3>2. QED
      BY <1>4, <3>1
  <2>3. QED
    BY <1>1, <1>2, <2>1, <2>2
<1>6. QED
  BY <1>1, <1>4, <1>5

\* A failure that is answered at once is one more guess and one more failure.
LEMMA MatchAnswered ==
    ASSUME NEW g \in Seq(Nat), NEW h \in Seq(Nat), NEW t \in Nat,
           NEW F, Match(g, h, Len(h), F)
    PROVE  Match(Append(g, t), Append(h, t), Len(h) + 1, F)
<1> DEFINE gt == Append(g, t)
           ht == Append(h, t)
<1>1. /\ Len(g) \in Nat /\ Len(h) \in Nat
      /\ Len(gt) = Len(g) + 1 /\ Len(ht) = Len(h) + 1
      /\ \A i \in 1..Len(g) : gt[i] = g[i]
      /\ \A i \in 1..Len(h) : ht[i] = h[i]
      /\ gt[Len(g) + 1] = t /\ ht[Len(h) + 1] = t
  BY LenProperties, AppendProperties
<1> HIDE DEF gt, ht
<1> SUFFICES ASSUME NEW k \in 0..Len(g), gt[Len(g) + 1 - k] \notin F
             PROVE  /\ k < Len(h) + 1
                    /\ gt[Len(g) + 1 - k] <= ht[Len(h) + 1 - k]
  <2>1. Match(gt, ht, Len(h) + 1, F) =
           \A k \in 0..((Len(g) + 1) - 1) :
              \/ gt[Len(g) + 1 - k] \in F
              \/ k < Len(h) + 1 /\ gt[Len(g) + 1 - k] <= ht[Len(h) + 1 - k]
    BY <1>1 DEF Match
  <2>2. (Len(g) + 1) - 1 = Len(g)
    BY <1>1
  <2>3. QED
    BY <2>1, <2>2 DEF gt, ht
<1>2. CASE k = 0
  BY <1>1, <1>2
<1>3. CASE k # 0
  <2>1. /\ k - 1 \in 0..(Len(g) - 1)
        /\ Len(g) + 1 - k \in 1..Len(g)
        /\ Len(g) - (k - 1) = Len(g) + 1 - k
        /\ Len(h) - (k - 1) = Len(h) + 1 - k
    BY <1>1, <1>3
  <2>2. gt[Len(g) + 1 - k] = g[Len(g) - (k - 1)]
    BY <1>1, <2>1
  <2>3. k - 1 < Len(h) /\ g[Len(g) - (k - 1)] <= h[Len(h) - (k - 1)]
    BY <2>1, <2>2 DEF Match
  <2>4. Len(h) + 1 - k \in 1..Len(h) /\ k < Len(h) + 1
    <3>1. \A a, b \in Nat : b # 0 /\ b - 1 < a
                             => a + 1 - b \in 1..a /\ b < a + 1
      OBVIOUS
    <3>2. k \in Nat
      BY <1>1
    <3>3. QED
      BY <1>1, <1>3, <2>3, <3>1, <3>2
  <2>5. ht[Len(h) + 1 - k] = h[Len(h) - (k - 1)]
    BY <1>1, <2>1, <2>4
  <2>6. QED
    BY <2>2, <2>3, <2>4, <2>5
<1>4. QED
  BY <1>2, <1>3

\* A failure that has yet to be answered changes nothing for the others.
LEMMA MatchUnanswered ==
    ASSUME NEW g \in Seq(Nat), NEW h \in Seq(Nat), NEW t \in Nat,
           NEW F, Match(g, h, Len(h), F)
    PROVE  Match(g, Append(h, t), Len(h), F)
<1>1. Len(g) \in Nat /\ Len(h) \in Nat
      /\ \A i \in 1..Len(h) : Append(h, t)[i] = h[i]
  BY LenProperties, AppendProperties
<1>2. ASSUME NEW k \in 0..(Len(g) - 1), k < Len(h)
      PROVE  Append(h, t)[Len(h) - k] = h[Len(h) - k]
  BY <1>1, <1>2
<1>3. QED
  BY <1>2 DEF Match

\* A match leaves no more guesses in the window than it has failures.
LEMMA MatchBounds ==
    ASSUME NEW g \in Seq(Nat), NEW h, NEW t \in Nat, NEW n \in Nat,
           NEW F, \A s \in F : t - s >= AuthWindow, Match(g, h, n, F)
    PROVE  AtMost(g, n, t)
<1> SUFFICES ASSUME NEW i \in 1..(Len(g) - n) PROVE t - g[i] >= AuthWindow
  BY DEF AtMost
<1>1. Len(g) \in Nat
  BY LenProperties
<1> DEFINE k == Len(g) - i
<1>2. k \in 0..(Len(g) - 1) /\ Len(g) - k = i /\ ~(k < n)
  BY <1>1
<1> HIDE DEF k
<1>3. g[Len(g) - k] \in F
  BY <1>2 DEF Match
<1>4. QED
  BY <1>2, <1>3

LEMMA AtMostMore ==
    ASSUME NEW g \in Seq(Nat), NEW k \in Nat, NEW m \in Nat, k <= m,
           NEW t \in Nat, NEW u \in Nat, t <= u, AtMost(g, k, t)
    PROVE  AtMost(g, m, u)
<1> SUFFICES ASSUME NEW i \in 1..(Len(g) - m) PROVE u - g[i] >= AuthWindow
  BY DEF AtMost
<1>1. Len(g) \in Nat /\ AuthWindow \in Nat
  BY LenProperties, AuthAssumption
<1>2. i \in 1..(Len(g) - k) /\ i \in 1..Len(g)
  BY <1>1
<1>3. t - g[i] >= AuthWindow /\ g[i] \in Nat
  BY <1>2 DEF AtMost
<1>4. \A a, w \in Nat : t - a >= w => u - a >= w
  OBVIOUS
<1>5. QED
  BY <1>1, <1>3, <1>4

\* One more guess, when at most k are in the window already.
LEMMA AtMostAppended ==
    ASSUME NEW g \in Seq(Nat), NEW k \in Nat, NEW t \in Nat, AtMost(g, k, t)
    PROVE  /\ AtMost(Append(g, t), k + 1, t)
           /\ \A i \in 1..(Len(Append(g, t)) - (k + 1)) :
                 t - g[i] >= AuthWindow /\ Append(g, t)[i] = g[i]
<1>1. /\ Len(g) \in Nat
      /\ Len(Append(g, t)) = Len(g) + 1
      /\ \A i \in 1..Len(g) : Append(g, t)[i] = g[i]
  BY LenProperties, AppendProperties
<1>2. ASSUME NEW i \in 1..(Len(Append(g, t)) - (k + 1))
      PROVE  t - g[i] >= AuthWindow /\ Append(g, t)[i] = g[i]
  <2>1. i \in 1..(Len(g) - k) /\ i \in 1..Len(g)
    BY <1>1
  <2>2. QED
    BY <1>1, <2>1 DEF AtMost
<1>3. QED
  BY <1>2 DEF AtMost

-----------------------------------------------------------------------------
(* Counting guesses: requests *)

FailuresOf(ip) == HistoryOf(failed_attempts, ip)

\* The guesses that have left the window, or will have before a ban that was
\* put in place after them ends.
Forgotten(ip) ==
    {s \in Nat :
        \/ now - s >= AuthWindow
        \/ ip \in DOMAIN banned_until /\ s + BanDuration <= banned_until[ip]}

\* The requests of a client that are past the ban check with a wrong key.
Guessing(ip) ==
    {r \in Callers : pc[r] \in {"invalid", "banning"} /\ IpOf(r) = ip}

Limit == MaxAttempts + Cardinality(Callers) - 1

\* A ban leaves a client the guesses it is about to make, and a client that
\* is not banned has made fewer than the threshold since its last ban.
Counted(ip) ==
    /\ Chronological(guesses[ip], now)
    /\ Match(guesses[ip], FailuresOf(ip), Answered(FailuresOf(ip)),
             Forgotten(ip))
    /\ IsBanned(ip) =>
          AtMost(guesses[ip], Limit - Cardinality(Guessing(ip)), now)
    /\ \A i \in 1..(Len(guesses[ip]) - Limit) :
          guesses[ip][i + Limit] - guesses[ip][i] >= AuthWindow

GuessInv ==
    /\ \A ip \in IPs : Counted(ip)
    /\ \A r \in Callers : pc[r] = "unbanning" => guesses[IpOf(r)] = << >>

\* What the property takes: bans that outlast the window, and a number of
\* requests.
Countable == BanDuration >= AuthWindow /\ IsFiniteSet(Callers)

GuessesCounted == Countable => GuessInv

\* What is known of the maps, from above.
AuthSound ==
    /\ now \in Nat
    /\ banned_until \in [DOMAIN banned_until -> Nat]
    /\ \A ip : /\ FailuresOf(ip) \in Seq(Nat)
               /\ Chronological(FailuresOf(ip), now)
               /\ Len(FailuresOf(ip)) <= MaxAttempts
    /\ \A q, r \in Callers :
          pending[q] # None /\ pending[r] # None => q = r
    /\ Doing(Sweeper, "sweep") =>
          pending[Sweeper].asof \in Nat /\ pending[Sweeper].asof <= now

LEMMA MapsSound == IInv => AuthSound
<1> SUFFICES ASSUME IInv PROVE AuthSound
  OBVIOUS
<1>1. /\ TypeOK /\ AttemptsBounded
      /\ MutualExclusion /\ PendingJustified
  BY DEF IInv
<1>2. /\ now \in Nat /\ banned_until \in [DOMAIN banned_until -> Nat]
      /\ pending \in [Callers \cup {Sweeper} -> Pending \cup {None}]
  BY <1>1 DEF TypeOK
<1>3. ASSUME NEW ip
      PROVE  /\ FailuresOf(ip) \in Seq(Nat)
             /\ Chronological(FailuresOf(ip), now)
             /\ Len(FailuresOf(ip)) <= MaxAttempts
  <2>1. CASE ip \in DOMAIN failed_attempts
    <3>1. FailuresOf(ip) = failed_attempts[ip]
      BY <2>1 DEF FailuresOf, HistoryOf
    <3>2. /\ failed_attempts[ip] \in Seq(Nat)
          /\ Chronological(failed_attempts[ip], now)
      BY <1>1, <2>1 DEF TypeOK
    <3>3. Len(failed_attempts[ip]) <= MaxAttempts
      BY <1>1, <2>1, AuthAssumption DEF AttemptsBounded
    <3>4. QED
      BY <3>1, <3>2, <3>3
  <2>2. CASE ip \notin DOMAIN failed_attempts
    <3>1. FailuresOf(ip) = << >>
      BY <2>2 DEF FailuresOf, HistoryOf
    <3>2. << >> \in Seq(Nat) /\ Len(<< >>) = 0 /\ DOMAIN << >> = {}
      OBVIOUS
    <3>3. QED
      BY <3>1, <3>2, AuthAssumption DEF Chronological
  <2>3. QED
    BY <2>1, <2>2
<1>4. \A q, r \in Callers : pending[q] # None /\ pending[r] # None => q = r
  BY <1>1, <1>2 DEF MutualExclusion
<1>5. Doing(Sweeper, "sweep") =>
         pending[Sweeper].asof \in Nat /\ pending[Sweeper].asof <= now
  <2> SUFFICES ASSUME Doing(Sweeper, "sweep")
               PROVE  /\ pending[Sweeper].asof \in Nat
                      /\ pending[Sweeper].asof <= now
    OBVIOUS
  <2>1. pending[Sweeper] \in Pending /\ pending[Sweeper].op = "sweep"
    BY <1>2 DEF Doing
  <2>2. QED
    BY <1>1, <1>2, <2>1 DEF PendingJustified, Pending
<1>6. QED
  BY <1>2, <1>3, <1>4, <1>5 DEF AuthSound

LEMMA Limits ==
    ASSUME Countable
    PROVE  /\ Cardinality(Callers) \in Nat /\ Limit \in Nat
           /\ \A S \in SUBSET Callers :
                 /\ Cardinality(S) \in Nat
                 /\ Limit - Cardinality(S) \in Nat
           /\ \A S \in SUBSET Callers, T \in SUBSET Callers :
                 S \subseteq T => Cardinality(S) <= Cardinality(T)
           /\ \A S \in SUBSET Callers : \A r \in S :
                 Cardinality(S \ {r}) = Cardinality(S) - 1
<1>1. \A S \in SUBSET Callers :
         /\ IsFiniteSet(S) /\ Cardinality(S) \in Nat
         /\ Cardinality(S) <= Cardinality(Callers)
  BY FS_Subset, FS_CardinalityType DEF Countable
<1>2. \A S \in SUBSET Callers, T \in SUBSET Callers :
         S \subseteq T => Cardinality(S) <= Cardinality(T)
  BY <1>1, FS_Subset
<1>3. \A S \in SUBSET Callers : \A r \in S :
         Cardinality(S \ {r}) = Cardinality(S) - 1
  BY <1>1, FS_RemoveElement
<1>4. Cardinality(Callers) \in Nat /\ MaxAttempts \in Nat \ {0}
  BY <1>1, AuthAssumption
<1>5. QED
  BY <1>1, <1>2, <1>3, <1>4 DEF Limit

\* Bans go on, and when they end what fell before them has left the window.
LEMMA StillForgotten ==
    ASSUME Countable, AuthSound, now' \in Nat, now <= now', NEW ip,
           ip \in DOMAIN banned_until =>
               \/ /\ ip \in DOMAIN banned_until'
                  /\ banned_until'[ip] \in Nat
                  /\ banned_until[ip] <= banned_until'[ip]
               \/ banned_until[ip] <= now'
    PROVE  Forgotten(ip) \subseteq Forgotten(ip)'
<1>1. /\ now \in Nat /\ BanDuration \in Nat /\ AuthWindow \in Nat
      /\ BanDuration >= AuthWindow
      /\ ip \in DOMAIN banned_until => banned_until[ip] \in Nat
  BY AuthAssumption DEF AuthSound, Countable
<1> SUFFICES ASSUME NEW s \in Nat, s \in Forgotten(ip)
             PROVE  s \in Forgotten(ip)'
  BY DEF Forgotten
<1>2. CASE now - s >= AuthWindow
  BY <1>1, <1>2 DEF Forgotten
<1>3. CASE ip \in DOMAIN banned_until /\ s + BanDuration <= banned_until[ip]
  <2>1. CASE /\ ip \in DOMAIN banned_until'
             /\ banned_until'[ip] \in Nat
             /\ banned_until[ip] <= banned_until'[ip]
    <3>1. \A a, b, c \in Nat : a <= b /\ b <= c => a <= c
      OBVIOUS
    <3>2. s + BanDuration \in Nat
      BY <1>1
    <3>3. s + BanDuration <= banned_until'[ip]
      BY <1>1, <1>3, <2>1, <3>1, <3>2, Zenon
    <3>4. QED
      BY <2>1, <3>3 DEF Forgotten
  <2>2. CASE banned_until[ip] <= now'
    <3>1. \A u, v \in Nat : s + BanDuration <= u /\ u <= v
                               => v - s >= AuthWindow
      BY <1>1
    <3>2. now' - s >= AuthWindow
      BY <1>1, <1>3, <2>2, <3>1
    <3>3. QED
      BY <3>2 DEF Forgotten
  <2>3. QED
    BY <1>3, <2>1, <2>2
<1>4. QED
  BY <1>2, <1>3 DEF Forgotten

\* A client that gets no answer to a wrong key.
LEMMA CountMatched ==
    ASSUME Countable, AuthSound, NEW ip, Counted(ip),
           guesses[ip] \in Seq(Nat), guesses'[ip] = guesses[ip],
           now' \in Nat, now <= now',
           IsBanned(ip)' =>
               IsBanned(ip) /\ Guessing(ip)' \subseteq Guessing(ip),
           Match(guesses[ip], FailuresOf(ip)', Answered(FailuresOf(ip)'),
                 Forgotten(ip)')
    PROVE  Counted(ip)'
<1> DEFINE g == guesses[ip]
<1>1. now \in Nat /\ AuthWindow \in Nat
  BY AuthAssumption DEF AuthSound
<1>2. Chronological(g, now')
  <2>1. Chronological(g, now)
    BY DEF Counted
  <2>2. \A i \in DOMAIN g : g[i] \in Nat
    OBVIOUS
  <2>3. QED
    BY <1>1, <2>1, <2>2 DEF Chronological
<1>3. ASSUME IsBanned(ip)'
      PROVE  AtMost(g, Limit - Cardinality(Guessing(ip)'), now')
  <2> DEFINE k == Limit - Cardinality(Guessing(ip))
             m == Limit - Cardinality(Guessing(ip)')
  <2>1. AtMost(g, k, now)
    BY <1>3 DEF Counted
  <2>2. /\ Guessing(ip) \in SUBSET Callers
        /\ Guessing(ip)' \in SUBSET Callers
        /\ Guessing(ip)' \subseteq Guessing(ip)
    BY <1>3 DEF Guessing
  <2>3. k \in Nat /\ m \in Nat /\ k <= m
    <3>1. /\ Cardinality(Guessing(ip)) \in Nat
          /\ Cardinality(Guessing(ip)') \in Nat
          /\ Cardinality(Guessing(ip)') <= Cardinality(Guessing(ip))
          /\ k \in Nat /\ m \in Nat
      BY <2>2, Limits
    <3>2. QED
      BY <3>1, Limits
  <2> HIDE DEF k, m, g
  <2>4. g \in Seq(Nat)
    BY DEF g
  <2>5. AtMost(g, m, now')
    BY <1>1, <2>1, <2>3, <2>4, AtMostMore
  <2>6. QED
    BY <2>5 DEF m
<1>4. \A i \in 1..(Len(g) - Limit) : g[i + Limit] - g[i] >= AuthWindow
  BY DEF Counted
<1>5. QED
  BY <1>2, <1>3, <1>4 DEF Counted, Limit

\* A client of which a step takes no notice, but for pruning its record.
LEMMA CountKept ==
    ASSUME Countable, AuthSound, NEW ip, Counted(ip),
           guesses[ip] \in Seq(Nat), guesses'[ip] = guesses[ip],
           now' \in Nat, now <= now',
           Forgotten(ip) \subseteq Forgotten(ip)',
           IsBanned(ip)' =>
               IsBanned(ip) /\ Guessing(ip)' \subseteq Guessing(ip),
           \/ FailuresOf(ip)' = FailuresOf(ip)
           \/ FailuresOf(ip)' = Recent(FailuresOf(ip), now, AuthWindow)
    PROVE  Counted(ip)'
<1> DEFINE g == guesses[ip]
           h == FailuresOf(ip)
           F == Forgotten(ip)
<1>1. now \in Nat /\ g \in Seq(Nat)
  BY DEF AuthSound
<1>2. /\ h \in Seq(Nat) /\ Chronological(h, now) /\ Len(h) <= MaxAttempts
      /\ Match(g, h, Answered(h), F)
  BY DEF AuthSound, Counted
<1>3. \A s \in Nat : now - s >= AuthWindow => s \in F
  BY DEF Forgotten
<1>4. FailuresOf(ip)' = h \/ FailuresOf(ip)' = Recent(h, now, AuthWindow)
  OBVIOUS
<1>5. Match(g, FailuresOf(ip)', Answered(FailuresOf(ip)'), F)
  <2> HIDE DEF g, h, F
  <2>1. QED
    BY <1>1, <1>2, <1>3, <1>4, MatchPruned
<1>6. Match(g, FailuresOf(ip)', Answered(FailuresOf(ip)'), Forgotten(ip)')
  BY <1>5 DEF Match
<1>7. QED
  BY <1>6, CountMatched

\* A client whose guesses are forgotten.
LEMMA CountCleared ==
    ASSUME Countable, now' \in Nat, NEW ip, guesses'[ip] = << >>
    PROVE  Counted(ip)'
<1>1. Len(<< >>) = 0 /\ DOMAIN << >> = {}
  OBVIOUS
<1>2. Chronological(<< >>, now')
  BY <1>1 DEF Chronological
<1>3. \A h, n, F : Match(<< >>, h, n, F)
  BY <1>1 DEF Match
<1>4. \A k \in Nat : AtMost(<< >>, k, now')
  BY <1>1 DEF AtMost
<1>5. Limit \in Nat /\ Limit - Cardinality(Guessing(ip)') \in Nat
  <2>1. Guessing(ip)' \in SUBSET Callers
    BY DEF Guessing
  <2>2. QED
    BY <2>1, Limits
<1>6. \A i \in 1..(0 - Limit) : FALSE
  BY <1>5
<1>7. QED
  BY <1>1, <1>2, <1>3, <1>4, <1>5, <1>6 DEF Counted, Limit

\* A client that is not banned has fewer guesses in the window than it takes
\* to be banned, and one that is banned no more than its requests on the way.
LEMMA RoomToGuess ==
    ASSUME Countable, AuthSound, NEW ip, Counted(ip),
           guesses[ip] \in Seq(Nat)
    PROVE  AtMost(guesses[ip],
                  IF IsBanned(ip) THEN Limit - Cardinality(Guessing(ip))
                                       ELSE MaxAttempts - 1, now)
<1> DEFINE g == guesses[ip]
           n == Answered(FailuresOf(ip))
<1>1. CASE IsBanned(ip)
  BY <1>1 DEF Counted
<1>2. CASE ~IsBanned(ip)
  <2>1. /\ now \in Nat /\ MaxAttempts \in Nat \ {0}
        /\ BanDuration \in Nat /\ AuthWindow \in Nat
        /\ BanDuration >= AuthWindow
        /\ ip \in DOMAIN banned_until => banned_until[ip] \in Nat
    BY AuthAssumption DEF AuthSound, Countable
  <2>2. \A s \in Forgotten(ip) : now - s >= AuthWindow
    <3> SUFFICES ASSUME NEW s \in Nat, ip \in DOMAIN banned_until,
                        s + BanDuration <= banned_until[ip]
                 PROVE  now - s >= AuthWindow
      BY DEF Forgotten
    <3>1. banned_until[ip] <= now
      BY <1>2, <2>1 DEF IsBanned
    <3>2. \A b \in Nat : s + BanDuration <= b /\ b <= now
                            => now - s >= AuthWindow
      BY <2>1
    <3>3. QED
      BY <2>1, <3>1, <3>2
  <2>3. n \in Nat /\ n <= MaxAttempts - 1
    <3>1. Len(FailuresOf(ip)) \in Nat /\ Len(FailuresOf(ip)) <= MaxAttempts
      BY LenProperties DEF AuthSound
    <3>2. QED
      BY <2>1, <3>1 DEF Answered
  <2>4. Match(g, FailuresOf(ip), n, Forgotten(ip))
    BY DEF Counted
  <2> HIDE DEF g, n
  <2>5. g \in Seq(Nat)
    BY DEF g
  <2>6. AtMost(g, n, now)
    BY <2>1, <2>2, <2>3, <2>4, <2>5, MatchBounds
  <2>7. AtMost(g, MaxAttempts - 1, now)
    <3>1. MaxAttempts - 1 \in Nat /\ now <= now
      BY <2>1
    <3>2. QED
      BY <2>1, <2>3, <2>5, <2>6, <3>1, AtMostMore
  <2>8. QED
    BY <1>2, <2>7 DEF g
<1>3. QED
  BY <1>1, <1>2

\* A client that gets one more wrong key answered.
LEMMA CountGuessed ==
    ASSUME Countable, AuthSound, NEW ip, Counted(ip),
           guesses[ip] \in Seq(Nat),
           guesses'[ip] = Append(guesses[ip], now), now' = now,
           NEW r \in Guessing(ip), Guessing(ip)' \subseteq Guessing(ip) \ {r},
           Match(Append(guesses[ip], now), FailuresOf(ip)',
                 Answered(FailuresOf(ip)'), Forgotten(ip)')
    PROVE  Counted(ip)'
<1> DEFINE g  == guesses[ip]
           gt == Append(g, now)
           c  == Cardinality(Guessing(ip))
           ct == Cardinality(Guessing(ip)')
           k  == IF IsBanned(ip) THEN Limit - c ELSE MaxAttempts - 1
<1>1. now \in Nat /\ MaxAttempts \in Nat \ {0} /\ AuthWindow \in Nat
  BY AuthAssumption DEF AuthSound
<1>2. /\ c \in Nat /\ ct \in Nat /\ ct <= c - 1
      /\ Cardinality(Callers) \in Nat /\ c <= Cardinality(Callers)
      /\ Limit \in Nat /\ Limit - c \in Nat /\ Limit - ct \in Nat
  <2>1. /\ Guessing(ip) \in SUBSET Callers
        /\ Guessing(ip) \ {r} \in SUBSET Callers
        /\ Guessing(ip)' \in SUBSET Callers
        /\ Callers \in SUBSET Callers
    BY DEF Guessing
  <2>2. /\ ct <= Cardinality(Guessing(ip) \ {r})
        /\ Cardinality(Guessing(ip) \ {r}) = c - 1
    BY <2>1, Limits
  <2>3. QED
    BY <2>1, <2>2, Limits
<1>3. k \in Nat /\ k + 1 <= Limit /\ k + 1 <= Limit - ct
  <2> HIDE DEF c, ct
  <2>1. Limit = MaxAttempts + Cardinality(Callers) - 1
    BY DEF Limit
  <2>2. \A n, m \in Nat : m <= n - 1 =>
           /\ \A l \in Nat : l - n \in Nat =>
                 /\ (l - n) + 1 <= l /\ (l - n) + 1 <= l - m
           /\ \A t \in Nat \ {0} : \A u \in Nat : n <= u =>
                 /\ t - 1 \in Nat
                 /\ (t - 1) + 1 <= t + u - 1
                 /\ (t - 1) + 1 <= (t + u - 1) - m
    OBVIOUS
  <2>3. CASE IsBanned(ip)
    <3>1. k = Limit - c
      BY <2>3
    <3> HIDE DEF k
    <3>2. QED
      BY <1>2, <2>2, <3>1
  <2>4. CASE ~IsBanned(ip)
    <3>1. k = MaxAttempts - 1
      BY <2>4
    <3> HIDE DEF k
    <3>2. QED
      BY <1>1, <1>2, <2>1, <2>2, <3>1
  <2>5. QED
    BY <2>3, <2>4
<1>4. AtMost(g, k, now) /\ g \in Seq(Nat)
  BY RoomToGuess
<1> HIDE DEF g, k
<1>5. /\ AtMost(gt, k + 1, now)
      /\ \A i \in 1..(Len(gt) - (k + 1)) : now - g[i] >= AuthWindow /\ gt[i] = g[i]
  BY <1>1, <1>3, <1>4, AtMostAppended
<1>6. /\ gt \in Seq(Nat) /\ Len(gt) = Len(g) + 1 /\ Len(g) \in Nat
      /\ \A i \in 1..Len(g) : gt[i] = g[i]
      /\ gt[Len(g) + 1] = now
  BY <1>1, <1>4, LenProperties, AppendProperties
<1>7. Chronological(gt, now)
  <2>1. Chronological(g, now)
    BY DEF Counted, g
  <2>2. QED
    BY <1>1, <1>4, <2>1, AppendChronological
<1>8. /\ \A i \in 1..(Len(g) - Limit) : g[i + Limit] - g[i] >= AuthWindow
      /\ Match(gt, FailuresOf(ip)', Answered(FailuresOf(ip)'), Forgotten(ip)')
      /\ guesses'[ip] = gt
  BY DEF Counted, g
<1> HIDE DEF gt, c, ct
<1>9. AtMost(gt, Limit - ct, now)
  <2>1. k + 1 \in Nat /\ Limit - ct \in Nat /\ k + 1 <= Limit - ct
    BY <1>2, <1>3
  <2>2. now \in Nat /\ now <= now
    BY <1>1
  <2>3. gt \in Seq(Nat) /\ AtMost(gt, k + 1, now)
    BY <1>5, <1>6
  <2>4. QED
    BY <2>1, <2>2, <2>3, AtMostMore, Zenon
<1>10. ASSUME NEW i \in 1..(Len(gt) - Limit)
       PROVE  gt[i + Limit] - gt[i] >= AuthWindow
  <2>1. CASE i + Limit = Len(g) + 1
    <3>1. i \in 1..(Len(gt) - (k + 1))
      BY <1>2, <1>3, <1>6
    <3>2. now - gt[i] >= AuthWindow
      BY <1>5, <3>1 DEF AtMost
    <3>3. QED
      BY <1>6, <2>1, <3>2
  <2>2. CASE i + Limit # Len(g) + 1
    <3>1. /\ i \in 1..(Len(g) - Limit) /\ i \in 1..Len(g)
          /\ i + Limit \in 1..Len(g)
      <4>1. \A a, b \in Nat : \A j \in 1..((a + 1) - b) :
               j + b # a + 1 => /\ j \in 1..(a - b) /\ j \in 1..a
                                /\ j + b \in 1..a
        OBVIOUS
      <4>2. QED
        BY <1>2, <1>6, <2>2, <4>1
    <3>2. gt[i + Limit] = g[i + Limit] /\ gt[i] = g[i]
      BY <1>6, <3>1
    <3>3. QED
      BY <1>8, <3>1, <3>2
  <2>3. QED
    BY <2>1, <2>2
<1>11. QED
  BY <1>7, <1>8, <1>9, <1>10 DEF Counted, Limit, ct

\* A failure that meets the threshold leaves the task a ban to put in place.
BanFollows(r, ip, times) ==
    \E code \in {401, 429} : pending' =
        IF Len(times) >= MaxAttempts
        THEN [pending EXCEPT ![r] = Banning(ip, code)]
        ELSE pending

\* record_failure replaces the record of the client, and may cost another
\* client its own.
LEMMA FailureRecorded ==
    ASSUME AuthSound, NEW r \in Callers, NEW ip \in IPs,
           RecordFailure(r, ip),
           NEW recent, recent = Recent(FailuresOf(ip), now, AuthWindow),
           NEW times, times = IF Len(recent) >= MaxAttempts
                              THEN recent ELSE Append(recent, now)
    PROVE  /\ FailuresOf(ip)' = times
           /\ ip \in DOMAIN failed_attempts'
           /\ \A x : x # ip =>
                 \/ FailuresOf(x)' = FailuresOf(x)
                 \/ x \in DOMAIN failed_attempts \ DOMAIN failed_attempts'
           /\ BanFollows(r, ip, times)
           /\ UNCHANGED <<now, banned_until>>
           /\ \A q \in DOMAIN pending : pending[q] = None
<1> DEFINE rec(h) == Recent(HistoryOf(h, ip), now, AuthWindow)
           tms(h) == IF Len(rec(h)) >= MaxAttempts
                     THEN rec(h) ELSE Append(rec(h), now)
<1>1. PICK h \in RoomFor(failed_attempts, ip, MaxTracked) :
         /\ failed_attempts' = WithHistory(h, ip, tms(h))
         /\ pending' =
               IF Len(tms(h)) >= MaxAttempts
               THEN [pending EXCEPT ![r] = Banning(ip,
                        IF Len(rec(h)) >= MaxAttempts THEN 429 ELSE 401)]
               ELSE pending
  BY Zenon DEF RecordFailure, MeetsThreshold
<1>2. /\ \A x \in DOMAIN h : x \in DOMAIN failed_attempts
                               /\ h[x] = failed_attempts[x]
      /\ HistoryOf(h, ip) = HistoryOf(failed_attempts, ip)
  <2>1. \/ h = failed_attempts
        \/ /\ ip \notin DOMAIN failed_attempts
           /\ \E o \in DOMAIN failed_attempts : h = Without(failed_attempts, o)
    BY <1>1 DEF RoomFor, Oldest
  <2>2. QED
    BY <2>1 DEF HistoryOf, Without
<1>3. tms(h) = times
  BY <1>2 DEF FailuresOf
<1> HIDE DEF tms
<1>4. BanFollows(r, ip, times)
  <2> DEFINE Then(c) == pending' =
                 IF Len(times) >= MaxAttempts
                 THEN [pending EXCEPT ![r] = Banning(ip, c)]
                 ELSE pending
  <2>1. (IF Len(rec(h)) >= MaxAttempts THEN 429 ELSE 401) \in {401, 429}
    OBVIOUS
  <2>2. PICK c \in {401, 429} :
           c = IF Len(rec(h)) >= MaxAttempts THEN 429 ELSE 401
    BY <2>1
  <2> HIDE DEF rec
  <2>3. Then(c)
    BY <1>1, <1>3, <2>2
  <2> SUFFICES \E code \in {401, 429} : Then(code)
    BY DEF BanFollows
  <2> HIDE DEF Then
  <2>4. QED
    BY <2>3
<1> HIDE DEF rec
<1>5. /\ DOMAIN failed_attempts' = DOMAIN h \cup {ip}
      /\ failed_attempts'[ip] = times
      /\ \A x \in DOMAIN h : x # ip => failed_attempts'[x] = h[x]
  BY <1>1, <1>3 DEF WithHistory
<1>6. /\ FailuresOf(ip)' = times /\ ip \in DOMAIN failed_attempts'
      /\ \A x : x # ip =>
            \/ FailuresOf(x)' = FailuresOf(x)
            \/ x \in DOMAIN failed_attempts \ DOMAIN failed_attempts'
  BY <1>2, <1>5 DEF FailuresOf, HistoryOf
<1>7. UNCHANGED <<now, banned_until>> /\ \A q \in DOMAIN pending : pending[q] = None
  BY DEF RecordFailure, LockFree
<1>8. QED
  BY <1>4, <1>6, <1>7

\* A step that neither records nor answers a wrong key.
LEMMA QuietKeeps ==
    ASSUME Countable, AuthSound, GuessInv, guesses \in [IPs -> Seq(Nat)],
           UNCHANGED guesses, now' \in Nat, now <= now',
           \A ip \in IPs :
               \/ FailuresOf(ip)' = FailuresOf(ip)
               \/ FailuresOf(ip)' = Recent(FailuresOf(ip), now, AuthWindow),
           \A ip \in IPs :
               guesses[ip] = << >> \/ Forgotten(ip) \subseteq Forgotten(ip)',
           \A ip \in IPs : IsBanned(ip)' =>
               IsBanned(ip) /\ Guessing(ip)' \subseteq Guessing(ip),
           \A q \in Callers : pc'[q] = "unbanning" =>
               pc[q] = "unbanning" /\ IpOf(q)' = IpOf(q)
    PROVE  GuessInv'
<1>1. ASSUME NEW ip \in IPs PROVE Counted(ip)'
  <2>1. CASE guesses[ip] = << >>
    BY <2>1, CountCleared
  <2>2. CASE guesses[ip] # << >>
    BY <2>2, CountKept DEF GuessInv
  <2>3. QED
    BY <2>1, <2>2
<1>2. \A q \in Callers : pc'[q] = "unbanning" => guesses'[IpOf(q)'] = << >>
  BY DEF GuessInv
<1>3. QED
  BY <1>1, <1>2 DEF GuessInv, IpOf

\* Where the guessing requests of a client are after a step of one of them.
LEMMA GuessingAfter ==
    ASSUME RequestsOK, NEW r \in Callers, pc[r] # "idle",
           \A q \in Callers \ {r} : pc'[q] = pc[q] /\ call'[q] = call[q],
           NEW ip
    PROVE  /\ Guessing(ip)' \subseteq Guessing(ip) \cup {r}
           /\ pc'[r] \notin {"invalid", "banning"} =>
                 Guessing(ip)' \subseteq Guessing(ip) \ {r}
           /\ UNCHANGED call => \/ ip # IpOf(r) /\ Guessing(ip)' \subseteq Guessing(ip)
                                \/ ip = IpOf(r)
<1>1. \A q \in Callers \ {r} : IpOf(q)' = IpOf(q)
  BY DEF IpOf
<1>2. UNCHANGED call => IpOf(r)' = IpOf(r)
  BY DEF IpOf
<1>3. QED
  BY <1>1, <1>2 DEF Guessing

\* The steps of a request that leave both maps alone, or drop it.
LEMMA PassingKeeps ==
    ASSUME Countable, AuthSound, GuessInv, RequestsOK, TypeOK, GateInv,
           NEW r \in Callers,
           \/ Reject(r) \/ RateLimit(r) \/ Refused(r) \/ PassBanCheck(r)
           \/ Handle(r) \/ Disconnect(r)
    PROVE  GuessInv'
<1>1. /\ UNCHANGED <<guesses, now, failed_attempts, banned_until>>
      /\ now \in Nat /\ now <= now /\ guesses \in [IPs -> Seq(Nat)]
      /\ pc \in [Callers -> Labels]
  <2>1. UNCHANGED <<guesses, now, failed_attempts, banned_until>>
    BY DEF Reject, RateLimit, Refused, PassBanCheck, Handle, Disconnect,
           Cancel, vars
  <2>2. QED
    BY <2>1 DEF GateInv, AuthSound, RequestsOK
<1>2. /\ pc[r] # "idle"
      /\ \A q \in Callers \ {r} : pc'[q] = pc[q] /\ call'[q] = call[q]
  BY RequestStep, ActsAlone DEF Proceed
<1>3. /\ \A ip : FailuresOf(ip)' = FailuresOf(ip)
      /\ \A ip : Forgotten(ip)' = Forgotten(ip)
      /\ \A ip : IsBanned(ip)' = IsBanned(ip)
  BY <1>1 DEF FailuresOf, HistoryOf, Forgotten, IsBanned
<1>4. pc'[r] # "unbanning"
  BY <1>1 DEF Reject, RateLimit, Refused, PassBanCheck, Handle, Disconnect,
              Answer, Finish, Goto
<1>5. \A q \in Callers : pc'[q] = "unbanning" =>
         pc[q] = "unbanning" /\ IpOf(q)' = IpOf(q)
  BY <1>2, <1>4 DEF IpOf
<1>6. ASSUME NEW ip \in IPs, IsBanned(ip)'
      PROVE  IsBanned(ip) /\ Guessing(ip)' \subseteq Guessing(ip)
  <2>1. IsBanned(ip)
    BY <1>3, <1>6
  <2>2. CASE PassBanCheck(r)
    <3>1. UNCHANGED call /\ ip # IpOf(r)
      BY <2>1, <2>2 DEF PassBanCheck
    <3>2. QED
      BY <1>2, <2>1, <3>1, GuessingAfter
  <2>3. CASE ~PassBanCheck(r)
    <3>1. pc'[r] \notin {"invalid", "banning"}
      BY <1>1, <2>3 DEF Reject, RateLimit, Refused, Handle, Disconnect,
                        Answer, Finish, Goto
    <3>2. QED
      BY <1>2, <2>1, <3>1, GuessingAfter
  <2>4. QED
    BY <2>2, <2>3
<1>7. QED
  BY <1>1, <1>3, <1>5, <1>6, QuietKeeps

\* A login that has worked lifts the ban of a client without guesses.
LEMMA UnbanKeeps ==
    ASSUME Countable, AuthSound, GuessInv, RequestsOK, TypeOK, GateInv,
           NEW r \in Callers, Unban(r)
    PROVE  GuessInv'
<1>1. /\ pc[r] = "unbanning" /\ pc' = [pc EXCEPT ![r] = "handling"]
      /\ RemoveBan(r) /\ UNCHANGED <<keys, call, since, guesses>>
      /\ guesses[IpOf(r)] = << >>
  BY DEF Unban, Goto, GuessInv
<1>2. pending[r].ip = IpOf(r)
  <2>1. pending[r] = Unbanning(IpOf(r))
    BY <1>1 DEF GateInv, BetweenTheMaps
  <2>2. QED
    BY <2>1 DEF Unbanning
<1>3. /\ UNCHANGED <<now, failed_attempts>>
      /\ DOMAIN banned_until' = DOMAIN banned_until \ {IpOf(r)}
      /\ \A x \in DOMAIN banned_until' : banned_until'[x] = banned_until[x]
  BY <1>1, <1>2 DEF RemoveBan, Without
<1>4. /\ now \in Nat /\ now <= now /\ guesses \in [IPs -> Seq(Nat)]
      /\ pc \in [Callers -> Labels]
      /\ banned_until \in [DOMAIN banned_until -> Nat]
  BY DEF GateInv, AuthSound, RequestsOK
<1>5. /\ \A ip : FailuresOf(ip)' = FailuresOf(ip)
      /\ \A ip : ip # IpOf(r) => Forgotten(ip)' = Forgotten(ip)
      /\ \A ip : IsBanned(ip)' => IsBanned(ip)
  BY <1>3 DEF FailuresOf, HistoryOf, Forgotten, IsBanned
<1>6. /\ \A ip : Guessing(ip)' \subseteq Guessing(ip)
      /\ \A q \in Callers : pc'[q] = "unbanning" =>
            pc[q] = "unbanning" /\ IpOf(q)' = IpOf(q)
  BY <1>1, <1>4 DEF Guessing, IpOf
<1>7. \A ip \in IPs :
         guesses[ip] = << >> \/ Forgotten(ip) \subseteq Forgotten(ip)'
  BY <1>1, <1>5
<1>8. QED
  BY <1>1, <1>3, <1>4, <1>5, <1>6, <1>7, QuietKeeps

\* A login that works clears the guesses of its client.
LEMMA SucceedKeeps ==
    ASSUME Countable, AuthSound, GuessInv, RequestsOK, TypeOK, GateInv,
           NEW r \in Callers, Succeed(r)
    PROVE  GuessInv'
<1>1. /\ pc[r] = "valid" /\ pc' = [pc EXCEPT ![r] = "unbanning"]
      /\ RecordSuccess(r, IpOf(r))
      /\ guesses' = [guesses EXCEPT ![IpOf(r)] = << >>]
      /\ UNCHANGED <<keys, call, since>>
  BY DEF Succeed, Goto
<1>2. /\ UNCHANGED <<now, banned_until>>
      /\ \A q \in Callers : pending[q] = None
      /\ failed_attempts' = [x \in DOMAIN failed_attempts \ {IpOf(r)} |->
                                failed_attempts[x]]
  BY <1>1 DEF RecordSuccess, LockFree, Without, TypeOK
<1>3. /\ now \in Nat /\ now <= now /\ guesses \in [IPs -> Seq(Nat)]
      /\ pc \in [Callers -> Labels] /\ IpOf(r) \in IPs
  BY <1>1, Addresses DEF GateInv, AuthSound, RequestsOK
<1>4. /\ \A ip : ip # IpOf(r) => FailuresOf(ip)' = FailuresOf(ip)
      /\ \A ip : Forgotten(ip)' = Forgotten(ip)
      /\ \A ip : IsBanned(ip)' = IsBanned(ip)
      /\ \A ip : Guessing(ip)' \subseteq Guessing(ip)
  <2>1. \A ip : Guessing(ip)' \subseteq Guessing(ip)
    BY <1>1, <1>3 DEF Guessing, IpOf
  <2>2. QED
    BY <1>2, <2>1 DEF FailuresOf, HistoryOf, Forgotten, IsBanned
<1>5. ASSUME NEW ip \in IPs PROVE Counted(ip)'
  <2>1. CASE ip = IpOf(r)
    BY <1>1, <1>2, <1>3, <2>1, CountCleared
  <2>2. CASE ip # IpOf(r)
    <3>1. /\ Counted(ip) /\ guesses'[ip] = guesses[ip]
          /\ guesses[ip] \in Seq(Nat)
      BY <1>1, <1>3, <2>2 DEF GuessInv
    <3>2. now' \in Nat /\ now <= now'
      BY <1>2, <1>3
    <3>3. QED
      BY <1>4, <2>2, <3>1, <3>2, CountKept
  <2>3. QED
    BY <2>1, <2>2
<1>6. ASSUME NEW q \in Callers, pc'[q] = "unbanning"
      PROVE  guesses'[IpOf(q)'] = << >>
  <2>1. q = r
    <3>1. pending[q] = None
      BY <1>2
    <3>2. pc[q] # "unbanning"
      BY <3>1, PendingMeansBetween
    <3>3. QED
      BY <1>1, <1>3, <1>6, <3>2
  <2>2. QED
    BY <1>1, <1>3, <2>1 DEF IpOf
<1>7. QED
  BY <1>5, <1>6 DEF GuessInv, IpOf

\* A wrong key is recorded: answered at once, or with the ban it asks for.
LEMMA FailKeeps ==
    ASSUME Countable, AuthSound, GuessInv, RequestsOK, TypeOK, GateInv,
           NEW r \in Callers, Fail(r),
           NEW me, me = IpOf(r),
           NEW recent, recent = Recent(FailuresOf(me), now, AuthWindow),
           NEW times, times = IF Len(recent) >= MaxAttempts
                              THEN recent ELSE Append(recent, now)
    PROVE  GuessInv'
<1>1. /\ pc[r] = "invalid" /\ RecordFailure(r, me)
      /\ me \in IPs
  BY Addresses DEF Fail
<1>2. /\ now \in Nat /\ now <= now /\ guesses \in [IPs -> Seq(Nat)]
      /\ pc \in [Callers -> Labels]
      /\ MaxAttempts \in Nat \ {0} /\ AuthWindow \in Nat
      /\ pending \in [Callers \cup {Sweeper} -> Pending \cup {None}]
  BY AuthAssumption DEF GateInv, AuthSound, RequestsOK, TypeOK
<1>3. /\ FailuresOf(me)' = times
      /\ me \in DOMAIN failed_attempts'
      /\ \A x : x # me =>
            \/ FailuresOf(x)' = FailuresOf(x)
            \/ x \in DOMAIN failed_attempts \ DOMAIN failed_attempts'
      /\ BanFollows(r, me, times)
      /\ UNCHANGED <<now, banned_until>>
      /\ \A q \in DOMAIN pending : pending[q] = None
  <2>1. FailuresOf(me)' = times /\ me \in DOMAIN failed_attempts'
    BY <1>1, FailureRecorded
  <2>2. \A x : x # me =>
            \/ FailuresOf(x)' = FailuresOf(x)
            \/ x \in DOMAIN failed_attempts \ DOMAIN failed_attempts'
    BY <1>1, FailureRecorded
  <2>3. BanFollows(r, me, times)
    BY <1>1, FailureRecorded
  <2>4. /\ UNCHANGED <<now, banned_until>>
        /\ \A q \in DOMAIN pending : pending[q] = None
    BY <1>1, FailureRecorded
  <2>5. QED
    BY <2>1, <2>2, <2>3, <2>4
<1>4. /\ recent \in Seq(Nat) /\ Chronological(recent, now)
      /\ Match(guesses[me], recent, Answered(recent), Forgotten(me))
      /\ Match(guesses[me], recent, Len(recent), Forgotten(me))
      /\ Len(recent) \in Nat
  <2> DEFINE g == guesses[me]
             h == FailuresOf(me)
             F == Forgotten(me)
  <2>1. /\ h \in Seq(Nat) /\ Chronological(h, now) /\ Len(h) <= MaxAttempts
        /\ Match(g, h, Answered(h), F) /\ g \in Seq(Nat)
    BY <1>1, <1>2 DEF AuthSound, GuessInv, Counted
  <2>2. \A s \in Nat : now - s >= AuthWindow => s \in F
    BY DEF Forgotten
  <2>3. recent = Recent(h, now, AuthWindow)
    OBVIOUS
  <2> HIDE DEF g, h, F
  <2>4. /\ recent \in Seq(Nat) /\ Chronological(recent, now)
        /\ Match(g, recent, Answered(recent), F)
        /\ Match(g, recent, Len(recent), F)
    BY <1>2, <2>1, <2>2, <2>3, MatchPruned
  <2>5. QED
    BY <2>4, LenProperties DEF g, F
<1>5. /\ Len(recent) >= MaxAttempts => times = recent
      /\ ~(Len(recent) >= MaxAttempts) =>
            times = Append(recent, now) /\ Len(times) = Len(recent) + 1
  BY <1>2, <1>4, AppendProperties
<1>6. /\ \A ip : Forgotten(ip)' = Forgotten(ip)
      /\ \A ip : IsBanned(ip)' = IsBanned(ip)
  BY <1>3 DEF Forgotten, IsBanned
<1>7. /\ \A q \in Callers \ {r} : pc'[q] = pc[q] /\ call'[q] = call[q]
      /\ pc[r] # "idle"
  BY <1>1, ActsAlone DEF Record
<1>8. r \in Guessing(me)
  BY <1>1 DEF Guessing
<1>9. \A ip : Guessing(ip)' \subseteq Guessing(ip)
  <2>1. CASE Finish(r)
    <3>1. pc'[r] \notin {"invalid", "banning"}
      BY <1>2, <2>1 DEF Finish, Goto
    <3>2. QED
      BY <1>7, <3>1, GuessingAfter
  <2>2. CASE UNCHANGED call
    BY <1>7, <1>8, <2>2, GuessingAfter
  <2>3. QED
    BY <2>1, <2>2 DEF Fail, Answer
<1>10. ASSUME NEW ip \in IPs, ip # me,
              guesses'[ip] = IF ip \in DOMAIN failed_attempts \ DOMAIN failed_attempts'
                             THEN << >> ELSE guesses[ip]
       PROVE  Counted(ip)'
  <2>1. CASE ip \in DOMAIN failed_attempts \ DOMAIN failed_attempts'
    BY <1>2, <1>3, <1>10, <2>1, CountCleared
  <2>2. CASE ~(ip \in DOMAIN failed_attempts \ DOMAIN failed_attempts')
    <3>1. /\ Counted(ip) /\ guesses'[ip] = guesses[ip]
          /\ guesses[ip] \in Seq(Nat) /\ FailuresOf(ip)' = FailuresOf(ip)
          /\ now' \in Nat /\ now <= now'
      BY <1>2, <1>3, <1>10, <2>2 DEF GuessInv
    <3>2. QED
      BY <1>6, <1>9, <3>1, CountKept
  <2>3. QED
    BY <2>1, <2>2
<1>11. \A q \in Callers : pc'[q] # "unbanning"
  <2>1. pc'[r] # "unbanning"
    BY <1>2 DEF Fail, Answer, Finish, Goto
  <2>2. \A q \in Callers : pending[q] = None
    BY <1>2, <1>3
  <2>3. \A q \in Callers : pc[q] # "unbanning"
    BY <2>2, PendingMeansBetween
  <2>4. QED
    BY <1>7, <2>1, <2>3
<1>12. CASE Len(times) >= MaxAttempts
  <2>1. pending'[r] # None
    <3>1. PICK code \in {401, 429} :
             pending' = IF Len(times) >= MaxAttempts
                        THEN [pending EXCEPT ![r] = Banning(me, code)]
                        ELSE pending
      BY <1>3 DEF BanFollows
    <3>2. Banning(me, code) \in Pending
      BY <1>1 DEF Banning, Pending
    <3>3. Banning(me, code) # None
      BY <3>2, AuthAssumption
    <3>4. r \in DOMAIN pending
      BY DEF TypeOK
    <3>5. QED
      BY <1>12, <3>1, <3>3, <3>4
  <2>2. guesses' = GuessesAfter({})
    BY <2>1 DEF Fail
  <2>3. Counted(me)'
    <3>1. /\ Counted(me) /\ guesses'[me] = guesses[me]
          /\ guesses[me] \in Seq(Nat)
      BY <1>1, <1>2, <1>3, <2>2 DEF GuessInv, GuessesAfter
    <3>2. Match(guesses[me], times, Answered(times), Forgotten(me))
      <4>1. CASE Len(recent) >= MaxAttempts
        BY <1>4, <1>5, <4>1
      <4>2. CASE ~(Len(recent) >= MaxAttempts)
        <5>1. times = Append(recent, now) /\ Answered(times) = Len(recent)
          BY <1>2, <1>4, <1>5, <1>12, <4>2 DEF Answered
        <5>2. QED
          BY <1>2, <1>4, <3>1, <5>1, MatchUnanswered
      <4>3. QED
        BY <4>1, <4>2
    <3>3. Match(guesses[me], FailuresOf(me)', Answered(FailuresOf(me)'),
                Forgotten(me)')
      BY <1>3, <1>6, <3>2
    <3>4. now' \in Nat /\ now <= now'
      BY <1>2, <1>3
    <3>5. IsBanned(me)' =>
             IsBanned(me) /\ Guessing(me)' \subseteq Guessing(me)
      BY <1>6, <1>9
    <3>6. QED
      BY <3>1, <3>3, <3>4, <3>5, CountMatched
  <2>4. \A ip \in IPs : ip # me => Counted(ip)'
    BY <1>10, <2>2 DEF GuessesAfter
  <2>5. QED
    BY <1>11, <2>3, <2>4 DEF GuessInv
<1>13. CASE ~(Len(times) >= MaxAttempts)
  <2>1. /\ times = Append(recent, now) /\ Answered(times) = Len(recent) + 1
        /\ pending' = pending /\ pending[r] = None
    <3>1. times = Append(recent, now) /\ Answered(times) = Len(recent) + 1
      BY <1>2, <1>4, <1>5, <1>13 DEF Answered
    <3>2. pending' = pending
      BY <1>3, <1>13 DEF BanFollows
    <3>3. pending[r] = None
      BY <1>3 DEF TypeOK
    <3>4. QED
      BY <3>1, <3>2, <3>3
  <2>2. Finish(r) /\ guesses' = GuessesAfter({me})
    BY <2>1 DEF Fail, Answer
  <2>3. Counted(me)'
    <3>1. /\ Counted(me) /\ guesses'[me] = Append(guesses[me], now)
          /\ guesses[me] \in Seq(Nat) /\ now' = now
      BY <1>1, <1>2, <1>3, <2>2 DEF GuessInv, GuessesAfter
    <3>2. Guessing(me)' \subseteq Guessing(me) \ {r}
      <4>1. pc'[r] \notin {"invalid", "banning"}
        BY <1>2, <2>2 DEF Finish, Goto
      <4>2. QED
        BY <1>7, <4>1, GuessingAfter
    <3>3. Match(Append(guesses[me], now), times, Answered(times), Forgotten(me))
      BY <1>2, <1>4, <2>1, <3>1, MatchAnswered
    <3>4. Match(Append(guesses[me], now), FailuresOf(me)',
                Answered(FailuresOf(me)'), Forgotten(me)')
      BY <1>3, <1>6, <3>3
    <3>5. QED
      BY <1>8, <3>1, <3>2, <3>4, CountGuessed
  <2>4. \A ip \in IPs : ip # me => Counted(ip)'
    BY <1>10, <2>2 DEF GuessesAfter
  <2>5. QED
    BY <1>11, <2>3, <2>4 DEF GuessInv
<1>14. QED
  BY <1>12, <1>13

\* A ban is put in place: all guesses so far leave the window before it ends.
LEMMA BanKeeps ==
    ASSUME Countable, AuthSound, GuessInv, RequestsOK, TypeOK, GateInv,
           NEW r \in Callers, Ban(r),
           NEW me, me = IpOf(r)
    PROVE  GuessInv'
<1>1. /\ pc[r] = "banning" /\ InsertBan(r) /\ Finish(r)
      /\ guesses' = GuessesAfter({me})
      /\ me \in IPs /\ pending[r] # None /\ pending[r].ip = me
  <2>1. /\ pc[r] = "banning" /\ InsertBan(r) /\ Finish(r)
        /\ guesses' = GuessesAfter({me})
    BY DEF Ban, Answer
  <2>2. me \in IPs
    BY <2>1, Addresses
  <2>3. pending[r] # None /\ pending[r].ip = me
    BY <2>1 DEF GateInv, BetweenTheMaps, Doing
  <2>4. QED
    BY <2>1, <2>2, <2>3
<1>2. /\ now \in Nat /\ now <= now /\ guesses \in [IPs -> Seq(Nat)]
      /\ pc \in [Callers -> Labels] /\ BanDuration \in Nat
      /\ banned_until \in [DOMAIN banned_until -> Nat]
  BY AuthAssumption DEF GateInv, AuthSound, RequestsOK
<1>3. /\ UNCHANGED <<now, failed_attempts>>
      /\ DOMAIN banned_until' = DOMAIN banned_until \cup {me}
      /\ banned_until'[me] = now + BanDuration
      /\ \A x \in DOMAIN banned_until : x # me =>
            banned_until'[x] = banned_until[x]
  BY <1>1 DEF InsertBan, WithHistory
<1>4. /\ \A ip : FailuresOf(ip)' = FailuresOf(ip)
      /\ \A ip : ip # me => Forgotten(ip)' = Forgotten(ip)
      /\ \A ip : ip # me => IsBanned(ip)' = IsBanned(ip)
  BY <1>3 DEF FailuresOf, HistoryOf, Forgotten, IsBanned
<1>5. /\ \A q \in Callers \ {r} : pc'[q] = pc[q] /\ call'[q] = call[q]
      /\ pc'[r] = "idle"
  BY <1>1, <1>2, ActsAlone DEF Proceed, Finish, Goto
<1>6. \A ip : Guessing(ip)' \subseteq Guessing(ip) \ {r}
  BY <1>1, <1>5, GuessingAfter
<1>7. /\ guesses'[me] = Append(guesses[me], now)
      /\ \A ip \in IPs : ip # me => guesses'[ip] = guesses[ip]
  BY <1>1, <1>3 DEF GuessesAfter
<1>8. ASSUME NEW ip \in IPs, ip # me PROVE Counted(ip)'
  <2>1. /\ Counted(ip) /\ guesses[ip] \in Seq(Nat)
        /\ guesses'[ip] = guesses[ip] /\ now' \in Nat /\ now <= now'
    BY <1>2, <1>3, <1>7, <1>8 DEF GuessInv
  <2>2. QED
    BY <1>4, <1>6, <1>8, <2>1, CountKept
<1>9. Counted(me)'
  <2> DEFINE gt == Append(guesses[me], now)
  <2>1. /\ Counted(me) /\ guesses[me] \in Seq(Nat) /\ now' = now
        /\ r \in Guessing(me)
    BY <1>1, <1>2, <1>3 DEF GuessInv, Guessing
  <2>2. /\ gt \in Seq(Nat) /\ Chronological(gt, now)
    BY <1>2, <2>1, AppendChronological DEF Counted
  <2>3. ASSUME NEW k \in 0..(Len(gt) - 1)
        PROVE  gt[Len(gt) - k] \in Forgotten(me)'
    <3> HIDE DEF gt
    <3>1. Len(gt) - k \in 1..Len(gt) /\ DOMAIN gt = 1..Len(gt)
      <4>1. \A l \in Nat : \A j \in 0..(l - 1) : l - j \in 1..l
        OBVIOUS
      <4>2. Len(gt) \in Nat /\ DOMAIN gt = 1..Len(gt)
        BY <2>2, LenProperties
      <4>3. QED
        BY <4>1, <4>2, Zenon
    <3>2. gt[Len(gt) - k] \in Nat
      BY <2>2, <3>1, ElementOfSeq
    <3>3. gt[Len(gt) - k] <= now
      BY <2>2, <3>1 DEF Chronological
    <3>4. gt[Len(gt) - k] + BanDuration <= now + BanDuration
      BY <1>2, <3>2, <3>3
    <3>5. QED
      BY <1>3, <3>2, <3>4 DEF Forgotten
  <2>4. Match(gt, FailuresOf(me)', Answered(FailuresOf(me)'), Forgotten(me)')
    BY <2>3 DEF Match
  <2>5. QED
    BY <1>6, <1>7, <2>1, <2>4, CountGuessed
<1>10. \A q \in Callers : pc'[q] # "unbanning"
  <2>1. ASSUME NEW q \in Callers, q # r PROVE pc[q] # "unbanning"
    <3>1. pending[q] = None
      BY <1>1, <2>1 DEF AuthSound
    <3>2. QED
      BY <3>1, PendingMeansBetween
  <2>2. QED
    BY <1>5, <2>1
<1>11. QED
  BY <1>8, <1>9, <1>10 DEF GuessInv

\* The cleanup drops what no longer counts, and time only makes guesses older.
LEMMA ClockAndCleanupKeep ==
    ASSUME Countable, AuthSound, GuessInv, GateInv, TypeOK,
           UNCHANGED <<keys, call, pc, since, guesses>>,
           \/ SweepAttempts \/ SweepBans \/ Tick
           \/ UNCHANGED vars
    PROVE  GuessInv'
<1>1. /\ now \in Nat /\ now <= now /\ guesses \in [IPs -> Seq(Nat)]
      /\ banned_until \in [DOMAIN banned_until -> Nat]
  BY DEF GateInv, AuthSound
<1>2. /\ \A ip : Guessing(ip)' = Guessing(ip)
      /\ \A q \in Callers : IpOf(q)' = IpOf(q)
  BY DEF Guessing, IpOf
<1>3. CASE SweepAttempts
  <2>1. /\ UNCHANGED <<now, banned_until>>
        /\ failed_attempts' = Swept(failed_attempts, now, AuthWindow)
    BY <1>3 DEF SweepAttempts
  <2>2. \A ip : \/ FailuresOf(ip)' = FailuresOf(ip)
                \/ FailuresOf(ip)' = Recent(FailuresOf(ip), now, AuthWindow)
    BY <2>1 DEF FailuresOf, HistoryOf, Swept
  <2>3. /\ \A ip : Forgotten(ip)' = Forgotten(ip)
        /\ \A ip : IsBanned(ip)' = IsBanned(ip)
    BY <2>1 DEF Forgotten, IsBanned
  <2>4. now' \in Nat /\ now <= now'
    BY <1>1, <2>1
  <2>5. QED
    BY <1>1, <1>2, <2>2, <2>3, <2>4, QuietKeeps
<1>4. CASE ~SweepAttempts
  <2>1. /\ failed_attempts' = failed_attempts
        /\ now' \in Nat /\ now <= now'
    BY <1>1, <1>4 DEF SweepBans, Tick, vars
  <2>2. \A ip \in DOMAIN banned_until :
           \/ /\ ip \in DOMAIN banned_until'
              /\ banned_until'[ip] \in Nat
              /\ banned_until[ip] <= banned_until'[ip]
           \/ banned_until[ip] <= now'
    <3>1. CASE SweepBans
      <4>1. /\ pending[Sweeper].asof \in Nat /\ pending[Sweeper].asof <= now
            /\ now' = now
            /\ banned_until' = [ip \in RunningBans(pending[Sweeper].asof)
                                   |-> banned_until[ip]]
        BY <3>1 DEF SweepBans, AuthSound
      <4>2. PICK t \in Nat : t = pending[Sweeper].asof /\ t <= now
        BY <4>1
      <4> TAKE ip \in DOMAIN banned_until
      <4>3. banned_until[ip] > t => /\ ip \in DOMAIN banned_until'
                                    /\ banned_until'[ip] = banned_until[ip]
        BY <4>1, <4>2 DEF RunningBans
      <4>4. banned_until[ip] \in Nat
        BY <1>1
      <4>5. banned_until[ip] > t \/ banned_until[ip] <= now'
        BY <1>1, <4>1, <4>2, <4>4
      <4>6. banned_until[ip] <= banned_until[ip]
        BY <4>4
      <4>7. QED
        BY <4>3, <4>4, <4>5, <4>6
    <3>2. CASE ~SweepBans
      <4>1. banned_until' = banned_until
        BY <1>4, <3>2 DEF Tick, vars
      <4>2. QED
        BY <1>1, <4>1
    <3>3. QED
      BY <3>1, <3>2
  <2>3. \A ip \in IPs : Forgotten(ip) \subseteq Forgotten(ip)'
    BY <2>1, <2>2, StillForgotten
  <2>4. \A ip : IsBanned(ip)' => IsBanned(ip)
    <3>1. CASE SweepBans
      BY <3>1 DEF SweepBans, RunningBans, IsBanned
    <3>2. CASE ~SweepBans
      BY <1>1, <1>4, <2>1, <3>2 DEF Tick, vars, IsBanned
    <3>3. QED
      BY <3>1, <3>2
  <2>5. \A ip : FailuresOf(ip)' = FailuresOf(ip)
    BY <2>1 DEF FailuresOf, HistoryOf
  <2>6. QED
    BY <1>1, <1>2, <2>1, <2>3, <2>4, <2>5, QuietKeeps
<1>5. QED
  BY <1>3, <1>4

\* A request that has just arrived has not passed the ban check.
LEMMA ArriveKeeps ==
    ASSUME Countable, AuthSound, GuessInv, RequestsOK, GateInv,
           NEW r \in Callers, NEW c \in Calls, Arrive(r, c)
    PROVE  GuessInv'
<1>1. /\ UNCHANGED <<now, failed_attempts, banned_until, guesses>>
      /\ pc' = [pc EXCEPT ![r] = "arrived"]
      /\ call' = [call EXCEPT ![r] = c]
  BY DEF Arrive, Goto, vars
<1>2. /\ now \in Nat /\ now <= now /\ guesses \in [IPs -> Seq(Nat)]
      /\ pc \in [Callers -> Labels]
      /\ call \in [Callers -> Calls \cup {None}]
  BY DEF GateInv, AuthSound, RequestsOK
<1>3. /\ \A q \in Callers \ {r} : pc'[q] = pc[q] /\ IpOf(q)' = IpOf(q)
      /\ pc'[r] = "arrived"
  BY <1>1, <1>2 DEF IpOf
<1>4. /\ \A ip : Guessing(ip)' \subseteq Guessing(ip)
      /\ \A q \in Callers : pc'[q] = "unbanning" =>
            pc[q] = "unbanning" /\ IpOf(q)' = IpOf(q)
  BY <1>3 DEF Guessing
<1>5. /\ \A ip : FailuresOf(ip)' = FailuresOf(ip)
      /\ \A ip : Forgotten(ip)' = Forgotten(ip)
      /\ \A ip : IsBanned(ip)' = IsBanned(ip)
  BY <1>1 DEF FailuresOf, HistoryOf, Forgotten, IsBanned
<1>6. QED
  BY <1>1, <1>2, <1>4, <1>5, QuietKeeps

LEMMA GuessesKept ==
    ASSUME Countable, AuthSound, GuessInv, RequestsOK, TypeOK, GateInv,
           [GateNext]_gateVars
    PROVE  GuessInv'
<1>1. ASSUME NEW r \in Callers, Fail(r) PROVE GuessInv'
  <2>1. PICK me : me = IpOf(r)
    OBVIOUS
  <2>2. PICK recent : recent = Recent(FailuresOf(me), now, AuthWindow)
    OBVIOUS
  <2>3. PICK times : times = IF Len(recent) >= MaxAttempts
                             THEN recent ELSE Append(recent, now)
    OBVIOUS
  <2>4. QED
    BY <1>1, <2>1, <2>2, <2>3, FailKeeps
<1>2. ASSUME NEW r \in Callers, Ban(r) PROVE GuessInv'
  <2>1. PICK me : me = IpOf(r)
    OBVIOUS
  <2>2. QED
    BY <1>2, <2>1, BanKeeps
<1>3. ASSUME NEW r \in Callers, Proceed(r) \/ Record(r) \/ Disconnect(r)
      PROVE  GuessInv'
  BY <1>1, <1>2, <1>3, PassingKeeps, UnbanKeeps, SucceedKeeps
  DEF Proceed, Record
<1>4. CASE Cleanup \/ GateTick \/ UNCHANGED gateVars
  BY <1>4, ClockAndCleanupKeep DEF Cleanup, GateTick, gateVars
<1>5. QED
  BY <1>3, <1>4, ArriveKeeps DEF GateNext

-----------------------------------------------------------------------------
(* The theorems *)

\* Every variable keeps its type, and a task is between the two maps exactly
\* while its program counter says so.
THEOREM GateTypeCorrect == GateSpec => []GateTypeOK
<1>1. GateInv /\ RequestsOK /\ TypeOK => GateTypeOK
  <2> SUFFICES ASSUME GateInv, RequestsOK, TypeOK PROVE GateTypeOK
    OBVIOUS
  <2>1. \A r \in Callers :
           pending[r] # None <=> pc[r] \in {"banning", "unbanning"}
    BY PendingMeansBetween
  <2>2. call \in [Callers -> Call \cup {None}]
    BY GateAssumption DEF RequestsOK
  <2>3. QED
    BY <2>1, <2>2 DEF GateTypeOK, GateInv, RequestsOK
<1>2. QED
  BY <1>1, Inductive, PTL

\* A handler sees only requests with a key for their route and within the
\* size limit, and nobody whose ban fell before the ban check.
THEOREM HandlersSeeTheAuthorised == GateSpec => []HandledIsAuthorised
<1>1. GateInv /\ RequestsOK /\ TypeOK => HandledIsAuthorised
  <2> SUFFICES ASSUME GateInv, RequestsOK, TypeOK,
                      NEW r \in Callers, pc[r] = "handling"
               PROVE  /\ IF call[r].route = "admin"
                         THEN call[r].key = "admin" /\ "admin" \in keys
                         ELSE /\ ~call[r].oversize
                              /\ \/ call[r].key \in {"user", "admin"}
                                 \/ keys = {}
                      /\ IsBanned(IpOf(r)) =>
                            since[r] <= banned_until[IpOf(r)] - BanDuration
    BY DEF HandledIsAuthorised
  <2>1. Acceptable(call[r]) /\ (ValidKey(call[r]) \/ ~AuthRequired(call[r]))
    BY DEF GateInv, Authorised, Checked
  <2>2. keys \subseteq {"user", "admin"}
    BY GateAssumption DEF RequestsOK
  <2>3. IF call[r].route = "admin"
        THEN call[r].key = "admin" /\ "admin" \in keys
        ELSE /\ ~call[r].oversize
             /\ call[r].key \in {"user", "admin"} \/ keys = {}
    BY <2>1, <2>2 DEF Acceptable, ValidKey, AuthRequired
  <2>4. FellLater(IpOf(r), since[r]) /\ since[r] \in Nat
    BY DEF GateInv, BanChecked, Checked
  <2>5. IsBanned(IpOf(r)) =>
           since[r] <= banned_until[IpOf(r)] - BanDuration
    BY <2>4, AuthAssumption DEF FellLater, IsBanned, TypeOK
  <2>6. QED
    BY <2>3, <2>5
<1>2. QED
  BY <1>1, Inductive, PTL

\* No login that arrives during a ban lifts it: a ban ends early only by a
\* request of that client that had passed the check before the ban fell.
THEOREM BansOutliveThem == GateSpec => BansOutliveLaterRequests
<1>1. RequestsOK /\ TypeOK /\ GateInv /\ [RunningBanKept]_vars
         => [LiftedByEarlierRequest]_gateVars
  <2> SUFFICES ASSUME RequestsOK, TypeOK, GateInv,
                      [RunningBanKept]_vars,
                      NEW ip \in DOMAIN banned_until,
                      IsBanned(ip), ip \notin DOMAIN banned_until'
               PROVE  \E r \in Callers :
                         /\ pc[r] = "unbanning" /\ IpOf(r) = ip
                         /\ since[r] <= banned_until[ip] - BanDuration
    BY DEF LiftedByEarlierRequest
  <2>1. RunningBanKept
    BY DEF vars
  <2>2. PICK r \in Callers : pending[r] = Unbanning(ip)
    BY <2>1 DEF RunningBanKept
  <2>3. pending[r] # None /\ pending[r].op = "unban" /\ pending[r].ip = ip
    <3>1. Unbanning(ip) \in Pending
      BY <2>2 DEF TypeOK, Unbanning, Pending
    <3>2. QED
      BY <2>2, <3>1, AuthAssumption DEF Unbanning
  <2>4. pc[r] = "unbanning"
    BY <2>3 DEF GateInv, BetweenTheMaps, Doing
  <2>5. IpOf(r) = ip
    <3>1. pending[r] = Unbanning(IpOf(r))
      BY <2>4 DEF GateInv, BetweenTheMaps
    <3>2. Unbanning(IpOf(r)).ip = IpOf(r)
      BY DEF Unbanning
    <3>3. QED
      BY <2>3, <3>1, <3>2
  <2>6. FellLater(ip, since[r]) /\ since[r] \in Nat
    BY <2>4, <2>5 DEF GateInv, BanChecked, Checked
  <2>7. since[r] <= banned_until[ip] - BanDuration
    BY <2>6, AuthAssumption DEF FellLater, TypeOK
  <2>8. QED
    BY <2>4, <2>5, <2>7
<1>2. GateSpec => [][RunningBanKept]_vars
  BY BansLast, ImplementsAuth, PTL DEF AuthSpec, OnlySuccessEndsBan
<1>3. QED
  BY <1>1, <1>2, Inductive, PTL DEF BansOutliveLaterRequests

\* However many requests a client has in flight, and however it drops them,
\* the wrong keys that it gets answered within the window, between logins
\* that work, number at most the threshold plus the other requests there are.
THEOREM GuessesStayBounded ==
    ASSUME IsFiniteSet(Callers)
    PROVE  GateSpec => []GuessesBounded
<1>1. GateInit => GuessesCounted
  <2> SUFFICES ASSUME GateInit, Countable PROVE GuessInv
    BY DEF Countable, GuessesCounted
  <2>1. /\ now = 0 /\ failed_attempts = << >> /\ banned_until = << >>
        /\ guesses = [ip \in IPs |-> << >>]
        /\ pc = [r \in Callers |-> "idle"]
    BY DEF GateInit, Init
  <2>2. Len(<< >>) = 0 /\ DOMAIN << >> = {}
    OBVIOUS
  <2>3. Limit \in Nat /\ \A i \in 1..(0 - Limit) : FALSE
    BY Limits
  <2>4. \A ip \in IPs : Counted(ip)
    BY <2>1, <2>2, <2>3 DEF Counted, Chronological, Match, IsBanned
  <2>5. QED
    BY <2>1, <2>4 DEF GuessInv
<1>2. AuthSound /\ GateInv /\ RequestsOK /\ TypeOK /\ GuessesCounted
        /\ [GateNext]_gateVars => GuessesCounted'
  BY GuessesKept DEF GuessesCounted, Countable
<1>3. GuessesCounted => GuessesBounded
  BY DEF GuessesCounted, Countable, GuessInv, Counted, GuessesBounded, Limit
<1>4. GateSpec => []AuthSound
  BY Invariance, MapsSound, ImplementsAuth, PTL DEF AuthSpec
<1>5. QED
  BY <1>1, <1>2, <1>3, <1>4, Inductive, PTL DEF GateSpec

\* The bans are as consistent under the middleware as they are by
\* themselves: earned, and in force once the threshold is met.
THEOREM BansStayConsistent ==
    GateSpec => []AttemptsBounded /\ []BansConsistent
BY AttemptsStayBounded, BansMatchFailures, ImplementsAuth, PTL
DEF AuthSpec

=============================================================================
