------------------------------ MODULE AuthState ------------------------------
(***************************************************************************)
(* AuthState of src/src/middleware/auth.rs: failed logins and bans.        *)
(*                                                                         *)
(* The two maps have a lock each.  Whoever writes takes the lock of        *)
(* failed_attempts first and keeps it while it waits for the other one, so *)
(* an operation that writes both is two steps, and pending[c] says what c  *)
(* still has to do under the lock.  is_banned takes the second lock alone  *)
(* and may run in between.                                                 *)
(***************************************************************************)
EXTENDS Histories

CONSTANTS
    IPs,          \* client addresses
    Callers,      \* the tasks that may be inside an operation at once
    Sweeper,      \* the cleanup task
    None,         \* no pending step
    MaxAttempts,  \* security.max_auth_attempts
    BanDuration,  \* security.ban_duration_secs
    AuthWindow,   \* security.auth_window_secs
    MaxTracked,   \* MAX_TRACKED_IPS
    MaxTime       \* bound on the clock, for model checking only

\* What is left of record_failure, record_success or the cleanup once their
\* work on failed_attempts is done.
Pending ==
    [op: {"ban"}, ip: IPs, reply: {401, 429}]
      \cup [op: {"unban"}, ip: IPs]
      \cup [op: {"sweep"}, asof: Nat]

\* Config::validate refuses zero for each of the durations and limits.
ASSUME AuthAssumption ==
    /\ MaxAttempts \in Nat \ {0}
    /\ BanDuration \in Nat \ {0}
    /\ AuthWindow \in Nat \ {0}
    /\ MaxTracked \in Nat \ {0}
    /\ MaxTime \in Nat
    /\ Sweeper \notin Callers
    /\ None \notin Pending

VARIABLES
    now,              \* the clock, in seconds
    failed_attempts,  \* client -> stamps of its failed logins
    banned_until,     \* client -> when its ban expires
    pending,          \* what a task still has to do under the lock
    strikes,          \* history: failures since the last success, capped
    cut               \* history: clients whose last such step was cancelled

vars == <<now, failed_attempts, banned_until, pending, strikes, cut>>

Init ==
    /\ now = 0
    /\ failed_attempts = << >>
    /\ banned_until = << >>
    /\ pending = [c \in Callers \cup {Sweeper} |-> None]
    /\ strikes = [ip \in IPs |-> 0]
    /\ cut = {}

\* MUTANT: failed_attempts is unlocked before banned_until is written.
LockIgnored == TRUE

\* Nobody holds the lock of failed_attempts.
LockFree == \A c \in DOMAIN pending : pending[c] = None

IsBanned(ip) == ip \in DOMAIN banned_until /\ now < banned_until[ip]

Banning(ip, code) == [op |-> "ban", ip |-> ip, reply |-> code]
Unbanning(ip) == [op |-> "unban", ip |-> ip]
Sweeping(t) == [op |-> "sweep", asof |-> t]

Doing(c, op) == pending[c] # None /\ pending[c].op = op

MeetsThreshold(times) == Len(times) >= MaxAttempts

\* MUTANT: a failure is recorded even when the threshold is met already.
RecordFailureAlways(c, ip) ==
    /\ LockFree
    /\ \E h \in RoomFor(failed_attempts, ip, MaxTracked) :
          LET recent == Recent(HistoryOf(h, ip), now, AuthWindow)
          IN  /\ failed_attempts' = WithHistory(h, ip, Append(recent, now))
              /\ pending' = IF MeetsThreshold(Append(recent, now))
                            THEN [pending EXCEPT ![c] = Banning(ip, 401)]
                            ELSE pending
    /\ strikes' = [strikes EXCEPT
                      ![ip] = IF @ < MaxAttempts THEN @ + 1 ELSE @]
    /\ UNCHANGED <<now, banned_until, cut>>

\* record_failure, up to the ban.  A failure that finds the threshold met is
\* not recorded, and answered 429; one that reaches it is answered 401.
RecordFailure(c, ip) ==
    /\ LockFree
    /\ \E h \in RoomFor(failed_attempts, ip, MaxTracked) :
          LET recent == Recent(HistoryOf(h, ip), now, AuthWindow)
              met    == MeetsThreshold(recent)
              times  == IF met THEN recent ELSE Append(recent, now)
          IN  /\ failed_attempts' = WithHistory(h, ip, times)
              /\ pending' = IF MeetsThreshold(times)
                            THEN [pending EXCEPT ![c] =
                                     Banning(ip, IF met THEN 429 ELSE 401)]
                            ELSE pending
    /\ strikes' = [strikes EXCEPT
                      ![ip] = IF @ < MaxAttempts THEN @ + 1 ELSE @]
    /\ UNCHANGED <<now, banned_until, cut>>

\* MUTANT: the ban runs from the first failure of the window.
InsertBanFromFirst(c) ==
    /\ Doing(c, "ban")
    /\ banned_until' =
          WithHistory(banned_until, pending[c].ip,
                      HistoryOf(failed_attempts, pending[c].ip)[1]
                        + BanDuration)
    /\ pending' = [pending EXCEPT ![c] = None]
    /\ cut' = cut \ {pending[c].ip}
    /\ UNCHANGED <<now, failed_attempts, strikes>>

InsertBan(c) ==
    /\ Doing(c, "ban")
    /\ banned_until' =
          WithHistory(banned_until, pending[c].ip, now + BanDuration)
    /\ pending' = [pending EXCEPT ![c] = None]
    /\ cut' = cut \ {pending[c].ip}
    /\ UNCHANGED <<now, failed_attempts, strikes>>

\* record_success, up to the ban.
RecordSuccess(c, ip) ==
    /\ LockFree
    /\ failed_attempts' = Without(failed_attempts, ip)
    /\ pending' = [pending EXCEPT ![c] = Unbanning(ip)]
    /\ strikes' = [strikes EXCEPT ![ip] = 0]
    /\ UNCHANGED <<now, banned_until, cut>>

RemoveBan(c) ==
    /\ Doing(c, "unban")
    /\ banned_until' = Without(banned_until, pending[c].ip)
    /\ pending' = [pending EXCEPT ![c] = None]
    /\ cut' = cut \ {pending[c].ip}
    /\ UNCHANGED <<now, failed_attempts, strikes>>

\* The future of the request is dropped while it waits for banned_until: the
\* lock is given back with the second map as it was.
Cancel(c) ==
    /\ Doing(c, "ban") \/ Doing(c, "unban")
    /\ cut' = cut \cup {pending[c].ip}
    /\ pending' = [pending EXCEPT ![c] = None]
    /\ UNCHANGED <<now, failed_attempts, banned_until, strikes>>

\* The cleanup task reads the clock once, before it has the second lock.
SweepAttempts ==
    /\ LockFree
    /\ failed_attempts' = Swept(failed_attempts, now, AuthWindow)
    /\ pending' = [pending EXCEPT ![Sweeper] = Sweeping(now)]
    /\ UNCHANGED <<now, banned_until, strikes, cut>>

\* MUTANT: the bans of the clients that have no failures left are dropped.
BansOfTheTracked(t) == {ip \in DOMAIN banned_until : ip \in DOMAIN failed_attempts}

\* banned.retain(|expires_at| expires_at > now)
RunningBans(t) == {ip \in DOMAIN banned_until : banned_until[ip] > t}

SweepBans ==
    /\ Doing(Sweeper, "sweep")
    /\ banned_until' = [ip \in RunningBans(pending[Sweeper].asof) |->
                           banned_until[ip]]
    /\ pending' = [pending EXCEPT ![Sweeper] = None]
    /\ UNCHANGED <<now, failed_attempts, strikes, cut>>

Tick ==
    /\ now < MaxTime
    /\ now' = now + 1
    /\ UNCHANGED <<failed_attempts, banned_until, pending, strikes, cut>>

CallerStep(c) ==
    \/ \E ip \in IPs : RecordFailure(c, ip) \/ RecordSuccess(c, ip)
    \/ InsertBan(c)
    \/ RemoveBan(c)
    \/ Cancel(c)

Next ==
    \/ \E c \in Callers : CallerStep(c)
    \/ SweepAttempts
    \/ SweepBans
    \/ Tick

Spec == Init /\ [][Next]_vars

-----------------------------------------------------------------------------
(* Properties *)

\* Beyond the types: the stamps of a client are in order and not from the
\* future, which eviction and the expiry of a prefix rely on.
TypeOK ==
    /\ now \in Nat
    /\ DOMAIN failed_attempts \subseteq IPs
    /\ failed_attempts \in [DOMAIN failed_attempts -> Seq(Nat)]
    /\ DOMAIN banned_until \subseteq IPs
    /\ banned_until \in [DOMAIN banned_until -> Nat]
    /\ pending \in [Callers \cup {Sweeper} -> Pending \cup {None}]
    /\ strikes \in [IPs -> 0..MaxAttempts]
    /\ cut \subseteq IPs
    /\ \A ip \in DOMAIN failed_attempts :
          Chronological(failed_attempts[ip], now)

\* The map of failures keeps to its cap, tracks nobody without a failure
\* (the eviction would pass over such a client), and no client has more
\* failures on record than it takes to be banned.
AttemptsBounded ==
    /\ Cardinality(DOMAIN failed_attempts) <= MaxTracked
    /\ \A ip \in DOMAIN failed_attempts :
          Len(failed_attempts[ip]) \in 1..MaxAttempts

\* A ban stands for max_auth_attempts failures since the last login of that
\* client that worked, unless that login was cancelled between the maps.
\* The comment at auth.rs:143-145 is about this: a success that got between
\* the two maps of record_failure would leave a ban for failures it has just
\* forgiven.
BansEarned ==
    /\ \A ip \in DOMAIN banned_until :
          \/ strikes[ip] >= MaxAttempts
          \/ \E c \in Callers : pending[c] = Unbanning(ip)
          \/ ip \in cut
    /\ \A ip \in DOMAIN failed_attempts :
          Len(failed_attempts[ip]) <= strikes[ip]

\* Once no operation is under way, a client whose failures on record reach
\* the threshold is banned until a full ban after the last of them, unless
\* the request that should have inserted the ban was cancelled.
ThresholdBans ==
    LockFree =>
        \A ip \in DOMAIN failed_attempts :
            LET times == failed_attempts[ip]
            IN  Len(times) >= MaxAttempts =>
                    \/ now >= Latest(times) + BanDuration
                    \/ /\ ip \in DOMAIN banned_until
                       /\ banned_until[ip] >= Latest(times) + BanDuration
                    \/ ip \in cut

\* A client is banned for its failures, for all that it takes and for nothing
\* else, whatever operations meet between the two maps.
BansConsistent == BansEarned /\ ThresholdBans

\* A ban that still runs is never shortened or dropped, by the cleanup or by
\* further failures: only a login of that client that worked ends it.
RunningBanKept ==
    \A ip \in DOMAIN banned_until :
        IsBanned(ip) =>
            \/ ip \in DOMAIN banned_until' /\ banned_until'[ip] >= banned_until[ip]
            \/ \E c \in Callers : pending[c] = Unbanning(ip)

OnlySuccessEndsBan == [][RunningBanKept]_vars

=============================================================================
