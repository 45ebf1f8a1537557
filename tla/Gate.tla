-------------------------------- MODULE Gate --------------------------------
(***************************************************************************)
(* auth_middleware and admin_auth_middleware of src/src/middleware/auth.rs:*)
(* what happens to a request before a handler sees it, with many requests  *)
(* in flight and a task switch at every await.  AuthState is composed as   *)
(* it is; the rate limiter, checked on its own in RateLimiter, appears as  *)
(* a verdict that may go either way.                                       *)
(***************************************************************************)
EXTENDS AuthState

CONSTANTS
    Deployments,     \* the kinds of keys that a configuration may have
    TrustedProxies,  \* cors.trusted_proxies
    Calls            \* the requests that may arrive

\* peer is the address of the connection, forwarded what the first entry of
\* x-forwarded-for parses to, and key the kind of key the request presents.
Call ==
    [peer: IPs, forwarded: IPs \cup {None}, route: {"api", "admin"},
     key: {"none", "wrong", "user", "admin"}, oversize: BOOLEAN]

ASSUME GateAssumption ==
    /\ Deployments \subseteq SUBSET {"user", "admin"}
    /\ TrustedProxies \subseteq IPs
    /\ Calls \subseteq Call

VARIABLES
    keys,     \* which of api_keys and admin_api_keys are not empty
    call,     \* the call that a task serves, or None
    pc,       \* where in the middleware the task is
    since,    \* history: when the task passed the ban check
    guesses   \* history: when the wrong keys of a client were answered

gateVars == <<vars, keys, call, pc, since, guesses>>

GateInit ==
    /\ Init
    /\ keys \in Deployments
    /\ call = [r \in Callers |-> None]
    /\ pc = [r \in Callers |-> "idle"]
    /\ since = [r \in Callers |-> 0]
    /\ guesses = [ip \in IPs |-> << >>]

\* extract_client_ip
ClientIp(c) ==
    IF c.peer \in TrustedProxies /\ c.forwarded # None
    THEN c.forwarded ELSE c.peer

IpOf(r) == ClientIp(call[r])

\* MUTANT: the admin middleware accepts what the API middleware accepts.
ValidKeyOfAnyRoute(c) ==
    c.key \in keys

\* validate_api_key accepts both kinds of keys, validate_admin_key one.
ValidKey(c) ==
    c.key \in keys /\ (c.route = "admin" => c.key = "admin")

\* is_enabled, which only the middleware of the API routes consults.
AuthRequired(c) == c.route = "admin" \/ keys # {}

Goto(r, label) == pc' = [pc EXCEPT ![r] = label]

\* The task is done with its request.
Finish(r) ==
    /\ Goto(r, "idle")
    /\ call' = [call EXCEPT ![r] = None]
    /\ since' = [since EXCEPT ![r] = 0]

\* What the client reads of it is the status code.
Answer(r, code) == code \in {200, 401, 413, 429} /\ Finish(r)

Arrive(r, c) ==
    /\ pc[r] = "idle"
    /\ call' = [call EXCEPT ![r] = c]
    /\ Goto(r, "arrived")
    /\ UNCHANGED <<vars, keys, since, guesses>>

\* Before any await: admin routes without admin keys, and declared bodies
\* over the limit on the API routes.
Reject(r) ==
    /\ pc[r] = "arrived"
    /\ \/ call[r].route = "admin" /\ "admin" \notin keys /\ Answer(r, 401)
       \/ call[r].route = "api" /\ call[r].oversize /\ Answer(r, 413)
    /\ UNCHANGED <<vars, keys, guesses>>

Acceptable(c) ==
    IF c.route = "admin" THEN "admin" \in keys ELSE ~c.oversize

\* check_rate_limit, whose verdict is open here.
RateLimit(r) ==
    /\ pc[r] = "arrived"
    /\ Acceptable(call[r])
    /\ \/ /\ Goto(r, IF AuthRequired(call[r]) THEN "limited" ELSE "handling")
          /\ UNCHANGED <<call, since>>
       \/ Answer(r, 429)
    /\ UNCHANGED <<vars, keys, guesses>>

Refused(r) ==
    /\ pc[r] = "limited"
    /\ IsBanned(IpOf(r))
    /\ Answer(r, 429)
    /\ UNCHANGED <<vars, keys, guesses>>

\* MUTANT: the ban check looks at the peer, not at the forwarded client.
PassBanCheckOfPeer(r) ==
    /\ pc[r] = "limited"
    /\ ~IsBanned(call[r].peer)
    /\ Goto(r, IF ValidKey(call[r]) THEN "valid" ELSE "invalid")
    /\ since' = [since EXCEPT ![r] = now]
    /\ UNCHANGED <<vars, keys, call, guesses>>

\* is_banned is false; nothing is awaited until the key has been compared.
PassBanCheck(r) ==
    /\ pc[r] = "limited"
    /\ ~IsBanned(IpOf(r))
    /\ Goto(r, IF ValidKey(call[r]) THEN "valid" ELSE "invalid")
    /\ since' = [since EXCEPT ![r] = now]
    /\ UNCHANGED <<vars, keys, call, guesses>>

\* The guesses of a client are forgotten with its record, when it is evicted.
GuessesAfter(answered) ==
    [ip \in IPs |->
        LET kept == IF ip \in DOMAIN failed_attempts \ DOMAIN failed_attempts'
                    THEN << >> ELSE guesses[ip]
        IN  IF ip \in answered THEN Append(kept, now) ELSE kept]

\* MUTANT: a failure is recorded for the peer, not for the forwarded client.
FailForPeer(r) ==
    /\ pc[r] = "invalid"
    /\ RecordFailure(r, call[r].peer)
    /\ IF pending'[r] = None
       THEN Answer(r, 401) /\ guesses' = GuessesAfter({IpOf(r)})
       ELSE /\ Goto(r, "banning")
            /\ guesses' = GuessesAfter({})
            /\ UNCHANGED <<call, since>>
    /\ UNCHANGED keys

\* record_failure; without a ban to insert the request is answered at once.
Fail(r) ==
    /\ pc[r] = "invalid"
    /\ RecordFailure(r, IpOf(r))
    /\ IF pending'[r] = None
       THEN Answer(r, 401) /\ guesses' = GuessesAfter({IpOf(r)})
       ELSE /\ Goto(r, "banning")
            /\ guesses' = GuessesAfter({})
            /\ UNCHANGED <<call, since>>
    /\ UNCHANGED keys

\* MUTANT: a failure that finds the threshold met never gives the lock back.
BanNeverInserted(r) ==
    /\ pc[r] = "banning"
    /\ pending[r].reply = 401
    /\ InsertBan(r)
    /\ Answer(r, pending[r].reply)
    /\ guesses' = GuessesAfter({IpOf(r)})
    /\ UNCHANGED keys

Ban(r) ==
    /\ pc[r] = "banning"
    /\ InsertBan(r)
    /\ Answer(r, pending[r].reply)
    /\ guesses' = GuessesAfter({IpOf(r)})
    /\ UNCHANGED keys

\* MUTANT: a success clears both maps at once, whoever is between them.
SucceedAtOnce(r) ==
    /\ pc[r] = "valid"
    /\ failed_attempts' = [ip \in DOMAIN failed_attempts \ {IpOf(r)} |->
                              failed_attempts[ip]]
    /\ banned_until' = [ip \in DOMAIN banned_until \ {IpOf(r)} |->
                              banned_until[ip]]
    /\ strikes' = [strikes EXCEPT ![IpOf(r)] = 0]
    /\ Goto(r, "handling")
    /\ guesses' = [guesses EXCEPT ![IpOf(r)] = << >>]
    /\ UNCHANGED <<keys, now, pending, cut, call, since>>

Succeed(r) ==
    /\ pc[r] = "valid"
    /\ RecordSuccess(r, IpOf(r))
    /\ Goto(r, "unbanning")
    /\ guesses' = [guesses EXCEPT ![IpOf(r)] = << >>]
    /\ UNCHANGED <<keys, call, since>>

Unban(r) ==
    /\ pc[r] = "unbanning"
    /\ RemoveBan(r)
    /\ Goto(r, "handling")
    /\ UNCHANGED <<keys, call, since, guesses>>

\* next.run(request): the handler, whatever it does, answers.
Handle(r) ==
    /\ pc[r] = "handling"
    /\ Answer(r, 200)
    /\ UNCHANGED <<vars, keys, guesses>>

\* The client goes away and the future of its request is dropped, at
\* whichever await it is.
Disconnect(r) ==
    /\ pc[r] # "idle"
    /\ IF pending[r] = None THEN UNCHANGED vars ELSE Cancel(r)
    /\ Finish(r)
    /\ UNCHANGED <<keys, guesses>>

\* The steps of a request that wait for no lock it must compete for.
Proceed(r) ==
    \/ Reject(r) \/ RateLimit(r) \/ Refused(r) \/ PassBanCheck(r)
    \/ Ban(r) \/ Unban(r) \/ Handle(r)

\* The steps that take the lock of failed_attempts.
Record(r) == Fail(r) \/ Succeed(r)

Cleanup ==
    /\ SweepAttempts \/ SweepBans
    /\ UNCHANGED <<keys, call, pc, since, guesses>>

GateTick ==
    /\ Tick
    /\ UNCHANGED <<keys, call, pc, since, guesses>>

GateNext ==
    \/ \E r \in Callers : \E c \in Calls : Arrive(r, c)
    \/ \E r \in Callers : Proceed(r) \/ Record(r) \/ Disconnect(r)
    \/ Cleanup
    \/ GateTick

GateSpec == GateInit /\ [][GateNext]_gateVars

\* The runtime polls every ready task, and tokio's RwLock serves its waiters
\* in turn: a task that keeps finding the lock taken gets it in the end.
Fairness ==
    /\ \A r \in Callers : WF_gateVars(Proceed(r)) /\ SF_gateVars(Record(r))
    /\ WF_gateVars(Cleanup /\ SweepBans)

LiveSpec == GateSpec /\ Fairness

-----------------------------------------------------------------------------
(* Properties *)

Labels ==
    {"idle", "arrived", "limited", "valid", "invalid", "banning",
     "unbanning", "handling"}

\* Beyond the types: a task is between the maps exactly while its pc says so.
GateTypeOK ==
    /\ TypeOK
    /\ keys \in Deployments
    /\ call \in [Callers -> Call \cup {None}]
    /\ pc \in [Callers -> Labels]
    /\ since \in [Callers -> Nat]
    /\ guesses \in [IPs -> Seq(Nat)]
    /\ \A r \in Callers :
          pending[r] # None <=> pc[r] \in {"banning", "unbanning"}

\* The middleware uses AuthState as its specification allows: the theorems
\* about AuthState hold here.
AuthSpec == Spec

\* However many requests a client has in flight, and whenever it drops them,
\* the wrong keys that get answered in any span of auth_window_secs, between two logins that work,
\* number at most the threshold plus the requests that were past the ban
\* check when the ban fell.  It takes bans at least as long as the window.
GuessesBounded ==
    LET limit == MaxAttempts + Cardinality(Callers) - 1
    IN  BanDuration >= AuthWindow =>
            \A ip \in IPs : \A i \in 1..(Len(guesses[ip]) - limit) :
                guesses[ip][i + limit] - guesses[ip][i] >= AuthWindow

\* A ban that still runs ends early only by the success of a request of that
\* client that had passed the ban check before the ban was put in place: no
\* login that arrives during a ban, not even with a valid key, lifts it.
LiftedByEarlierRequest ==
    \A ip \in DOMAIN banned_until :
        (IsBanned(ip) /\ ip \notin DOMAIN banned_until') =>
            \E r \in Callers :
                /\ pc[r] = "unbanning"
                /\ IpOf(r) = ip
                /\ since[r] <= banned_until[ip] - BanDuration

BansOutliveLaterRequests == [][LiftedByEarlierRequest]_gateVars

\* What a handler may see: on the admin routes an admin key and nothing else,
\* on the API routes any configured key (or none is configured) and a size
\* within the limit; and nobody whose ban fell before the ban check.
HandledIsAuthorised ==
    \A r \in Callers :
        pc[r] = "handling" =>
            /\ IF call[r].route = "admin"
               THEN call[r].key = "admin" /\ "admin" \in keys
               ELSE /\ ~call[r].oversize
                    /\ \/ call[r].key \in {"user", "admin"}
                       \/ keys = {}
            /\ IsBanned(IpOf(r)) =>
                   since[r] <= banned_until[IpOf(r)] - BanDuration

\* Every request is answered, unless its client drops it, whatever the
\* others do to the locks.
EveryRequestAnswered ==
    \A r \in Callers : pc[r] = "arrived" ~> pc[r] = "idle"

=============================================================================
