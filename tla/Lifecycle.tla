------------------------------- MODULE Lifecycle -------------------------------
(***************************************************************************)
(* The process of run_server, src/src/main.rs: the startup fetch, the      *)
(* three background tasks of create_router, axum serving until a signal,   *)
(* the requests it drains, and main joining the tasks one after the other. *)
(***************************************************************************)
EXTENDS Naturals, Sequences

CONSTANTS
    Cleanup, Refresher, RateCleanup,  \* the tasks
    Requests,    \* connections with a request in flight
    Setups,      \* builds and configurations
    MaxSignals   \* bound: how many signals are sent

Tasks == {Cleanup, Refresher, RateCleanup}

\* zero: model_refresh_interval_secs = 0, which validate lets pass and on
\* which tokio::time::interval panics; aborts: the profile has panic = "abort".
Setup == [zero : BOOLEAN, aborts : BOOLEAN]

ASSUME LifecycleAssumption ==
    /\ Cleanup # Refresher /\ Cleanup # RateCleanup /\ Refresher # RateCleanup
    /\ Setups \subseteq Setup
    /\ MaxSignals \in Nat

VARIABLES
    setup,
    place,     \* where main is
    joined,    \* how many handles main has joined
    exit,      \* how the process ended, or "none"
    status,    \* of each task
    open,      \* the requests in flight
    sent,      \* the signals sent
    handling,  \* shutdown_signal waits: the handlers are installed
    notified,  \* a handler has seen a signal
    cancelled  \* shutdown_token

main == <<place, joined>>
signals == <<sent, handling, notified>>
process == <<setup, main, exit, status, open, signals, cancelled>>

Running == exit = "none"

JoinOrder == <<Cleanup, Refresher, RateCleanup>>

Ended == {"stopped", "panicked"}

AllEnded == \A t \in Tasks : status[t] \in Ended

ProcessInit ==
    /\ setup \in Setups
    /\ place = "fetching" /\ joined = 0 /\ exit = "none"
    /\ status = [t \in Tasks |-> "none"]
    /\ open = {}
    /\ sent = 0 /\ handling = FALSE /\ notified = FALSE
    /\ cancelled = FALSE

-----------------------------------------------------------------------------
(* main *)

Become(t, s) == status' = [status EXCEPT ![t] = s]

\* discovery.fetch_models()? and then create_router, which spawns the tasks.
CreateRouter ==
    /\ Running /\ place = "fetching"
    /\ place' = "binding"
    /\ status' = [t \in Tasks |-> "spawned"]
    /\ UNCHANGED <<setup, joined, exit, open, signals, cancelled>>

\* The first fetch or TcpListener::bind returns an error: main returns it
\* and the runtime drops whatever tasks there are.
Fail ==
    /\ Running /\ place \in {"fetching", "binding"}
    /\ exit' = "error"
    /\ UNCHANGED <<setup, main, status, open, signals, cancelled>>

Serve ==
    /\ Running /\ place = "binding"
    /\ place' = "serving"
    /\ UNCHANGED <<setup, joined, exit, status, open, signals, cancelled>>

\* axum spawns the shutdown_signal future; its first poll installs the
\* handlers of both signals.
Install ==
    /\ Running /\ place = "serving" /\ ~handling
    /\ handling' = TRUE
    /\ UNCHANGED <<setup, main, exit, status, open, sent, notified, cancelled>>

\* MUTANT: only main cancels the token, once the server has stopped.
StopAccepting ==
    /\ Running /\ place = "serving" /\ notified
    /\ place' = "draining"
    /\ UNCHANGED <<setup, joined, exit, status, open, signals, cancelled>>

\* shutdown_signal cancels the token and returns; axum stops accepting.
Drain ==
    /\ Running /\ place = "serving" /\ notified
    /\ cancelled' = TRUE
    /\ place' = "draining"
    /\ UNCHANGED <<setup, joined, exit, status, open, signals>>

\* axum::serve returns when the last connection is gone; main cancels again.
Drained ==
    /\ Running /\ place = "draining" /\ open = {}
    /\ cancelled' = TRUE
    /\ place' = "joining"
    /\ UNCHANGED <<setup, joined, exit, status, open, signals>>

\* A panic of a task is logged like its success: the next one is joined.
Join ==
    /\ Running /\ place = "joining" /\ joined < Len(JoinOrder)
    /\ status[JoinOrder[joined + 1]] \in Ended
    /\ joined' = joined + 1
    /\ UNCHANGED <<setup, place, exit, status, open, signals, cancelled>>

\* MUTANT: main returns when the first handle is joined.
ReturnEarly ==
    /\ Running /\ place = "joining" /\ joined > 0
    /\ exit' = "ok"
    /\ UNCHANGED <<setup, main, status, open, signals, cancelled>>

Return ==
    /\ Running /\ place = "joining" /\ joined = Len(JoinOrder)
    /\ exit' = "ok"
    /\ UNCHANGED <<setup, main, status, open, signals, cancelled>>

-----------------------------------------------------------------------------
(* The background tasks *)

\* The first poll of a task creates its interval.
FirstPoll(t) ==
    /\ Running /\ status[t] = "spawned"
    /\ IF t = Refresher /\ setup.zero
       THEN IF setup.aborts
            THEN exit' = "aborted" /\ UNCHANGED status
            ELSE Become(t, "panicked") /\ UNCHANGED exit
       ELSE Become(t, "waiting") /\ UNCHANGED exit
    /\ UNCHANGED <<setup, main, open, signals, cancelled>>

\* The select! takes a tick though the token may be cancelled: a fetch that
\* outlasts the interval leaves the next tick ready.
Tick(t) ==
    /\ Running /\ status[t] = "waiting"
    /\ Become(t, "working")
    /\ UNCHANGED <<setup, main, exit, open, signals, cancelled>>

\* The work ends, however it went; inside it nothing looks at the token.
Rest(t) ==
    /\ Running /\ status[t] = "working"
    /\ Become(t, "waiting")
    /\ UNCHANGED <<setup, main, exit, open, signals, cancelled>>

\* MUTANT: the loop of the refresh task has no branch for the token.
StopCleanups(t) ==
    /\ Running /\ status[t] = "waiting" /\ cancelled
    /\ t # Refresher
    /\ Become(t, "stopped")
    /\ UNCHANGED <<setup, main, exit, open, signals, cancelled>>

Stop(t) ==
    /\ Running /\ status[t] = "waiting" /\ cancelled
    /\ Become(t, "stopped")
    /\ UNCHANGED <<setup, main, exit, open, signals, cancelled>>

-----------------------------------------------------------------------------
(* Clients and the operating system *)

Accept(r) ==
    /\ Running /\ place = "serving"
    /\ r \notin open
    /\ open' = open \cup {r}
    /\ UNCHANGED <<setup, main, exit, status, signals, cancelled>>

Answer(r) ==
    /\ Running /\ r \in open
    /\ open' = open \ {r}
    /\ UNCHANGED <<setup, main, exit, status, signals, cancelled>>

\* SIGINT or SIGTERM.  Before the handlers are installed it ends the process;
\* once shutdown_signal has seen one, the handlers swallow all later ones.
Signal ==
    /\ Running /\ sent < MaxSignals
    /\ sent' = sent + 1
    /\ IF handling
       THEN notified' = TRUE /\ UNCHANGED exit
       ELSE exit' = "killed" /\ UNCHANGED notified
    /\ UNCHANGED <<setup, main, status, open, handling, cancelled>>

MainStep ==
    CreateRouter \/ Fail \/ Serve \/ Install \/ Drain \/ Drained \/ Join \/ Return

ProcessNext ==
    \/ MainStep
    \/ \E t \in Tasks : FirstPoll(t) \/ Tick(t) \/ Rest(t) \/ Stop(t)
    \/ \E r \in Requests : Accept(r) \/ Answer(r)
    \/ Signal

ProcessSpec == ProcessInit /\ [][ProcessNext]_process

\* A ready future is polled, and work has timeouts.  Of the branches that are
\* ready, select! takes a random one: the token's cannot lose forever.
ProcessFairness ==
    /\ WF_process(MainStep)
    /\ \A t \in Tasks :
        WF_process(FirstPoll(t)) /\ WF_process(Rest(t)) /\ SF_process(Stop(t))

ProcessLiveSpec == ProcessSpec /\ ProcessFairness

-----------------------------------------------------------------------------
(* Properties *)

ProcessTypeOK ==
    /\ setup \in Setup
    /\ place \in {"fetching", "binding", "serving", "draining", "joining"}
    /\ joined \in 0..Len(JoinOrder)
    /\ exit \in {"none", "ok", "error", "killed", "aborted"}
    /\ status \in [Tasks -> Ended \cup {"none", "spawned", "waiting", "working"}]
    /\ open \subseteq Requests
    /\ sent \in 0..MaxSignals
    /\ {handling, notified, cancelled} \subseteq BOOLEAN
    \* The cancelled token is what makes a task stop, and a signal cancels it.
    /\ (\E t \in Tasks : status[t] = "stopped") => cancelled
    /\ cancelled => notified

\* The process reports success only when a signal asked it to stop, every
\* request it had accepted was answered, and no task was cut off in its work:
\* no fetch is left between the writes of a refresh.
OrderlyExit ==
    exit = "ok" => notified /\ open = {} /\ AllEnded

\* A signal stops the tasks although the requests in flight may take forever:
\* the token is cancelled before the drain, not after it.
TasksStop == notified ~> (AllEnded \/ ~Running)

\* When the requests in flight end, the process does: no task, whatever it is
\* doing when the signal comes, and no second signal keeps it from returning.
ShutdownCompletes ==
    (\A r \in Requests : []<>(r \notin open)) =>
        (notified ~> exit \in {"ok", "aborted"})

=============================================================================
