------------------------------- MODULE Refresh -------------------------------
(***************************************************************************)
(* ModelDiscovery of src/src/discovery/models.rs with everybody who        *)
(* fetches: main before it serves, the refresh task, and the admin route.  *)
(* A fetch ends in four writes under four locks and, for all but main, an  *)
(* update of the registry, which is Registry as it is.                     *)
(***************************************************************************)
EXTENDS Naturals, FiniteSets, Sequences

CONSTANTS
    Names, Models, Namespaced, Config,  \* as in Registry
    Default,    \* the provider id of models without a valid one
    Junk,       \* an id that validate_discovered_id refuses
    Main, Task, \* the startup fetch and the refresh task
    Admins,     \* the POST /admin/refresh-models in flight
    Droppable,  \* those among them whose client may go away
    None,
    Gateways,   \* what the gateway may be like
    Attempts,   \* max_retries
    MaxModels   \* MAX_MODELS_PER_SNAPSHOT

Fetchers == {Main, Task} \cup Admins

\* An entry of the response; owner is what metadata.provider.id says.
Entry == [id: Models \cup {Junk}, owner: Names \cup {Junk}]

\* A gateway that does not answer "ok" fails an attempt (a connection, read
\* or decoding error or a 5xx) or refuses it (any other status).
Gateway == [status: {"ok", "failing", "refusing"}, report: SUBSET Entry]

ASSUME RefreshAssumption ==
    /\ Default \in Names
    /\ Junk \notin Names \cup Models
    /\ Main # Task /\ Main \notin Admins /\ Task \notin Admins
    /\ Droppable \subseteq Admins
    /\ \A report \in SUBSET Entry : None # report
    /\ Gateways \subseteq Gateway
    /\ Attempts \in Nat \ {0}
    /\ MaxModels \in Nat

VARIABLES
    gateway,              \* what the gateway is like now
    models,               \* ModelDiscovery.models: the ids
    models_by_provider,   \* ModelDiscovery.models_by_provider
    known,                \* ModelDiscovery.providers
    pc, attempt,          \* where a fetcher is, and its current attempt
    fetched,              \* the report it was answered with, or None
    snapshot,             \* the groups it found in the shared state
    providers, model_to_provider, applied,  \* Registry
    made,                 \* history: the reports the gateway has made
    alone                 \* history: no other fetch was under way meanwhile

memory == <<models, models_by_provider, known>>
registry == <<providers, model_to_provider, applied>>
fetch == <<pc, attempt, fetched, snapshot, alone>>
vars == <<gateway, made, memory, registry, fetch>>

\* A group is created by its first model: no snapshot has an empty one.
Snapshots == UNION {[S -> (SUBSET Models) \ {{}}] : S \in SUBSET Names}

Reg == INSTANCE Registry

\* What Registry assumes of the configuration; Snapshots is what it assumes.
ASSUME RegistryAssumption ==
    /\ Config \in Seq(Reg!ConfigEntry)
    /\ \A i, j \in DOMAIN Config :
          Config[i].name = Config[j].name => i = j

-----------------------------------------------------------------------------
(* process_models_response *)

ValidEntries(report) == {e \in report : e.id \in Models}

OwnerOf(e) == IF e.owner \in Names THEN e.owner ELSE Default

IdsOf(report) == {e.id : e \in ValidEntries(report)}

OwnersOf(report) == {OwnerOf(e) : e \in ValidEntries(report)}

GroupsOf(report) ==
    [p \in OwnersOf(report) |->
        {e.id : e \in {x \in ValidEntries(report) : OwnerOf(x) = p}}]

TooLarge(report) == Cardinality(report) > MaxModels

-----------------------------------------------------------------------------

Init ==
    /\ gateway \in Gateways
    /\ models = {} /\ models_by_provider = << >> /\ known = {}
    /\ pc = [f \in Fetchers |-> IF f = Main THEN "fetching" ELSE "idle"]
    /\ attempt = [f \in Fetchers |-> 1]
    /\ fetched = [f \in Fetchers |-> None]
    /\ snapshot = [f \in Fetchers |-> None]
    /\ Reg!Init
    /\ made = {}
    /\ alone = [f \in Fetchers |-> FALSE]

\* main goes on to serve once its own fetch has succeeded.
Serving == pc[Main] = "served"

\* The labels between the answer of the gateway and the end of the fetch.
Updating == {"models", "groups", "owners", "snapshot", "registry"}

Goto(f, label) == pc' = [pc EXCEPT ![f] = label]

\* The fetch of f ends here, and with it what it had in hand; main gives up.
Finish(f, label) ==
    /\ Goto(f, label)
    /\ attempt' = [attempt EXCEPT ![f] = 1]
    /\ fetched' = [fetched EXCEPT ![f] = None]
    /\ snapshot' = [snapshot EXCEPT ![f] = None]
    /\ alone' = [alone EXCEPT ![f] = FALSE]

\* A tick of the interval, or an admin request.
Start(f) ==
    /\ f # Main /\ Serving
    /\ pc[f] = "idle"
    /\ Goto(f, "fetching")
    /\ UNCHANGED <<gateway, made, memory, registry,
                   attempt, fetched, snapshot, alone>>

\* The gateway answers an attempt; what it says is in hand from here on.
Answered(f) ==
    /\ pc[f] = "fetching"
    /\ gateway.status = "ok"
    /\ ~TooLarge(gateway.report)
    /\ Goto(f, "models")
    /\ fetched' = [fetched EXCEPT ![f] = gateway.report]
    /\ made' = made \cup {gateway.report}
    /\ LET others == {g \in Fetchers \ {f} : pc[g] \in Updating}
       IN  alone' = [g \in Fetchers |->
                        IF g = f THEN others = {}
                                 ELSE alone[g] /\ g \notin others]
    /\ UNCHANGED <<gateway, memory, registry, attempt, snapshot>>

Retry(f) ==
    /\ pc[f] = "fetching"
    /\ gateway.status = "failing"
    /\ attempt[f] < Attempts
    /\ attempt' = [attempt EXCEPT ![f] = @ + 1]
    /\ UNCHANGED <<gateway, made, memory, registry,
                   pc, fetched, snapshot, alone>>

Hopeless(f) ==
    \/ gateway.status = "failing" /\ attempt[f] = Attempts
    \/ gateway.status = "refusing"
    \/ gateway.status = "ok" /\ TooLarge(gateway.report)

\* MUTANT: an error ends the loop of the refresh task too.
GiveUpForGood(f) ==
    /\ pc[f] = "fetching"
    /\ Hopeless(f)
    /\ Finish(f, IF f \in Admins THEN "idle" ELSE "exited")
    /\ UNCHANGED <<gateway, made, memory, registry>>

\* fetch_models returns an error: main exits, the others leave all as it is.
GiveUp(f) ==
    /\ pc[f] = "fetching"
    /\ Hopeless(f)
    /\ Finish(f, IF f = Main THEN "exited" ELSE "idle")
    /\ UNCHANGED <<gateway, made, memory, registry>>

\* MUTANT: the new models are added to the old ones.
WriteModelsToo(f) ==
    /\ pc[f] = "models"
    /\ models' = models \cup IdsOf(fetched[f])
    /\ Goto(f, "groups")
    /\ UNCHANGED <<gateway, made, models_by_provider, known, registry,
                   attempt, fetched, snapshot, alone>>

WriteModels(f) ==
    /\ pc[f] = "models"
    /\ models' = IdsOf(fetched[f])
    /\ Goto(f, "groups")
    /\ UNCHANGED <<gateway, made, models_by_provider, known, registry,
                   attempt, fetched, snapshot, alone>>

\* MUTANT: groups that the gateway dropped stay.
MergeGroups(f) ==
    /\ pc[f] = "groups"
    /\ LET new == GroupsOf(fetched[f])
       IN  models_by_provider' =
              [p \in DOMAIN new \cup DOMAIN models_by_provider |->
                  IF p \in DOMAIN new THEN new[p] ELSE models_by_provider[p]]
    /\ Goto(f, "owners")
    /\ UNCHANGED <<gateway, made, models, known, registry,
                   attempt, fetched, snapshot, alone>>

WriteGroups(f) ==
    /\ pc[f] = "groups"
    /\ models_by_provider' = GroupsOf(fetched[f])
    /\ Goto(f, "owners")
    /\ UNCHANGED <<gateway, made, models, known, registry,
                   attempt, fetched, snapshot, alone>>

WriteOwners(f) ==
    /\ pc[f] = "owners"
    /\ known' = OwnersOf(fetched[f])
    /\ Goto(f, "snapshot")
    /\ UNCHANGED <<gateway, made, models, models_by_provider, registry,
                   attempt, fetched, snapshot, alone>>

\* get_snapshot holds all the locks at once, so it is a cut of the shared
\* state; it need not be what this fetch has written.
TakeSnapshot(f) ==
    /\ pc[f] = "snapshot"
    /\ IF f = Main
       THEN Finish(f, "served")
       ELSE /\ snapshot' = [snapshot EXCEPT ![f] = models_by_provider]
            /\ Goto(f, "registry")
            /\ UNCHANGED <<attempt, fetched, alone>>
    /\ UNCHANGED <<gateway, made, memory, registry>>

UpdateRegistry(f) ==
    /\ pc[f] = "registry"
    /\ Reg!UpdateFromDiscovery(snapshot[f])
    /\ Finish(f, "idle")
    /\ UNCHANGED <<gateway, made, memory>>

\* The client of an admin request goes away at some await of the handler.
Drop(f) ==
    /\ f \in Droppable
    /\ pc[f] # "idle"
    /\ Finish(f, "idle")
    /\ UNCHANGED <<gateway, made, memory, registry>>

ChangeGateway ==
    /\ gateway' \in Gateways
    /\ UNCHANGED <<made, memory, registry, fetch>>

Fetch(f) ==
    \/ Answered(f) \/ Retry(f) \/ GiveUp(f)
    \/ WriteModels(f) \/ WriteGroups(f) \/ WriteOwners(f)
    \/ TakeSnapshot(f) \/ UpdateRegistry(f)

Next ==
    \/ \E f \in Fetchers : Start(f) \/ Fetch(f) \/ Drop(f)
    \/ ChangeGateway

Spec == Init /\ [][Next]_vars

\* Every attempt ends, by an answer or the client's timeouts, every lock is
\* given back, and the interval of the task keeps ticking; nobody has to
\* send admin requests.
Fairness ==
    /\ \A f \in Fetchers : WF_vars(Fetch(f))
    /\ WF_vars(Start(Task))

LiveSpec == Spec /\ Fairness

-----------------------------------------------------------------------------
(* Properties *)

\* Only valid names enter the shared state, in groups that are not empty:
\* what update_from_discovery is handed is always a snapshot it expects.
TypeOK ==
    /\ gateway \in Gateways
    /\ models \subseteq Models
    /\ models_by_provider \in Snapshots
    /\ known \subseteq Names
    /\ pc \in [Fetchers ->
                 {"idle", "fetching", "exited", "served"} \cup Updating]
    /\ attempt \in [Fetchers -> 1..Attempts]
    /\ snapshot \in [Fetchers -> Snapshots \cup {None}]
    /\ Reg!TypeOK
    /\ made \subseteq SUBSET Entry
    /\ alone \in [Fetchers -> BOOLEAN]

\* However the fetches interleave, and wherever a request is dropped, each
\* of the maps and the registry as a whole shows one report that the gateway
\* really made, never parts of two.
OnlyReported ==
    LET groups == {GroupsOf(r) : r \in made} \cup {<< >>}
    IN  /\ models_by_provider \in groups
        /\ applied \in groups
        /\ models \in {IdsOf(r) : r \in made} \cup {{}}
        /\ known \in {OwnersOf(r) : r \in made} \cup {{}}

\* A fetch that no other one overlapped leaves exactly the report it was
\* answered with, in all three maps and on its way to the registry, whatever
\* mixture it found there.
UndisturbedRefresh ==
    \A f \in Fetchers :
        pc[f] = "registry" /\ alone[f] =>
            /\ snapshot[f] = GroupsOf(fetched[f])
            /\ models_by_provider = GroupsOf(fetched[f])
            /\ models = IdsOf(fetched[f])
            /\ known = OwnersOf(fetched[f])

\* The shared state and the registry show what the gateway reports.
Reflects(report) ==
    /\ models = IdsOf(report)
    /\ models_by_provider = GroupsOf(report)
    /\ known = OwnersOf(report)
    /\ applied = GroupsOf(report)

\* Failed fetches, races and dropped requests heal: once the gateway settles
\* on an acceptable report, everything comes to show it, and stays so.
Converges ==
    \A g \in Gateways :
        g.status = "ok" /\ ~TooLarge(g.report) =>
            (<>[](gateway = g) /\ <>Serving => <>[]Reflects(g.report))

=============================================================================
