---------------------------- MODULE RefreshProofs ----------------------------
(***************************************************************************)
(* For every number of fetchers and every gateway: the maps never show a   *)
(* mixture of two reports, a fetch that nobody overlaps leaves its own,    *)
(* and what the fetchers do to the registry is what Registry specifies, so *)
(* that what RegistryProofs shows of it holds here.  At the end, the       *)
(* process that runs the refresh task does not leave it in its work.       *)
(***************************************************************************)
EXTENDS Refresh, Lifecycle, TLAPS

RP == INSTANCE RegistryProofs

-----------------------------------------------------------------------------
(* The inductive invariant *)

\* TypeOK but for the registry, whose types RegistryProofs has.
FetchTypes ==
    /\ gateway \in Gateways
    /\ models \subseteq Models
    /\ models_by_provider \in Snapshots
    /\ known \subseteq Names
    /\ pc \in [Fetchers ->
                 {"idle", "fetching", "exited", "served"} \cup Updating]
    /\ attempt \in [Fetchers -> 1..Attempts]
    /\ DOMAIN fetched = Fetchers
    /\ snapshot \in [Fetchers -> Snapshots \cup {None}]
    /\ made \subseteq SUBSET Entry
    /\ alone \in [Fetchers -> BOOLEAN]

\* The report of an update under way is one that the gateway made.
InHand == \A f \in Fetchers : pc[f] \in Updating => fetched[f] \in made

\* What is on its way to the registry was in the shared state.
OnItsWay ==
    \A f \in Fetchers :
        pc[f] = "registry" =>
            snapshot[f] \in {GroupsOf(r) : r \in made} \cup {<< >>}

\* Nobody overlaps a fetch that is alone, so each write it has made stands.
Undisturbed(f) ==
    /\ pc[f] \in Updating
    /\ \A g \in Fetchers \ {f} : pc[g] \notin Updating
    /\ pc[f] # "models" => models = IdsOf(fetched[f])
    /\ pc[f] \in {"owners", "snapshot", "registry"} =>
          models_by_provider = GroupsOf(fetched[f])
    /\ pc[f] \in {"snapshot", "registry"} => known = OwnersOf(fetched[f])
    /\ pc[f] = "registry" => snapshot[f] = GroupsOf(fetched[f])

AloneUndisturbed == \A f \in Fetchers : alone[f] => Undisturbed(f)

IInv ==
    /\ FetchTypes
    /\ OnlyReported
    /\ InHand
    /\ OnItsWay
    /\ AloneUndisturbed

-----------------------------------------------------------------------------
(* Reports *)

\* What a report becomes in the three maps is well formed.
LEMMA ReportTypes ==
    ASSUME NEW r \in SUBSET Entry
    PROVE  /\ IdsOf(r) \subseteq Models
           /\ OwnersOf(r) \subseteq Names
           /\ GroupsOf(r) \in Snapshots
<1>1. IdsOf(r) \subseteq Models
  BY DEF IdsOf, ValidEntries
<1>2. \A e \in ValidEntries(r) : OwnerOf(e) \in Names
  BY RefreshAssumption DEF OwnerOf
<1>3. OwnersOf(r) \subseteq Names
  BY <1>2 DEF OwnersOf
<1>4. ASSUME NEW p \in OwnersOf(r)
      PROVE  {e.id : e \in {x \in ValidEntries(r) : OwnerOf(x) = p}}
                \in (SUBSET Models) \ {{}}
  <2>1. PICK e \in ValidEntries(r) : p = OwnerOf(e)
    BY DEF OwnersOf
  <2>2. \A x \in ValidEntries(r) : x.id \in Models
    BY DEF ValidEntries
  <2>3. QED
    BY <2>1, <2>2
<1>5. GroupsOf(r) \in [OwnersOf(r) -> (SUBSET Models) \ {{}}]
  BY <1>4 DEF GroupsOf
<1>6. QED
  BY <1>1, <1>3, <1>5 DEF Snapshots

LEMMA EmptySnapshot == << >> \in Snapshots
<1>1. << >> \in [{} -> (SUBSET Models) \ {{}}]
  OBVIOUS
<1>2. QED
  BY <1>1 DEF Snapshots

LEMMA GroupsAreSnapshots ==
    ASSUME made \subseteq SUBSET Entry
    PROVE  {GroupsOf(r) : r \in made} \cup {<< >>} \subseteq Snapshots
BY ReportTypes, EmptySnapshot

LEMMA MainIsNoOther == Main \in Fetchers /\ Task # Main /\ Main \notin Admins
BY RefreshAssumption DEF Fetchers

-----------------------------------------------------------------------------
(* The steps *)

LEMMA InitIInv == Init => IInv
<1> SUFFICES ASSUME Init PROVE IInv
  OBVIOUS
<1>1. FetchTypes
  BY EmptySnapshot, RefreshAssumption DEF Init, FetchTypes, Updating
<1>2. OnlyReported
  BY DEF Init, OnlyReported, Reg!Init
<1>3. InHand /\ OnItsWay /\ AloneUndisturbed
  BY DEF Init, InHand, OnItsWay, AloneUndisturbed, Updating
<1>4. QED
  BY <1>1, <1>2, <1>3 DEF IInv

\* The end of a fetch, whatever ends it.
LEMMA FinishStep ==
    ASSUME IInv, NEW f \in Fetchers, NEW label \in {"idle", "exited", "served"},
           Finish(f, label), UNCHANGED <<gateway, made, memory>>, OnlyReported'
    PROVE  IInv'
<1> USE DEF IInv
<1>1. /\ pc' = [pc EXCEPT ![f] = label]
      /\ attempt' = [attempt EXCEPT ![f] = 1]
      /\ fetched' = [fetched EXCEPT ![f] = None]
      /\ snapshot' = [snapshot EXCEPT ![f] = None]
      /\ alone' = [alone EXCEPT ![f] = FALSE]
      /\ UNCHANGED <<gateway, made, models, models_by_provider, known>>
  BY DEF Finish, Goto, memory
<1>2. FetchTypes'
  BY <1>1, RefreshAssumption DEF FetchTypes
<1>3. /\ pc'[f] = label /\ label \notin Updating /\ ~alone'[f]
      /\ \A g \in Fetchers \ {f} :
            /\ pc'[g] = pc[g] /\ fetched'[g] = fetched[g]
            /\ snapshot'[g] = snapshot[g] /\ alone'[g] = alone[g]
  BY <1>1 DEF FetchTypes, Updating
<1>4. InHand' /\ OnItsWay'
  BY <1>1, <1>3 DEF InHand, OnItsWay, Updating
<1>5. AloneUndisturbed'
  <2> SUFFICES ASSUME NEW g \in Fetchers, alone'[g]
               PROVE  Undisturbed(g)'
    BY DEF AloneUndisturbed
  <2>1. g # f /\ Undisturbed(g)
    BY <1>3 DEF AloneUndisturbed
  <2>2. QED
    BY <1>1, <1>3, <2>1 DEF Undisturbed
<1>6. QED
  BY <1>2, <1>4, <1>5

\* An answer: the fetch is alone if no update is under way, and from here on
\* nobody else is.
LEMMA AnsweredStep ==
    ASSUME IInv, NEW f \in Fetchers, Answered(f) PROVE IInv'
<1> USE DEF IInv
<1> DEFINE others == {g \in Fetchers \ {f} : pc[g] \in Updating}
<1>1. /\ pc[f] = "fetching"
      /\ pc' = [pc EXCEPT ![f] = "models"]
      /\ fetched' = [fetched EXCEPT ![f] = gateway.report]
      /\ made' = made \cup {gateway.report}
      /\ alone' = [g \in Fetchers |->
                      IF g = f THEN others = {} ELSE alone[g] /\ g \notin others]
      /\ UNCHANGED <<gateway, models, models_by_provider, known, registry,
                     attempt, snapshot>>
  BY DEF Answered, Goto, memory
<1>2. gateway.report \in SUBSET Entry
  BY RefreshAssumption DEF FetchTypes, Gateway
<1>3. FetchTypes'
  <2>1. alone' \in [Fetchers -> BOOLEAN]
    BY <1>1
  <2>2. QED
    BY <1>1, <1>2, <2>1 DEF FetchTypes, Updating
<1>4. /\ pc'[f] = "models" /\ fetched'[f] = gateway.report
      /\ \A g \in Fetchers \ {f} :
            pc'[g] = pc[g] /\ fetched'[g] = fetched[g]
  BY <1>1 DEF FetchTypes
<1>5. OnlyReported'
  BY <1>1 DEF OnlyReported, registry
<1>6. InHand' /\ OnItsWay'
  BY <1>1, <1>4 DEF InHand, OnItsWay, Updating
<1>7. AloneUndisturbed'
  <2> SUFFICES ASSUME NEW g \in Fetchers, alone'[g]
               PROVE  Undisturbed(g)'
    BY DEF AloneUndisturbed
  <2>1. CASE g = f
    <3>1. \A x \in Fetchers \ {f} : pc'[x] \notin Updating
      BY <1>1, <1>4, <2>1
    <3>2. QED
      BY <1>4, <2>1, <3>1 DEF Undisturbed, Updating
  <2>2. CASE g # f
    <3>1. alone[g] /\ g \notin others
      BY <1>1, <2>2
    <3>2. pc[g] \in Updating
      BY <3>1 DEF AloneUndisturbed, Undisturbed
    <3>3. QED
      BY <2>2, <3>1, <3>2
  <2>3. QED
    BY <2>1, <2>2
<1>8. QED
  BY <1>3, <1>5, <1>6, <1>7

\* A write moves its fetch to the next label, and no other fetch is alone.
LEMMA WriteStep ==
    ASSUME IInv, NEW f \in Fetchers, NEW label \in Updating \ {"registry"},
           pc[f] \in Updating, Goto(f, label), OnlyReported',
           models' \subseteq Models, models_by_provider' \in Snapshots,
           known' \subseteq Names, Undisturbed(f) => Undisturbed(f)',
           UNCHANGED <<gateway, made, registry,
                       attempt, fetched, snapshot, alone>>
    PROVE  IInv'
<1> USE DEF IInv
<1>1. /\ pc' = [pc EXCEPT ![f] = label]
      /\ UNCHANGED <<gateway, made, attempt, fetched, snapshot, alone>>
  BY DEF Goto
<1>2. FetchTypes'
  BY <1>1 DEF FetchTypes
<1>3. pc'[f] = label /\ \A g \in Fetchers \ {f} : pc'[g] = pc[g]
  BY <1>1 DEF FetchTypes
<1>4. InHand' /\ OnItsWay'
  BY <1>1, <1>3 DEF InHand, OnItsWay
<1>5. AloneUndisturbed'
  BY <1>1 DEF AloneUndisturbed, Undisturbed
<1>6. QED
  BY <1>2, <1>4, <1>5

LEMMA WriteModelsStep ==
    ASSUME IInv, NEW f \in Fetchers, WriteModels(f) PROVE IInv'
<1> USE DEF IInv
<1>1. fetched[f] \in made /\ fetched[f] \in SUBSET Entry
  BY DEF WriteModels, InHand, FetchTypes, Updating
<1>2. OnlyReported'
  BY <1>1 DEF WriteModels, OnlyReported, registry
<1>3. Undisturbed(f) => Undisturbed(f)'
  BY DEF WriteModels, Goto, Undisturbed, Updating, FetchTypes
<1>4. models' \subseteq Models /\ UNCHANGED <<models_by_provider, known>>
  BY <1>1, ReportTypes DEF WriteModels
<1>5. QED
  BY <1>2, <1>3, <1>4, WriteStep DEF WriteModels, FetchTypes, Updating

LEMMA WriteGroupsStep ==
    ASSUME IInv, NEW f \in Fetchers, WriteGroups(f) PROVE IInv'
<1> USE DEF IInv
<1>1. fetched[f] \in made /\ fetched[f] \in SUBSET Entry
  BY DEF WriteGroups, InHand, FetchTypes, Updating
<1>2. OnlyReported'
  BY <1>1 DEF WriteGroups, OnlyReported, registry
<1>3. Undisturbed(f) => Undisturbed(f)'
  BY DEF WriteGroups, Goto, Undisturbed, Updating, FetchTypes
<1>4. models_by_provider' \in Snapshots /\ UNCHANGED <<models, known>>
  BY <1>1, ReportTypes DEF WriteGroups
<1>5. QED
  BY <1>2, <1>3, <1>4, WriteStep DEF WriteGroups, FetchTypes, Updating

LEMMA WriteOwnersStep ==
    ASSUME IInv, NEW f \in Fetchers, WriteOwners(f) PROVE IInv'
<1> USE DEF IInv
<1>1. fetched[f] \in made /\ fetched[f] \in SUBSET Entry
  BY DEF WriteOwners, InHand, FetchTypes, Updating
<1>2. OnlyReported'
  BY <1>1 DEF WriteOwners, OnlyReported, registry
<1>3. Undisturbed(f) => Undisturbed(f)'
  BY DEF WriteOwners, Goto, Undisturbed, Updating, FetchTypes
<1>4. known' \subseteq Names /\ UNCHANGED <<models, models_by_provider>>
  BY <1>1, ReportTypes DEF WriteOwners
<1>5. QED
  BY <1>2, <1>3, <1>4, WriteStep DEF WriteOwners, FetchTypes, Updating

\* A snapshot is what is there; alone, it is what the fetch has written.
LEMMA TakeSnapshotStep ==
    ASSUME IInv, NEW f \in Fetchers, TakeSnapshot(f) PROVE IInv'
<1> USE DEF IInv
<1>1. /\ pc[f] = "snapshot"
      /\ UNCHANGED <<gateway, made, memory, registry>>
  BY DEF TakeSnapshot
<1>2. OnlyReported'
  BY <1>1 DEF OnlyReported, memory, registry
<1>3. CASE f = Main
  BY <1>1, <1>2, <1>3, FinishStep DEF TakeSnapshot
<1>4. CASE f # Main
  <2>1. /\ snapshot' = [snapshot EXCEPT ![f] = models_by_provider]
        /\ pc' = [pc EXCEPT ![f] = "registry"]
        /\ UNCHANGED <<attempt, fetched, alone>>
        /\ UNCHANGED <<gateway, made, models, models_by_provider, known>>
    BY <1>1, <1>4 DEF TakeSnapshot, Goto, memory
  <2>2. FetchTypes'
    BY <2>1 DEF FetchTypes, Updating
  <2>3. /\ pc'[f] = "registry" /\ snapshot'[f] = models_by_provider
        /\ \A g \in Fetchers \ {f} :
              pc'[g] = pc[g] /\ snapshot'[g] = snapshot[g]
    BY <2>1 DEF FetchTypes
  <2>4. InHand'
    BY <1>1, <2>1, <2>3 DEF InHand, Updating
  <2>5. OnItsWay'
    BY <2>1, <2>3 DEF OnItsWay, OnlyReported
  <2>6. AloneUndisturbed'
    <3> SUFFICES ASSUME NEW g \in Fetchers, alone[g]
                 PROVE  Undisturbed(g)'
      BY <2>1 DEF AloneUndisturbed
    <3>1. Undisturbed(g) /\ g = f
      BY <1>1 DEF AloneUndisturbed, Undisturbed, Updating
    <3>2. QED
      BY <1>1, <2>1, <2>3, <3>1 DEF Undisturbed, Updating
  <2>7. QED
    BY <1>2, <2>2, <2>4, <2>5, <2>6
<1>5. QED
  BY <1>3, <1>4

\* update_from_discovery is handed a report, or nothing at all.
LEMMA UpdateRegistryStep ==
    ASSUME IInv, NEW f \in Fetchers, UpdateRegistry(f)
    PROVE  IInv' /\ Reg!Next
<1> USE DEF IInv
<1>1. /\ pc[f] = "registry" /\ Finish(f, "idle")
      /\ Reg!UpdateFromDiscovery(snapshot[f])
      /\ UNCHANGED <<gateway, made, memory>>
  BY DEF UpdateRegistry
<1>2. applied' = snapshot[f]
  BY <1>1 DEF Reg!UpdateFromDiscovery
<1>3. OnlyReported'
  BY <1>1, <1>2 DEF OnlyReported, OnItsWay, memory
<1>4. snapshot[f] \in Snapshots
  BY <1>1, GroupsAreSnapshots DEF OnItsWay, FetchTypes
<1>5. QED
  BY <1>1, <1>3, <1>4, FinishStep DEF Reg!Next

\* Nothing is known of a fetch that has not been answered.
LEMMA QuietStep ==
    ASSUME IInv, NEW f \in Fetchers, Start(f) \/ Retry(f) \/ GiveUp(f) \/ Drop(f)
    PROVE  IInv'
<1> USE DEF IInv
<1>1. UNCHANGED <<gateway, made, memory, registry>> /\ OnlyReported'
  BY DEF Start, Retry, GiveUp, Drop, OnlyReported, memory, registry
<1>2. CASE Start(f)
  <2>1. /\ pc' = [pc EXCEPT ![f] = "fetching"] /\ pc[f] = "idle"
        /\ UNCHANGED <<attempt, fetched, snapshot, alone,
                       models, models_by_provider, known>>
    BY <1>2 DEF Start, Goto, memory
  <2>2. FetchTypes'
    BY <1>1, <2>1 DEF FetchTypes
  <2>3. pc'[f] = "fetching" /\ \A g \in Fetchers \ {f} : pc'[g] = pc[g]
    BY <2>1 DEF FetchTypes
  <2>4. InHand' /\ OnItsWay'
    BY <1>1, <2>1, <2>3 DEF InHand, OnItsWay, Updating
  <2>5. AloneUndisturbed'
    BY <2>1, <2>3 DEF AloneUndisturbed, Undisturbed, Updating
  <2>6. QED
    BY <1>1, <2>2, <2>4, <2>5
<1>3. CASE Retry(f)
  <2>1. /\ attempt[f] < Attempts
        /\ attempt' = [attempt EXCEPT ![f] = @ + 1]
        /\ UNCHANGED <<pc, fetched, snapshot, alone,
                       models, models_by_provider, known>>
    BY <1>3 DEF Retry, memory
  <2>2. attempt' \in [Fetchers -> 1..Attempts]
    <3>1. attempt[f] + 1 \in 1..Attempts
      BY <2>1, RefreshAssumption DEF FetchTypes
    <3>2. QED
      BY <2>1, <3>1 DEF FetchTypes
  <2>3. FetchTypes'
    BY <1>1, <2>1, <2>2 DEF FetchTypes
  <2>4. InHand' /\ OnItsWay' /\ AloneUndisturbed'
    BY <1>1, <2>1 DEF InHand, OnItsWay, AloneUndisturbed, Undisturbed
  <2>5. QED
    BY <1>1, <2>3, <2>4
<1>4. CASE GiveUp(f)
  BY <1>1, <1>4, FinishStep DEF GiveUp
<1>5. CASE Drop(f)
  BY <1>1, <1>5, FinishStep DEF Drop
<1>6. QED
  BY <1>2, <1>3, <1>4, <1>5

\* Only UpdateRegistry touches the registry, and as Registry says.
LEMMA NextStep ==
    ASSUME IInv, [Next]_vars
    PROVE  IInv' /\ [Reg!Next]_(Reg!vars)
<1>1. ASSUME NEW f \in Fetchers,
             Start(f) \/ Retry(f) \/ GiveUp(f) \/ Drop(f) \/ Answered(f)
             \/ WriteModels(f) \/ WriteGroups(f) \/ WriteOwners(f)
             \/ TakeSnapshot(f)
      PROVE  IInv' /\ UNCHANGED registry
  <2>1. IInv'
    BY <1>1, QuietStep, AnsweredStep, WriteModelsStep, WriteGroupsStep,
       WriteOwnersStep, TakeSnapshotStep
  <2>2. UNCHANGED registry
    BY <1>1 DEF Start, Retry, GiveUp, Drop, Answered, WriteModels,
                WriteGroups, WriteOwners, TakeSnapshot
  <2>3. QED
    BY <2>1, <2>2
<1>2. ASSUME NEW f \in Fetchers, UpdateRegistry(f) PROVE IInv' /\ Reg!Next
  BY <1>2, UpdateRegistryStep
<1>3. CASE ChangeGateway
  <2>1. /\ gateway' \in Gateways /\ UNCHANGED made
        /\ UNCHANGED <<models, models_by_provider, known>>
        /\ UNCHANGED <<pc, attempt, fetched, snapshot, alone>>
        /\ UNCHANGED registry
    BY <1>3 DEF ChangeGateway, memory, fetch
  <2>2. IInv'
    BY <2>1 DEF IInv, FetchTypes, OnlyReported, InHand, OnItsWay,
                AloneUndisturbed, Undisturbed, registry
  <2>3. QED
    BY <2>1, <2>2 DEF Reg!vars, registry
<1>4. CASE UNCHANGED vars
  BY <1>4 DEF IInv, vars, memory, registry, fetch, FetchTypes, OnlyReported,
              InHand, OnItsWay, AloneUndisturbed, Undisturbed, Reg!vars
<1>5. QED
  BY <1>1, <1>2, <1>3, <1>4 DEF Next, Fetch, Reg!vars, registry

LEMMA Invariance == Spec => []IInv
BY InitIInv, NextStep, PTL DEF Spec

-----------------------------------------------------------------------------
(* The theorems *)

\* The maps and the registry each show one report, never parts of two.
THEOREM NoMixtures == Spec => []OnlyReported
BY Invariance, PTL DEF IInv

\* A fetch that no other one overlapped leaves exactly its own report.
THEOREM LoneFetchWins == Spec => []UndisturbedRefresh
<1>1. IInv => UndisturbedRefresh
  BY DEF IInv, AloneUndisturbed, Undisturbed, UndisturbedRefresh
<1>2. QED
  BY <1>1, Invariance, PTL

\* Whoever fetches and whatever goes wrong, the registry only ever takes the
\* steps of Registry: every snapshot it is handed is one it expects.
THEOREM ImplementsRegistry == Spec => Reg!Spec
<1>1. Init => Reg!Init
  BY DEF Init
<1>2. QED
  BY <1>1, Invariance, NextStep, PTL DEF Spec, Reg!Spec

-----------------------------------------------------------------------------
(* What RegistryProofs shows *)

\* Refresh and RegistryProofs each have an instance of the registry; it is
\* the same one, definition by definition.
LEMMA SameNames ==
    /\ Reg!StaticProviders = RP!StaticProviders
    /\ \A s : Reg!Groups(s) = RP!Groups(s)
    /\ \A s : Reg!Retained(s) = RP!Retained(s)
BY DEF Reg!StaticProviders, RP!StaticProviders,
       Reg!EnabledEntries, RP!EnabledEntries,
       Reg!DisabledStaticProviders, RP!DisabledStaticProviders,
       Reg!Groups, RP!Groups, Reg!Retained, RP!Retained

LEMMA SameConfig ==
    /\ \A p : Reg!ConfigProvider(p) = RP!ConfigProvider(p)
    /\ Reg!ConfigModels = RP!ConfigModels
    /\ \A m : Reg!ConfigRoute(m) = RP!ConfigRoute(m)
BY DEF Reg!ConfigProvider, RP!ConfigProvider, Reg!EntryOf, RP!EntryOf,
       Reg!ConfigModels, RP!ConfigModels, Reg!ConfigRoute, RP!ConfigRoute,
       Reg!Listing, RP!Listing, Reg!EnabledEntries, RP!EnabledEntries

LEMMA SameInit == Reg!Init <=> RP!Init
BY SameConfig, SameNames DEF Reg!Init, RP!Init

LEMMA SameUpdate ==
    ASSUME NEW s
    PROVE  Reg!UpdateFromDiscovery(s) <=> RP!UpdateFromDiscovery(s)
<1>1. Reg!RefreshedProviders(s) = RP!RefreshedProviders(s)
  <2>1. \A ms : Reg!AutoProvider(ms) = RP!AutoProvider(ms)
    BY DEF Reg!AutoProvider, RP!AutoProvider,
           Reg!InferredStyle, RP!InferredStyle,
           Reg!Cardinality, RP!Cardinality
  <2>2. \A p : Reg!RefreshedProvider(s, p) = RP!RefreshedProvider(s, p)
    BY <2>1, SameNames DEF Reg!RefreshedProvider, RP!RefreshedProvider
  <2>3. QED
    BY <2>2, SameNames DEF Reg!RefreshedProviders, RP!RefreshedProviders
<1>2. \A rank : Reg!LoopRoutes(s, rank) = RP!LoopRoutes(s, rank)
  <2>1. /\ Reg!KeptModels(s) = RP!KeptModels(s)
        /\ Reg!DiscoveredModels(s) = RP!DiscoveredModels(s)
        /\ \A m : Reg!Listers(s, m) = RP!Listers(s, m)
    BY SameNames DEF Reg!KeptModels, RP!KeptModels, Reg!DiscoveredModels,
                     RP!DiscoveredModels, Reg!Listers, RP!Listers
  <2>2. \A rank, m : Reg!FirstLister(s, rank, m) = RP!FirstLister(s, rank, m)
    BY <2>1 DEF Reg!FirstLister, RP!FirstLister
  <2>3. QED
    BY <2>1, <2>2 DEF Reg!LoopRoutes, RP!LoopRoutes
<1>3. /\ \A P, R : Reg!ManualEntries(P, R) = RP!ManualEntries(P, R)
      /\ \A P, R : Reg!Routable(P, R) = RP!Routable(P, R)
      /\ \A P, R : Reg!WithManual(P, R) = RP!WithManual(P, R)
  <2>1. \A P : Reg!ListedModels(P) = RP!ListedModels(P)
    BY DEF Reg!ListedModels, RP!ListedModels
  <2>2. \A P, R : Reg!ManualEntries(P, R) = RP!ManualEntries(P, R)
    BY <2>1 DEF Reg!ManualEntries, RP!ManualEntries
  <2>3. \A P, R : Reg!Routable(P, R) = RP!Routable(P, R)
    BY <2>1 DEF Reg!Routable, RP!Routable, Reg!Restrict, RP!Restrict
  <2>4. \A P, R : Reg!WithManual(P, R) = RP!WithManual(P, R)
    BY DEF Reg!WithManual, RP!WithManual
  <2>5. QED
    BY <2>2, <2>3, <2>4
<1>4. Reg!Orders(Reg!Groups(s)) = RP!Orders(RP!Groups(s))
  BY SameNames DEF Reg!Orders, RP!Orders, Reg!IsInjective, RP!IsInjective,
                   Reg!Cardinality, RP!Cardinality
<1>5. QED
  BY <1>1, <1>2, <1>3, <1>4 DEF Reg!UpdateFromDiscovery, RP!UpdateFromDiscovery

LEMMA SameSpec == Reg!Spec => RP!Spec
<1>1. [Reg!Next]_(Reg!vars) => [RP!Next]_(RP!vars)
  BY SameUpdate DEF Reg!Next, RP!Next, Reg!vars, RP!vars
<1>2. QED
  BY <1>1, SameInit, PTL DEF Reg!Spec, RP!Spec

\* What Registry assumes holds here.
LEMMA RegistryMayAssume ==
    /\ Config \in Seq(RP!ConfigEntry)
    /\ \A i, j \in DOMAIN Config :
          Config[i].name = Config[j].name => i = j
    /\ \A s \in Snapshots :
          /\ s \in [DOMAIN s -> (SUBSET Models) \ {{}}]
          /\ DOMAIN s \subseteq Names
<1>1. RP!ConfigEntry = Reg!ConfigEntry
  BY DEF RP!ConfigEntry, Reg!ConfigEntry, RP!Styles, Reg!Styles
<1>2. QED
  BY <1>1, RegistryAssumption DEF Snapshots

\* Only well-formed names, models and groups are ever in the shared state,
\* in the hands of a fetch or in the registry.
THEOREM TypeCorrect == Spec => []TypeOK
<1>1. RP!TypeOK => Reg!TypeOK
  BY DEF RP!TypeOK, Reg!TypeOK, RP!Provider, Reg!Provider,
         RP!Styles, Reg!Styles
<1>2. IInv /\ Reg!TypeOK => TypeOK
  BY DEF IInv, FetchTypes, TypeOK
<1>3. RP!Spec => []RP!TypeOK
  BY RP!TypeCorrect, RegistryMayAssume
<1>4. QED
  BY <1>1, <1>2, <1>3, Invariance, ImplementsRegistry, SameSpec, PTL

\* However the fetches race and whoever is dropped, the two maps of the
\* registry agree: the listed models are the routed ones, and each route
\* leads to a provider.
THEOREM RoutesStaySound == Spec => []Reg!RoutesMatchProviders
<1>1. RP!RoutesMatchProviders => Reg!RoutesMatchProviders
  BY DEF RP!RoutesMatchProviders, Reg!RoutesMatchProviders,
         RP!NoDanglingRoute, Reg!NoDanglingRoute, RP!ListedModelsRoutable,
         Reg!ListedModelsRoutable, RP!ListedModels, Reg!ListedModels
<1>2. RP!Spec => []RP!RoutesMatchProviders
  BY RP!RoutesSound, RegistryMayAssume
<1>3. QED
  BY <1>1, <1>2, ImplementsRegistry, SameSpec, PTL

\* And what the user configured stays as it was configured.
THEOREM ConfigStaysKept == Spec => []Reg!StaticConfigKept
<1>1. RP!StaticConfigKept => Reg!StaticConfigKept
  BY SameConfig, SameNames DEF RP!StaticConfigKept, Reg!StaticConfigKept
<1>2. RP!Spec => []RP!StaticConfigKept
  BY RP!ConfigWins, RegistryMayAssume
<1>3. QED
  BY <1>1, <1>2, ImplementsRegistry, SameSpec, PTL

-----------------------------------------------------------------------------
(* The process that runs the refresh task, and waits for it at its end (Lifecycle) *)

\* Main goes by its places in turn: the server has drained when it joins, and
\* the tasks it has joined have ended.
InOrder ==
    /\ joined \in 0..3
    /\ status \in [Tasks -> Ended \cup {"none", "spawned", "waiting", "working"}]
    /\ place \in {"draining", "joining"} => notified
    /\ place = "joining" => open = {}
    /\ place # "joining" => joined = 0
    /\ \A k \in 1..joined : status[JoinOrder[k]] \in Ended
    /\ exit = "ok" => place = "joining" /\ joined = 3

\* A task that has ended stays so once main joins the tasks.
LEMMA TaskStep ==
    ASSUME InOrder, NEW t \in Tasks, NEW v,
           v \in Ended \/
              (v \in {"waiting", "working"} /\ status[t] \notin Ended),
           Become(t, v), UNCHANGED <<place, joined, exit, open, notified>>
    PROVE  InOrder'
<1>1. status' = [status EXCEPT ![t] = v]
  BY DEF Become
<1>2. status' \in [Tasks -> Ended \cup {"none", "spawned", "waiting", "working"}]
  BY <1>1 DEF InOrder
<1>3. \A k \in 1..joined : status'[JoinOrder[k]] \in Ended
  <2>1. \A x \in Tasks :
           status[x] \in Ended => status'[x] \in Ended
    BY <1>1 DEF InOrder
  <2>2. \A k \in 1..3 : JoinOrder[k] \in Tasks
    BY DEF JoinOrder, Tasks
  <2>3. joined \in 0..3 /\ \A k \in 1..joined : k \in 1..3
    BY DEF InOrder
  <2>4. QED
    BY <2>1, <2>2, <2>3 DEF InOrder
<1>4. QED
  BY <1>2, <1>3 DEF InOrder

LEMMA ProcessStep == InOrder /\ [ProcessNext]_process => InOrder'
<1> SUFFICES ASSUME InOrder, [ProcessNext]_process PROVE InOrder'
  OBVIOUS
<1> USE DEF InOrder
<1>1. CASE CreateRouter
  <2>1. /\ place' = "binding" /\ joined' = joined /\ joined = 0 /\ exit' = exit
        /\ status' = [t \in Tasks |-> "spawned"] /\ exit = "none"
    BY <1>1 DEF CreateRouter, Running
  <2>2. QED
    BY <2>1
<1>2. CASE Fail
  BY <1>2 DEF Fail, main, signals
<1>3. CASE Serve
  BY <1>3 DEF Serve, signals, Running
<1>4. CASE Install
  BY <1>4 DEF Install, main
<1>5. CASE Drain
  BY <1>5 DEF Drain, signals, Running
<1>6. CASE Drained
  BY <1>6 DEF Drained, signals, Running
<1>7. CASE Join
  <2>1. /\ joined < 3 /\ joined' = joined + 1 /\ place = "joining" /\ place' = place
        /\ status[JoinOrder[joined + 1]] \in Ended
        /\ UNCHANGED <<exit, status, open, notified>> /\ exit = "none"
    BY <1>7 DEF Join, JoinOrder, Running, signals
  <2>2. \A k \in 1..(joined + 1) : k \in 1..joined \/ k = joined + 1
    OBVIOUS
  <2>3. QED
    BY <2>1, <2>2
<1>8. CASE Return
  BY <1>8 DEF Return, JoinOrder, main, signals
<1>9. ASSUME NEW t \in Tasks,
             FirstPoll(t) \/ Tick(t) \/ Rest(t) \/ Stop(t)
      PROVE  InOrder'
  <2>1. UNCHANGED <<place, joined, open, notified>>
    BY <1>9 DEF FirstPoll, Tick, Rest, Stop,
                main, signals
  <2>2. CASE UNCHANGED status /\ exit' = "aborted"
    BY <2>1, <2>2
  <2>3. CASE ~(UNCHANGED status /\ exit' = "aborted")
    <3>1. exit' = exit
      BY <1>9, <2>3 DEF FirstPoll, Tick, Rest, Stop
    <3>2. PICK v : /\ Become(t, v)
                   /\ v \in Ended \/
                         (v \in {"waiting", "working"} /\ status[t] \notin Ended)
      BY <1>9, <2>3 DEF FirstPoll, Tick, Rest, Stop,
                        Ended
    <3>3. QED
      BY <2>1, <3>1, <3>2, TaskStep
  <2>4. QED
    BY <2>2, <2>3
<1>10. ASSUME NEW r \in Requests, Accept(r) \/ Answer(r)
       PROVE  InOrder'
  BY <1>10 DEF Accept, Answer, main, signals
<1>11. CASE Signal
  BY <1>11 DEF Signal, main
<1>12. CASE UNCHANGED process
  BY <1>12 DEF process, main, signals
<1>13. QED
  BY <1>1, <1>2, <1>3, <1>4, <1>5, <1>6, <1>7, <1>8, <1>9, <1>10, <1>11, <1>12
     DEF ProcessNext, MainStep

\* The process reports success only when a signal has asked it to stop, when
\* every request is answered and when no task is in its work, whatever the
\* setup, the signals and the requests: no refresh is cut off half-written.
THEOREM ExitIsOrderly == ProcessSpec => []OrderlyExit
<1>1. ProcessInit => InOrder
  BY DEF ProcessInit, InOrder
<1>2. ASSUME InOrder PROVE OrderlyExit
  <2> SUFFICES ASSUME exit = "ok"
               PROVE  notified /\ open = {} /\ AllEnded
    BY DEF OrderlyExit
  <2>1. place = "joining" /\ joined = 3
    BY <1>2 DEF InOrder
  <2>2. \A k \in 1..3 : status[JoinOrder[k]] \in Ended
    BY <1>2, <2>1 DEF InOrder
  <2>3. AllEnded
    BY <2>2 DEF AllEnded, Tasks, JoinOrder
  <2>4. QED
    BY <1>2, <2>1, <2>3 DEF InOrder
<1>3. QED
  BY <1>1, <1>2, ProcessStep, PTL DEF ProcessSpec

LEMMA ProcessTypes ==
    ASSUME InOrder, ProcessTypeOK, [ProcessNext]_process PROVE ProcessTypeOK'
<1> USE DEF ProcessTypeOK, main, signals
<1>1. CASE CreateRouter
  BY <1>1 DEF CreateRouter, Running, Ended
<1>2. CASE Fail
  BY <1>2 DEF Fail
<1>3. CASE Serve
  BY <1>3 DEF Serve
<1>4. CASE Install
  BY <1>4 DEF Install
<1>5. CASE Drain
  BY <1>5 DEF Drain
<1>6. CASE Drained
  BY <1>6 DEF Drained, InOrder
<1>7. CASE Join
  BY <1>7 DEF Join, JoinOrder
<1>8. CASE Return
  BY <1>8 DEF Return
<1>9. ASSUME NEW t \in Tasks, FirstPoll(t) \/ Tick(t) \/ Rest(t) \/ Stop(t)
      PROVE  ProcessTypeOK'
  BY <1>9 DEF FirstPoll, Tick, Rest, Stop, Become, Ended
<1>10. ASSUME NEW r \in Requests, Accept(r) \/ Answer(r) PROVE ProcessTypeOK'
  <2>1. UNCHANGED <<setup, place, joined, exit, status, sent, handling, notified,
                    cancelled>>
    BY <1>10 DEF Accept, Answer
  <2>2. open' \subseteq Requests
    BY <1>10 DEF Accept, Answer
  <2>3. QED
    BY <2>1, <2>2
<1>11. CASE Signal
  <2>1. /\ UNCHANGED <<setup, place, joined, status, open, handling, cancelled>>
        /\ exit' \in {exit, "killed"}
    BY <1>11 DEF Signal
  <2>2. sent' \in 0..MaxSignals
    BY <1>11, LifecycleAssumption DEF Signal
  <2>3. notified' \in BOOLEAN /\ (notified => notified')
    BY <1>11 DEF Signal
  <2>4. QED
    BY <2>1, <2>2, <2>3
<1>12. CASE UNCHANGED process
  BY <1>12 DEF process
<1>13. QED
  BY <1>1, <1>2, <1>3, <1>4, <1>5, <1>6, <1>7, <1>8, <1>9, <1>10, <1>11, <1>12
     DEF ProcessNext, MainStep

\* Every variable of the process keeps its type; a task has stopped only after
\* the token was cancelled, and the token is cancelled only after a signal.
THEOREM ProcessTypeCorrect == ProcessSpec => []ProcessTypeOK
<1>1. ProcessInit => ProcessTypeOK
  <2> SUFFICES ASSUME ProcessInit PROVE ProcessTypeOK
    OBVIOUS
  <2>1. setup \in Setup /\ sent \in 0..MaxSignals /\ joined \in 0..Len(JoinOrder)
    BY LifecycleAssumption DEF ProcessInit, JoinOrder
  <2>2. status \in [Tasks -> {"none"}] /\ \A t \in Tasks : status[t] = "none"
    BY DEF ProcessInit
  <2>3. {handling, notified, cancelled} \subseteq BOOLEAN
    BY DEF ProcessInit
  <2>4. QED
    BY <2>1, <2>2, <2>3 DEF ProcessInit, ProcessTypeOK
<1>2. ProcessInit => InOrder
  BY DEF ProcessInit, InOrder
<1>3. QED
  BY <1>1, <1>2, ProcessStep, ProcessTypes, PTL DEF ProcessSpec

=============================================================================
