--------------------------- MODULE RegistryProofs ---------------------------
(***************************************************************************)
(* The routing table keeps its promises for every configuration and every  *)
(* sequence of snapshots: the invariants of Registry, proved together      *)
(* because each retain of update_from_discovery leans on another one.      *)
(***************************************************************************)
EXTENDS Registry, TLAPS

Data == INSTANCE DataLemmas

-----------------------------------------------------------------------------
(* The configuration *)

\* A name of the configuration has exactly one entry.
LEMMA EntryOfName ==
    ASSUME NEW i \in DOMAIN Config
    PROVE  EntryOf(Config[i].name) = i
BY ConfigAssumption DEF EntryOf

\* The configuration sends a model to an enabled entry that lists it.
LEMMA ConfigRouteLists ==
    ASSUME NEW m \in ConfigModels
    PROVE  \E i \in EnabledEntries :
              m \in Config[i].models /\ ConfigRoute(m) = Config[i].name
<1>1. Listing(m) \subseteq 1..Len(Config) /\ Len(Config) \in Nat
  BY ConfigAssumption DEF Listing, EnabledEntries
<1>2. \E i \in Listing(m) : \A j \in Listing(m) : j <= i
  BY <1>1, Data!GreatestNatural DEF ConfigModels
<1>3. QED
  BY <1>2 DEF Listing, ConfigRoute

LEMMA ConfigTypes ==
    /\ StaticProviders \subseteq Names
    /\ StaticProviders \cap DisabledStaticProviders = {}
    /\ \A p \in StaticProviders : ConfigProvider(p) \in Provider
    /\ \A m \in ConfigModels :
          /\ ConfigRoute(m) \in StaticProviders
          /\ m \in ConfigProvider(ConfigRoute(m)).models
<1>1. \A i \in DOMAIN Config : Config[i] \in ConfigEntry
  BY ConfigAssumption
<1>2. StaticProviders \subseteq Names
  BY <1>1 DEF StaticProviders, EnabledEntries, ConfigEntry
<1>3. StaticProviders \cap DisabledStaticProviders = {}
  BY ConfigAssumption
  DEF StaticProviders, DisabledStaticProviders, EnabledEntries
<1>4. ASSUME NEW p \in StaticProviders
      PROVE  ConfigProvider(p) \in Provider
  <2>1. PICK i \in EnabledEntries : p = Config[i].name
    BY DEF StaticProviders
  <2>2. EntryOf(p) = i
    BY <2>1, EntryOfName DEF EnabledEntries
  <2>3. QED
    BY <1>1, <2>2 DEF ConfigProvider, Provider, ConfigEntry, EnabledEntries
<1>5. ASSUME NEW m \in ConfigModels
      PROVE  /\ ConfigRoute(m) \in StaticProviders
             /\ m \in ConfigProvider(ConfigRoute(m)).models
  <2>1. PICK i \in EnabledEntries :
            m \in Config[i].models /\ ConfigRoute(m) = Config[i].name
    BY ConfigRouteLists
  <2>2. EntryOf(ConfigRoute(m)) = i
    BY <2>1, EntryOfName DEF EnabledEntries
  <2>3. QED
    BY <2>1, <2>2 DEF StaticProviders, ConfigProvider
<1>6. QED
  BY <1>2, <1>3, <1>4, <1>5

\* What a provider of the configuration lists has a configured route.
LEMMA ConfigProviderModels ==
    ASSUME NEW p \in StaticProviders
    PROVE  ConfigProvider(p).models \subseteq ConfigModels
<1> SUFFICES ASSUME NEW m \in ConfigProvider(p).models
             PROVE  m \in ConfigModels
  OBVIOUS
<1>1. PICK i \in EnabledEntries : p = Config[i].name
  BY DEF StaticProviders
<1>2. m \in Config[i].models
  BY <1>1, EntryOfName DEF ConfigProvider, EnabledEntries
<1>3. Config[i] \in ConfigEntry
  BY ConfigAssumption DEF EnabledEntries
<1>4. m \in Models
  BY <1>2, <1>3 DEF ConfigEntry
<1>5. QED
  BY <1>2, <1>4 DEF ConfigModels, Listing

\* In any iteration order some group that lists the model comes first.
LEMMA FirstListerLists ==
    ASSUME NEW s \in Snapshots, NEW rank \in Orders(Groups(s)),
           NEW m \in DiscoveredModels(s)
    PROVE  FirstLister(s, rank, m) \in Listers(s, m)
<1> DEFINE T == {rank[p] : p \in Listers(s, m)}
<1>1. T # {} /\ T \subseteq Nat
  <2>1. rank \in [Groups(s) -> 1..Cardinality(Groups(s))]
    BY DEF Orders
  <2>2. Listers(s, m) \subseteq Groups(s) /\ Listers(s, m) # {}
    BY DEF Listers, DiscoveredModels
  <2>3. QED
    BY <2>1, <2>2
<1>2. PICK x \in T : \A y \in T : x <= y
  BY <1>1, Data!LeastNatural
<1>3. \E p \in Listers(s, m) : \A q \in Listers(s, m) : rank[p] <= rank[q]
  BY <1>2
<1>4. QED
  BY <1>3 DEF FirstLister

-----------------------------------------------------------------------------
(* The inductive invariant *)

\* None of the parts is inductive alone: a route survives the first retain
\* because its provider is static or active, is sound because the discovery
\* loop gave every group a provider, and the last retain keeps the routes of
\* the configuration only because their providers were left untouched.
IInv ==
    /\ TypeOK
    /\ StaticConfigKept
    /\ DisabledNeverServed
    /\ NoDanglingRoute
    /\ ListedModelsRoutable
    /\ AutoProvidersMirrorSnapshot
    /\ applied \in Snapshots \cup {<< >>}

LEMMA InitIInv == Init => IInv
<1> SUFFICES ASSUME Init PROVE IInv
  OBVIOUS
<1>0. /\ DOMAIN providers = StaticProviders
      /\ \A p \in StaticProviders : providers[p] = ConfigProvider(p)
      /\ DOMAIN model_to_provider = ConfigModels
      /\ \A m \in ConfigModels : model_to_provider[m] = ConfigRoute(m)
      /\ applied = << >>
  BY DEF Init
<1>1. TypeOK
  <2>1. providers \in [DOMAIN providers -> Provider]
    BY ConfigTypes DEF Init
  <2>2. model_to_provider \in [DOMAIN model_to_provider -> Names]
    BY ConfigTypes DEF Init
  <2>3. QED
    BY <1>0, <2>1, <2>2, ConfigTypes DEF TypeOK, ConfigModels
<1>2. StaticConfigKept
  BY <1>0 DEF StaticConfigKept
<1>3. DisabledNeverServed
  BY <1>0, ConfigTypes DEF DisabledNeverServed
<1>4. NoDanglingRoute
  <2> SUFFICES ASSUME NEW m \in ConfigModels
               PROVE  /\ model_to_provider[m] \in DOMAIN providers
                      /\ m \in ListedModels(providers)
    BY <1>0 DEF NoDanglingRoute
  <2>1. model_to_provider[m] \in StaticProviders
    BY <1>0, ConfigTypes
  <2>2. m \in providers[model_to_provider[m]].models
    BY <1>0, <2>1, ConfigTypes
  <2>3. QED
    BY <1>0, <2>1, <2>2 DEF ListedModels
<1>5. ListedModelsRoutable
  BY <1>0, ConfigProviderModels DEF ListedModelsRoutable, ListedModels
<1>6. AutoProvidersMirrorSnapshot
  BY <1>0 DEF AutoProvidersMirrorSnapshot, Groups
<1>7. QED
  BY <1>0, <1>1, <1>2, <1>3, <1>4, <1>5, <1>6 DEF IInv

\* What the discovery loop leaves: a typed table with the configuration's
\* providers intact, one provider per group that is not disabled, and routes,
\* all of them to providers, for every model that anybody lists.
LEMMA LoopFacts ==
    ASSUME IInv, NEW s \in Snapshots, NEW rank \in Orders(Groups(s)),
           NEW P, P = RefreshedProviders(s),
           NEW L, L = LoopRoutes(s, rank)
    PROVE  /\ DOMAIN P \subseteq Names
           /\ P \in [DOMAIN P -> Provider]
           /\ \A p \in StaticProviders :
                 p \in DOMAIN P /\ P[p] = ConfigProvider(p)
           /\ DOMAIN P \ StaticProviders = Groups(s) \ StaticProviders
           /\ \A p \in Groups(s) \ StaticProviders : P[p].models = s[p]
           /\ DOMAIN P \cap DisabledStaticProviders = {}
           /\ DOMAIN P \subseteq Retained(s)
           /\ \A m \in DOMAIN L : L[m] \in DOMAIN P
           /\ \A m \in KeptModels(s) :
                 m \in DOMAIN L /\ L[m] = model_to_provider[m]
           /\ ConfigModels \subseteq KeptModels(s)
           /\ ListedModels(P) \subseteq DOMAIN L
<1> USE DEF IInv
<1>1. /\ DOMAIN s \subseteq Names
      /\ \A p \in DOMAIN s : s[p] \in SUBSET Models
      /\ Groups(s) \subseteq DOMAIN s
      /\ StaticProviders \cap Groups(s) \subseteq DOMAIN providers
  BY SnapshotsAssumption DEF Groups, StaticConfigKept
<1>2. /\ DOMAIN P = (DOMAIN providers \cap Retained(s)) \cup Groups(s)
      /\ \A p \in DOMAIN P : P[p] = RefreshedProvider(s, p)
  BY DEF RefreshedProviders
<1>3. DOMAIN P \subseteq Names
  BY <1>1, <1>2 DEF TypeOK
<1>4. ASSUME NEW p \in StaticProviders
      PROVE  p \in DOMAIN P /\ P[p] = ConfigProvider(p)
  BY <1>2 DEF StaticConfigKept, Retained, RefreshedProvider
<1>5. DOMAIN P \ StaticProviders = Groups(s) \ StaticProviders
  BY <1>2 DEF Retained, Groups, DisabledNeverServed
<1>6. ASSUME NEW p \in Groups(s) \ StaticProviders
      PROVE  P[p].models = s[p] /\ P[p] \in Provider
  <2>1. CASE p \notin DOMAIN providers
    <3>1. P[p] = AutoProvider(s[p])
      BY <1>2, <2>1 DEF RefreshedProvider
    <3>2. s[p] \in SUBSET Models
      BY <1>1
    <3>3. QED
      BY <3>1, <3>2 DEF AutoProvider, InferredStyle, Provider, Styles
  <2>2. CASE p \in DOMAIN providers
    <3>1. P[p] = [providers[p] EXCEPT !.models = s[p]]
      BY <1>2, <2>2 DEF RefreshedProvider
    <3>2. s[p] \in SUBSET Models /\ providers[p] \in Provider
      BY <1>1, <2>2 DEF TypeOK
    <3>3. QED
      BY <3>1, <3>2 DEF Provider
  <2>3. QED
    BY <2>1, <2>2
<1>7. P \in [DOMAIN P -> Provider]
  <2>1. \A p \in DOMAIN P : P[p] \in Provider
    BY <1>4, <1>5, <1>6, ConfigTypes
  <2>2. P = [p \in DOMAIN P |-> P[p]]
    BY DEF RefreshedProviders
  <2>3. QED
    BY <2>1, <2>2
<1>8. DOMAIN P \cap DisabledStaticProviders = {}
  BY <1>5, ConfigTypes DEF Groups
<1>9. /\ DOMAIN L = KeptModels(s) \cup DiscoveredModels(s)
      /\ \A m \in KeptModels(s) : L[m] = model_to_provider[m]
      /\ \A m \in DiscoveredModels(s) \ KeptModels(s) :
            L[m] = FirstLister(s, rank, m)
  BY DEF LoopRoutes
<1>10. \A m \in DOMAIN L : L[m] \in DOMAIN P
  <2>1. ASSUME NEW m \in KeptModels(s)
        PROVE  L[m] \in DOMAIN P
    BY <1>2, <1>9 DEF KeptModels, NoDanglingRoute
  <2>2. ASSUME NEW m \in DiscoveredModels(s) \ KeptModels(s)
        PROVE  L[m] \in DOMAIN P
    BY <1>2, <1>9, FirstListerLists DEF Listers
  <2>3. QED
    BY <1>9, <2>1, <2>2
<1>11. ConfigModels \subseteq KeptModels(s)
  BY ConfigTypes DEF KeptModels, StaticConfigKept, Retained
<1>12. ListedModels(P) \subseteq DOMAIN L
  <2> SUFFICES ASSUME NEW p \in DOMAIN P, NEW m \in P[p].models
               PROVE  m \in DOMAIN L
    BY DEF ListedModels
  <2>1. CASE p \in StaticProviders
    BY <2>1, <1>4, <1>9, <1>11, ConfigProviderModels
  <2>2. CASE p \notin StaticProviders
    BY <2>2, <1>5, <1>6, <1>9 DEF DiscoveredModels
  <2>3. QED
    BY <2>1, <2>2
<1>13. DOMAIN P \subseteq Retained(s)
  BY <1>1, <1>2 DEF Retained
<1>14. QED
  BY <1>3, <1>4, <1>5, <1>6, <1>7, <1>8, <1>9, <1>10, <1>11, <1>12, <1>13

\* Every refresh preserves the invariant and moves no route it could keep.
LEMMA UpdateStep == ASSUME IInv, Next PROVE IInv' /\ KeepsRoutes
<1> PICK s \in Snapshots : UpdateFromDiscovery(s)
  BY DEF Next
<1> DEFINE P == RefreshedProviders(s)
<1> PICK rank \in Orders(Groups(s)) :
      \E manual \in ManualEntries(P, LoopRoutes(s, rank)) :
         /\ providers' = P
         /\ model_to_provider' =
               Routable(P, WithManual(LoopRoutes(s, rank), manual))
         /\ applied' = s
  BY DEF UpdateFromDiscovery
<1> DEFINE L == LoopRoutes(s, rank)
<1> PICK manual \in ManualEntries(P, L) :
      /\ providers' = P
      /\ model_to_provider' = Routable(P, WithManual(L, manual))
      /\ applied' = s
  OBVIOUS
<1>1. /\ DOMAIN P \subseteq Names
      /\ P \in [DOMAIN P -> Provider]
      /\ DOMAIN P \ StaticProviders = Groups(s) \ StaticProviders
      /\ \A p \in Groups(s) \ StaticProviders : P[p].models = s[p]
      /\ DOMAIN P \cap DisabledStaticProviders = {}
      /\ DOMAIN P \subseteq Retained(s)
  BY LoopFacts
<1>2. \A p \in StaticProviders : p \in DOMAIN P /\ P[p] = ConfigProvider(p)
  BY LoopFacts
<1>3. /\ \A m \in DOMAIN L : L[m] \in DOMAIN P
      /\ \A m \in KeptModels(s) : L[m] = model_to_provider[m]
      /\ ConfigModels \subseteq KeptModels(s)
      /\ ListedModels(P) \subseteq DOMAIN L
  BY LoopFacts
<1> USE DEF IInv
<1>4. /\ DOMAIN model_to_provider' = ListedModels(P)
       /\ \A m \in ListedModels(P) : model_to_provider'[m] = L[m]
  <2> DEFINE W == WithManual(L, manual)
  <2>1. DOMAIN manual = {}
    BY <1>3 DEF ManualEntries
  <2>2. DOMAIN W = DOMAIN L /\ \A m \in DOMAIN L : W[m] = L[m]
    BY <2>1 DEF WithManual
  <2>3. {m \in DOMAIN W : m \in ListedModels(P) /\ W[m] \in DOMAIN P}
           = ListedModels(P)
    BY <2>2, <1>3
  <2>4. model_to_provider' = [m \in ListedModels(P) |-> W[m]]
    BY <2>3 DEF Routable, Restrict
  <2>5. QED
    BY <2>2, <2>4, <1>3
<1>5. TypeOK'
  <2>1. ListedModels(P) \subseteq Models
    BY <1>1 DEF ListedModels, Provider
  <2>2. model_to_provider' = [m \in ListedModels(P) |-> L[m]]
    BY <1>4 DEF Routable, Restrict
  <2>3. \A m \in ListedModels(P) : L[m] \in Names
    BY <1>1, <1>3
  <2>4. QED
    BY <1>1, <2>1, <2>2, <2>3 DEF TypeOK
<1>6. StaticConfigKept'
  <2>1. ASSUME NEW m \in ConfigModels
        PROVE  m \in ListedModels(P) /\ L[m] = ConfigRoute(m)
    <3>1. m \in ConfigProvider(ConfigRoute(m)).models
      BY ConfigTypes
    <3>2. m \in ListedModels(P)
      BY <3>1, <1>2, ConfigTypes DEF ListedModels
    <3>3. QED
      BY <3>2, <1>3 DEF StaticConfigKept
  <2>2. QED
    BY <2>1, <1>2, <1>4 DEF StaticConfigKept
<1>7. NoDanglingRoute'
  BY <1>3, <1>4 DEF NoDanglingRoute
<1>8. DisabledNeverServed'
  BY <1>1, <1>3, <1>4 DEF DisabledNeverServed
<1>9. ListedModelsRoutable'
  BY <1>4 DEF ListedModelsRoutable
<1>10. AutoProvidersMirrorSnapshot'
  BY <1>1 DEF AutoProvidersMirrorSnapshot
<1>11. KeepsRoutes
  BY <1>1, <1>3, <1>4 DEF KeepsRoutes, KeptModels
<1>12. QED
  BY <1>5, <1>6, <1>7, <1>8, <1>9, <1>10, <1>11

LEMMA Invariance == Spec => []IInv
<1>1. IInv /\ UNCHANGED vars => IInv'
  BY DEF IInv, vars, TypeOK, StaticConfigKept, DisabledNeverServed,
         NoDanglingRoute, ListedModelsRoutable, AutoProvidersMirrorSnapshot,
         Groups
<1>2. QED
  BY <1>1, InitIInv, UpdateStep, PTL DEF Spec

-----------------------------------------------------------------------------
(* The theorems *)

\* The table is always well typed.
THEOREM TypeCorrect == Spec => []TypeOK
BY Invariance, PTL DEF IInv

\* Discovery never touches what the user configured.
THEOREM ConfigWins == Spec => []StaticConfigKept
BY Invariance, PTL DEF IInv

\* A provider that the user disabled is never resurrected.
THEOREM DisabledStaysOff == Spec => []DisabledNeverServed
BY Invariance, PTL DEF IInv

\* The configuration wins over any sequence of snapshots.
THEOREM UserDecides == Spec => []ConfigurationWins
<1>1. StaticConfigKept /\ DisabledNeverServed => ConfigurationWins
  BY DEF ConfigurationWins
<1>2. QED
  BY <1>1, ConfigWins, DisabledStaysOff, PTL

\* Routes lead to known providers, for models that somebody lists, and every
\* listed model has one.
THEOREM RoutesSound == Spec => []RoutesMatchProviders
BY Invariance, PTL DEF IInv, RoutesMatchProviders

\* The discovered half of the table is the last snapshot and nothing else.
THEOREM SnapshotMirrored == Spec => []AutoProvidersMirrorSnapshot
BY Invariance, PTL DEF IInv

\* A refresh never moves a route whose provider is still there.
THEOREM RoutesStay == Spec => RoutesSticky
<1>1. IInv /\ [Next]_vars => [KeepsRoutes]_vars
  BY UpdateStep
<1>2. QED
  BY <1>1, Invariance, PTL DEF Spec, RoutesSticky

\* The `manual_entries` pass of update_from_discovery never finds anything to
\* do: the loop before it has already routed every listed model.
THEOREM ManualEntriesAreDead == Spec => []NothingLeftToMap
<1>1. IInv => NothingLeftToMap
  BY LoopFacts DEF NothingLeftToMap
<1>2. QED
  BY <1>1, Invariance, PTL

=============================================================================
