------------------------------ MODULE Registry ------------------------------
(***************************************************************************)
(* src/src/provider/registry.rs: the routing table of the gateway.         *)
(*                                                                         *)
(* The table is built once from the user's configuration and then          *)
(* refreshed with every discovery snapshot.  One RwLock guards it, so      *)
(* UpdateFromDiscovery is one step; what it leaves open is the iteration   *)
(* order of the HashMaps it walks.  The data that no property tells apart  *)
(* (URLs, keys) is left out, and a Vec of model ids is the set of its ids. *)
(***************************************************************************)
EXTENDS Naturals, Sequences, FiniteSets, Functions

CONSTANTS
    Names,       \* provider ids
    Models,      \* model ids
    Namespaced,  \* the model ids of the form "vendor/model"
    Config,      \* the [[providers]] entries of the configuration, in order
    Snapshots    \* what the gateway may report: provider id -> its model ids

Styles == {"OpenaiV1", "OpenaiDirect", "Anthropic"}

ConfigEntry ==
    [name: Names, style: Styles, models: SUBSET Models, enabled: BOOLEAN]

\* Config::validate refuses two providers of the same name.
ASSUME ConfigAssumption ==
    /\ Config \in Seq(ConfigEntry)
    /\ \A i, j \in DOMAIN Config :
          Config[i].name = Config[j].name => i = j

\* A group is created by its first model, so it is never empty.
ASSUME SnapshotsAssumption ==
    \A s \in Snapshots :
        /\ s \in [DOMAIN s -> (SUBSET Models) \ {{}}]
        /\ DOMAIN s \subseteq Names

VARIABLES
    providers,          \* RegistryInner.providers: name -> provider
    model_to_provider,  \* RegistryInner.model_to_provider
    applied             \* history: the snapshot of the last refresh

vars == <<providers, model_to_provider, applied>>

-----------------------------------------------------------------------------
(* ProviderRegistry::new *)

EnabledEntries == {i \in DOMAIN Config : Config[i].enabled}

StaticProviders == {Config[i].name : i \in EnabledEntries}

DisabledStaticProviders ==
    {Config[i].name : i \in DOMAIN Config \ EnabledEntries}

EntryOf(p) == CHOOSE i \in DOMAIN Config : Config[i].name = p

ConfigProvider(p) ==
    [base    |-> "config",
     style   |-> Config[EntryOf(p)].style,
     models  |-> Config[EntryOf(p)].models,
     enabled |-> TRUE]

Listing(m) == {i \in EnabledEntries : m \in Config[i].models}

ConfigModels == {m \in Models : Listing(m) # {}}

\* A model listed by several enabled entries goes to the last of them.
ConfigRoute(m) ==
    Config[CHOOSE i \in Listing(m) : \A j \in Listing(m) : j <= i].name

Init ==
    /\ providers = [p \in StaticProviders |-> ConfigProvider(p)]
    /\ model_to_provider = [m \in ConfigModels |-> ConfigRoute(m)]
    /\ applied = << >>

-----------------------------------------------------------------------------
(* ProviderRegistry::update_from_discovery, step by step *)

\* MUTANT: only what the snapshot mentions is kept.
RetainedOnlyActive(s) == DOMAIN s

\* The names that the first two `retain` calls keep.
Retained(s) == DOMAIN s \cup StaticProviders

\* MUTANT: the check of disabled_static_providers is missing.
GroupsWithDisabled(s) == DOMAIN s

\* The groups the loop does not skip.
Groups(s) == DOMAIN s \ DisabledStaticProviders

\* The style of a new auto-provider: a strict majority of namespaced ids.
InferredStyle(ms) ==
    IF 2 * Cardinality(ms \cap Namespaced) > Cardinality(ms)
    THEN "OpenaiV1" ELSE "OpenaiDirect"

AutoProvider(ms) ==
    [base    |-> "gateway",
     style   |-> InferredStyle(ms),
     models  |-> ms,
     enabled |-> TRUE]

RefreshedProvider(s, p) ==
    IF p \notin DOMAIN providers
    THEN AutoProvider(s[p])
    ELSE IF p \in Groups(s) \ StaticProviders
         THEN [providers[p] EXCEPT !.models = s[p]]
         ELSE providers[p]

RefreshedProviders(s) ==
    [p \in (DOMAIN providers \cap Retained(s)) \cup Groups(s) |->
        RefreshedProvider(s, p)]

\* The orders in which a HashMap may yield the keys S.
Orders(S) == {rank \in [S -> 1..Cardinality(S)] : IsInjective(rank)}

Listers(s, m) == {p \in Groups(s) : m \in s[p]}

FirstLister(s, rank, m) ==
    CHOOSE p \in Listers(s, m) : \A q \in Listers(s, m) : rank[p] <= rank[q]

KeptModels(s) ==
    {m \in DOMAIN model_to_provider : model_to_provider[m] \in Retained(s)}

DiscoveredModels(s) == UNION {s[p] : p \in Groups(s)}

\* MUTANT: what the gateway reports overwrites what was there.
LoopRoutesOverwritten(s, rank) ==
    [m \in KeptModels(s) \cup DiscoveredModels(s) |->
        IF m \in DiscoveredModels(s) THEN FirstLister(s, rank, m)
                                     ELSE model_to_provider[m]]

\* A model that still has a route keeps it; another one goes to the first
\* group, in iteration order, that lists it.
LoopRoutes(s, rank) ==
    [m \in KeptModels(s) \cup DiscoveredModels(s) |->
        IF m \in KeptModels(s) THEN model_to_provider[m]
                               ELSE FirstLister(s, rank, m)]

ListedModels(P) == UNION {P[p].models : p \in DOMAIN P}

\* `manual_entries`: a provider for each model listed but not yet routed.
ManualEntries(P, R) ==
    {f \in [ListedModels(P) \ DOMAIN R -> DOMAIN P] :
        \A m \in DOMAIN f : m \in P[f[m]].models}

WithManual(R, manual) ==
    [m \in DOMAIN R \cup DOMAIN manual |->
        IF m \in DOMAIN R THEN R[m] ELSE manual[m]]

\* MUTANT: the last `retain` is missing.
RoutableUnfiltered(P, R) == R

\* The last `retain`: routes of models nobody lists, or to nobody, go.
Routable(P, R) ==
    Restrict(R, {m \in DOMAIN R : m \in ListedModels(P) /\ R[m] \in DOMAIN P})

UpdateFromDiscovery(s) ==
    \E rank \in Orders(Groups(s)) :
    \E manual \in ManualEntries(RefreshedProviders(s), LoopRoutes(s, rank)) :
        /\ providers' = RefreshedProviders(s)
        /\ model_to_provider' =
              Routable(RefreshedProviders(s),
                       WithManual(LoopRoutes(s, rank), manual))
        /\ applied' = s

Next == \E s \in Snapshots : UpdateFromDiscovery(s)

Spec == Init /\ [][Next]_vars

-----------------------------------------------------------------------------
(* What the registry answers *)

\* get_provider_for_model: the name of the provider, if there is one.
GetProviderForModel(m) ==
    {p \in DOMAIN providers :
        m \in DOMAIN model_to_provider /\ p = model_to_provider[m]}

\* The providers get_providers_for_model appends after the routed one.
AlsoListing(m) ==
    {p \in DOMAIN providers :
        providers[p].enabled /\ m \in providers[p].models}
      \ GetProviderForModel(m)

\* get_providers_for_model: the candidates of a request, best first, that a
\* handler keeps because they are in S.  The routed provider leads and the
\* rest follow in HashMap order, before and after a `filter`.
GetProvidersForModel(m, S) ==
    LET first == {p \in GetProviderForModel(m) \cap S : providers[p].enabled}
        all   == first \cup (AlsoListing(m) \cap S)
    IN  {q \in [1..Cardinality(all) -> all] :
            /\ IsInjective(q)
            /\ first # {} => q[1] \in first}

-----------------------------------------------------------------------------
(* Properties *)

\* A provider behind the gateway is spoken to in one of the OpenAI styles.
Provider ==
    [base: {"config"}, style: Styles,
     models: SUBSET Models, enabled: BOOLEAN]
      \cup [base: {"gateway"}, style: {"OpenaiV1", "OpenaiDirect"},
            models: SUBSET Models, enabled: BOOLEAN]

\* Every name and model in the table is one of the system's, every record is
\* a Provider, and only the configuration selects the Anthropic style.
TypeOK ==
    /\ DOMAIN providers \subseteq Names
    /\ providers \in [DOMAIN providers -> Provider]
    /\ DOMAIN model_to_provider \subseteq Models
    /\ model_to_provider \in [DOMAIN model_to_provider -> Names]

\* No sequence of snapshots, whatever names and models they claim, touches a
\* provider of the configuration or a route the configuration gave
\* (update_from_discovery must neither drop nor replace them).
StaticConfigKept ==
    /\ \A p \in StaticProviders :
          p \in DOMAIN providers /\ providers[p] = ConfigProvider(p)
    /\ \A m \in ConfigModels :
          /\ m \in DOMAIN model_to_provider
          /\ model_to_provider[m] = ConfigRoute(m)

\* A name the user switched off never comes back through discovery, neither
\* as a provider nor as the target of a route.
DisabledNeverServed ==
    /\ DOMAIN providers \cap DisabledStaticProviders = {}
    /\ \A m \in DOMAIN model_to_provider :
          model_to_provider[m] \notin DisabledStaticProviders

\* What the user has configured wins over everything the gateway announces:
\* providers and routes that are configured stay, and those switched off stay
\* away.
ConfigurationWins == StaticConfigKept /\ DisabledNeverServed

\* Every route leads to a provider in the table, and every routed model is
\* one that some provider lists: a refresh leaves no dangling route behind,
\* whatever providers and models vanished with it.
NoDanglingRoute ==
    \A m \in DOMAIN model_to_provider :
        /\ model_to_provider[m] \in DOMAIN providers
        /\ m \in ListedModels(providers)

\* The pass over manual_entries at the end of a refresh is a safety net that
\* is never needed: the discovery loop has already routed every listed model.
NothingLeftToMap ==
    \A s \in Snapshots : \A rank \in Orders(Groups(s)) :
        ListedModels(RefreshedProviders(s)) \subseteq DOMAIN LoopRoutes(s, rank)

\* Every model that a provider lists has a route: /v1/models advertises no
\* model that a request for it would find unknown.
ListedModelsRoutable ==
    ListedModels(providers) \subseteq DOMAIN model_to_provider

\* The two maps agree after every refresh: exactly the models that some
\* provider lists have a route, and each route leads to a provider.
RoutesMatchProviders == NoDanglingRoute /\ ListedModelsRoutable

\* The auto-providers are exactly the groups of the last snapshot that no
\* configuration entry claims, with the models that snapshot gave them.
AutoProvidersMirrorSnapshot ==
    /\ DOMAIN providers \ StaticProviders = Groups(applied) \ StaticProviders
    /\ \A p \in DOMAIN providers \ StaticProviders :
          providers[p].models = applied[p]

KeepsRoutes ==
    \A m \in DOMAIN model_to_provider \cap DOMAIN model_to_provider' :
        model_to_provider[m] \in DOMAIN providers'
            => model_to_provider'[m] = model_to_provider[m]

\* A refresh moves a route only when it must: while its provider stays and
\* somebody lists the model, requests for it keep going to the same place,
\* whatever order the HashMap yields the groups in.
RoutesSticky == [][KeepsRoutes]_vars

=============================================================================
