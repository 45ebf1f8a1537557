--------------------------- MODULE FailoverProofs ---------------------------
(***************************************************************************)
(* For every configuration, every registry and any number of refreshes     *)
(* under way: nothing is sent again but for the reasons of MayFollow, a    *)
(* failure has exhausted the candidates, the route of the configuration    *)
(* goes first, and a body that is forwarded as it came fits.  The          *)
(* candidates in hand are a copy, so what matters of the registry is only  *)
(* what it was when they were read.                                        *)
(***************************************************************************)
EXTENDS Failover, FiniteSetTheorems, SequenceTheorems, TLAPS

RP == INSTANCE RegistryProofs

-----------------------------------------------------------------------------
(* The registry *)

\* Failover and RegistryProofs each have an instance of the registry; it is
\* the same one, definition by definition.
LEMMA SameNames ==
    /\ Reg!StaticProviders = RP!StaticProviders
    /\ \A s : Reg!Groups(s) = RP!Groups(s)
    /\ \A s : Reg!Retained(s) = RP!Retained(s)
BY DEF Reg!StaticProviders, RP!StaticProviders,
       Reg!EnabledEntries, RP!EnabledEntries,
       Reg!DisabledStaticProviders, RP!DisabledStaticProviders,
       Reg!Groups, RP!Groups, Reg!Retained, RP!Retained

LEMMA SameConfig ==
    /\ \A p : Reg!ConfigProvider(p) = RP!ConfigProvider(p)
    /\ Reg!ConfigModels = RP!ConfigModels
    /\ \A m : Reg!ConfigRoute(m) = RP!ConfigRoute(m)
BY DEF Reg!ConfigProvider, RP!ConfigProvider, Reg!EntryOf, RP!EntryOf,
       Reg!ConfigModels, RP!ConfigModels, Reg!ConfigRoute, RP!ConfigRoute,
       Reg!Listing, RP!Listing, Reg!EnabledEntries, RP!EnabledEntries

LEMMA SameInit == Reg!Init <=> RP!Init
BY SameConfig, SameNames DEF Reg!Init, RP!Init

LEMMA SameUpdate ==
    ASSUME NEW s
    PROVE  Reg!UpdateFromDiscovery(s) <=> RP!UpdateFromDiscovery(s)
<1>1. Reg!RefreshedProviders(s) = RP!RefreshedProviders(s)
  <2>1. \A ms : Reg!AutoProvider(ms) = RP!AutoProvider(ms)
    BY DEF Reg!AutoProvider, RP!AutoProvider,
           Reg!InferredStyle, RP!InferredStyle,
           Reg!Cardinality, RP!Cardinality
  <2>2. \A p : Reg!RefreshedProvider(s, p) = RP!RefreshedProvider(s, p)
    BY <2>1, SameNames DEF Reg!RefreshedProvider, RP!RefreshedProvider
  <2>3. QED
    BY <2>2, SameNames DEF Reg!RefreshedProviders, RP!RefreshedProviders
<1>2. \A rank : Reg!LoopRoutes(s, rank) = RP!LoopRoutes(s, rank)
  <2>1. /\ Reg!KeptModels(s) = RP!KeptModels(s)
        /\ Reg!DiscoveredModels(s) = RP!DiscoveredModels(s)
        /\ \A m : Reg!Listers(s, m) = RP!Listers(s, m)
    BY SameNames DEF Reg!KeptModels, RP!KeptModels, Reg!DiscoveredModels,
                     RP!DiscoveredModels, Reg!Listers, RP!Listers
  <2>2. \A rank, m : Reg!FirstLister(s, rank, m) = RP!FirstLister(s, rank, m)
    BY <2>1 DEF Reg!FirstLister, RP!FirstLister
  <2>3. QED
    BY <2>1, <2>2 DEF Reg!LoopRoutes, RP!LoopRoutes
<1>3. /\ \A P, R : Reg!ManualEntries(P, R) = RP!ManualEntries(P, R)
      /\ \A P, R : Reg!Routable(P, R) = RP!Routable(P, R)
      /\ \A P, R : Reg!WithManual(P, R) = RP!WithManual(P, R)
  <2>1. \A P : Reg!ListedModels(P) = RP!ListedModels(P)
    BY DEF Reg!ListedModels, RP!ListedModels
  <2>2. \A P, R : Reg!ManualEntries(P, R) = RP!ManualEntries(P, R)
    BY <2>1 DEF Reg!ManualEntries, RP!ManualEntries
  <2>3. \A P, R : Reg!Routable(P, R) = RP!Routable(P, R)
    BY <2>1 DEF Reg!Routable, RP!Routable, Reg!Restrict, RP!Restrict
  <2>4. \A P, R : Reg!WithManual(P, R) = RP!WithManual(P, R)
    BY DEF Reg!WithManual, RP!WithManual
  <2>5. QED
    BY <2>2, <2>3, <2>4
<1>4. Reg!Orders(Reg!Groups(s)) = RP!Orders(RP!Groups(s))
  BY SameNames DEF Reg!Orders, RP!Orders, Reg!IsInjective, RP!IsInjective,
                   Reg!Cardinality, RP!Cardinality
<1>5. QED
  BY <1>1, <1>2, <1>3, <1>4 DEF Reg!UpdateFromDiscovery, RP!UpdateFromDiscovery

LEMMA SameSpec == Reg!Spec => RP!Spec
<1>1. [Reg!Next]_(Reg!vars) => [RP!Next]_(RP!vars)
  BY SameUpdate DEF Reg!Next, RP!Next, Reg!vars, RP!vars
<1>2. QED
  BY <1>1, SameInit, PTL DEF Reg!Spec, RP!Spec

\* What Registry assumes holds here.
LEMMA RegistryMayAssume ==
    /\ Config \in Seq(RP!ConfigEntry)
    /\ \A i, j \in DOMAIN Config :
          Config[i].name = Config[j].name => i = j
    /\ \A s \in Snapshots :
          /\ s \in [DOMAIN s -> (SUBSET Models) \ {{}}]
          /\ DOMAIN s \subseteq Names
<1>1. RP!ConfigEntry = Reg!ConfigEntry
  BY DEF RP!ConfigEntry, Reg!ConfigEntry, RP!Styles, Reg!Styles
<1>2. QED
  BY <1>1, RegistryAssumption

\* A refresh is a step of the registry, and nothing else is.
LEMMA RegistryStep ==
    [Next]_vars => [Reg!Next]_(Reg!vars)
<1> SUFFICES ASSUME [Next]_vars PROVE [Reg!Next]_(Reg!vars)
  OBVIOUS
<1>1. CASE UNCHANGED registry
  BY <1>1 DEF registry, Reg!vars
<1>2. ASSUME NEW s \in Snapshots, UpdateRegistry(s) PROVE Reg!Next
  BY <1>2 DEF UpdateRegistry, Reg!Next
<1>3. CASE UNCHANGED vars
  BY <1>1, <1>3 DEF vars
<1>4. QED
  BY <1>1, <1>2, <1>3
  DEF Next, Proceed, Arrive, ReadRegistry, ReadDiscovery, SelectForChat,
      ReadStyles, SelectForMessages, Convert, Retry, TimeOut, Settle,
      Discover, shared

\* Failover runs the registry as it is: leaving the requests out, each of its
\* behaviours is one of Registry.
THEOREM ImplementsRegistry == Spec => Reg!Spec
<1>1. Init => Reg!Init
  BY DEF Init
<1>2. QED
  BY <1>1, RegistryStep, PTL DEF Spec, Reg!Spec

\* What a request relies on when it reads the registry.
RegistrySound ==
    /\ Reg!TypeOK
    /\ Reg!StaticConfigKept
    /\ IsFiniteSet(DOMAIN providers)

\* A table of finitely many configured names and finite snapshots is finite.
LEMMA RegistryFinite == Spec => []IsFiniteSet(DOMAIN providers)
<1>1. IsFiniteSet(Reg!StaticProviders)
  <2> DEFINE S == Reg!EnabledEntries
             f == [i \in S |-> Config[i].name]
  <2>1. S \subseteq 1..Len(Config) /\ Len(Config) \in Nat
    BY RegistryAssumption, LenProperties DEF Reg!EnabledEntries
  <2>2. IsFiniteSet(S)
    <3>1. IsFiniteSet(1..Len(Config))
      BY <2>1, FS_Interval
    <3>2. QED
      BY <2>1, <3>1, FS_Subset
  <2>3. f \in Surjection(S, Reg!StaticProviders)
    BY DEF Surjection, Reg!StaticProviders
  <2>4. QED
    BY <2>2, <2>3, FS_Surjection
<1>2. Init => IsFiniteSet(DOMAIN providers)
  BY <1>1 DEF Init, Reg!Init
<1>3. IsFiniteSet(DOMAIN providers) /\ [Reg!Next]_(Reg!vars)
         => IsFiniteSet(DOMAIN providers)'
  <2> SUFFICES ASSUME IsFiniteSet(DOMAIN providers), [Reg!Next]_(Reg!vars)
               PROVE  IsFiniteSet(DOMAIN providers')
    OBVIOUS
  <2>1. ASSUME NEW s \in Snapshots, Reg!UpdateFromDiscovery(s)
        PROVE  IsFiniteSet(DOMAIN providers')
    <3>1. DOMAIN providers' \subseteq DOMAIN providers \cup DOMAIN s
      BY <2>1 DEF Reg!UpdateFromDiscovery, Reg!RefreshedProviders, Reg!Groups
    <3>2. IsFiniteSet(DOMAIN providers \cup DOMAIN s)
      BY RegistryAssumption, FS_Union
    <3>3. QED
      BY <3>1, <3>2, FS_Subset
  <2>2. QED
    BY <2>1 DEF Reg!Next, Reg!vars
<1>4. QED
  BY <1>2, <1>3, RegistryStep, PTL DEF Spec

LEMMA RegistryStaysSound == Spec => []RegistrySound
<1>1. RP!TypeOK => Reg!TypeOK
  BY DEF RP!TypeOK, Reg!TypeOK, RP!Provider, Reg!Provider,
         RP!Styles, Reg!Styles
<1>2. RP!StaticConfigKept => Reg!StaticConfigKept
  BY SameConfig, SameNames DEF RP!StaticConfigKept, Reg!StaticConfigKept
<1>3. RP!Spec => []RP!TypeOK
  BY RP!TypeCorrect, RegistryMayAssume
<1>4. RP!Spec => []RP!StaticConfigKept
  BY RP!ConfigWins, RegistryMayAssume
<1>5. QED
  BY <1>1, <1>2, <1>3, <1>4, ImplementsRegistry, SameSpec, RegistryFinite, PTL
  DEF RegistrySound


-----------------------------------------------------------------------------
(* The candidates *)

Candidate == [name: Names, style: Reg!Styles]

\* What a list of candidates is worth when it is read: each provider is in it
\* at most once and with the style it has, and the provider with the route,
\* if the handler keeps it, is the first.
LEMMA CandidatesRead ==
    ASSUME RegistrySound, NEW S \in SUBSET DOMAIN providers,
           NEW c \in Candidates(S)
    PROVE  /\ c \in Seq(Candidate)
           /\ \A i \in DOMAIN c :
                 /\ c[i].name \in S
                 /\ c[i].style = providers[c[i].name].style
           /\ \A i, j \in DOMAIN c : c[i].name = c[j].name => i = j
           /\ \A p \in Reg!GetProviderForModel(Model) \cap S :
                 providers[p].enabled => c # << >> /\ c[1].name = p
<1> DEFINE first == {p \in Reg!GetProviderForModel(Model) \cap S :
                        providers[p].enabled}
           all   == first \cup (Reg!AlsoListing(Model) \cap S)
<1>1. PICK q \in Reg!GetProvidersForModel(Model, S) :
         c = [i \in DOMAIN q |-> [name  |-> q[i],
                                  style |-> providers[q[i]].style]]
  BY DEF Candidates
<1>2. /\ q \in [1..Reg!Cardinality(all) -> all]
      /\ Reg!IsInjective(q)
      /\ first # {} => q[1] \in first
  BY <1>1 DEF Reg!GetProvidersForModel
<1>3. all \subseteq S
  OBVIOUS
<1>4. /\ Reg!Cardinality(all) = Cardinality(all)
      /\ Cardinality(all) \in Nat
      /\ Cardinality(all) = 0 => all = {}
  <2>1. IsFiniteSet(all)
    BY <1>3, FS_Subset DEF RegistrySound
  <2>2. Reg!Cardinality(all) = Cardinality(all)
    BY DEF Reg!Cardinality, Cardinality
  <2>3. QED
    BY <2>1, <2>2, FS_CardinalityType, FS_EmptySet
<1>5. DOMAIN c = 1..Cardinality(all)
  BY <1>1, <1>2, <1>4
<1>6. \A i \in DOMAIN c :
         /\ c[i].name \in S /\ c[i].name = q[i]
         /\ c[i].style = providers[c[i].name].style
  BY <1>1, <1>2, <1>3
<1>7. c \in Seq(Candidate)
  <2>1. \A p \in DOMAIN providers : p \in Names /\ providers[p].style \in Reg!Styles
    BY DEF RegistrySound, Reg!TypeOK, Reg!Provider, Reg!Styles
  <2>2. \A i \in DOMAIN q : q[i] \in DOMAIN providers
    BY <1>2, <1>3
  <2>3. c \in [1..Cardinality(all) -> Candidate]
    BY <1>1, <1>5, <2>1, <2>2 DEF Candidate
  <2>4. \A n \in Nat : \A f \in [1..n -> Candidate] : f \in Seq(Candidate)
    OBVIOUS
  <2>5. QED
    BY <1>4, <2>3, <2>4
<1>8. \A i, j \in DOMAIN c : c[i].name = c[j].name => i = j
  BY <1>1, <1>2, <1>6 DEF Reg!IsInjective
<1>9. ASSUME NEW p \in Reg!GetProviderForModel(Model) \cap S,
             providers[p].enabled
      PROVE  c # << >> /\ c[1].name = p
  <2>1. p \in first
    BY <1>9
  <2>2. first = {p}
    BY <2>1 DEF Reg!GetProviderForModel
  <2>3. q[1] = p
    BY <1>2, <2>2
  <2>4. Cardinality(all) >= 1
    BY <1>4, <2>1
  <2>5. 1 \in DOMAIN c
    BY <1>4, <1>5, <2>4
  <2>6. QED
    BY <1>6, <2>3, <2>5
<1>10. \A p \in Reg!GetProviderForModel(Model) \cap S :
          providers[p].enabled => c # << >> /\ c[1].name = p
  BY <1>9
<1>11. QED
  BY <1>6, <1>7, <1>8, <1>10

-----------------------------------------------------------------------------
(* The inductive invariant *)

Before == {"idle", "validate", "discovery", "select", "styles", "convert"}

RequestTypeOK ==
    /\ models \subseteq Models
    /\ multi_provider_enabled \in BOOLEAN
    /\ pc \in Before \cup {"sending", "done"}
    /\ asked \in [route: Routes, model: Models]
    /\ known \in BOOLEAN
    /\ mode \in Modes
    /\ found \in Seq(Candidate)
    /\ at \in 1..MaxAttempts /\ attempt \in 0..RetryAttempts
    /\ answer \in Answers
    /\ tried \in Seq(Exchange)

\* Until the sender is chosen there is neither a candidate nor an exchange,
\* and an answer ends the request.
Unsent ==
    /\ pc # "done" => answer = "none"
    /\ pc \in Before =>
          found = << >> /\ tried = << >> /\ at = 1 /\ attempt = 0

AtCandidate ==
    /\ at <= IF ToGateway THEN 1 ELSE Len(found)
    /\ tried = << >> => at = 1

DistinctNames ==
    \A i, j \in DOMAIN found : found[i].name = found[j].name => i = j

\* Every pass of the outer loop sends at most once more than it retries.
Budget ==
    /\ pc = "sending" => Len(tried) <= (at - 1) * (1 + RetryAttempts) + attempt
    /\ Len(tried) <= MaxAttempts * (1 + RetryAttempts)

\* An exchange is with the gateway or with one of the candidates so far.
SentToCandidates ==
    \A k \in DOMAIN tried :
        /\ tried[k].body = Body
        /\ IF ToGateway
           THEN tried[k].to = Gateway /\ tried[k].style = "any"
           ELSE \E i \in 1..at : /\ tried[k].to = found[i].name
                                 /\ tried[k].style = found[i].style

FirstGoesFirst ==
    tried # << >> /\ ~ToGateway => tried[1].to = found[1].name

\* A retry follows a 429 of the same candidate.
Retrying ==
    pc = "sending" /\ attempt > 0 =>
        /\ tried # << >>
        /\ tried[Len(tried)].outcome = "too_many"
        /\ ~ToGateway => tried[Len(tried)].to = found[at].name

\* When a candidate is tried for the first time, another one has failed just
\* before.  With the gateway there is no second destination.
LastHasFailed ==
    pc = "sending" /\ tried # << >> /\ attempt = 0 =>
        /\ ~ToGateway
        /\ tried[Len(tried)].outcome \in Failures
        /\ tried[Len(tried)].to # found[at].name

Exhausted(i) ==
    \E j \in DOMAIN tried :
        /\ tried[j].to = found[i].name
        /\ tried[j].outcome \in Failures
        /\ \A k \in (j + 1)..Len(tried) : tried[k].to # found[i].name

PassedExhausted ==
    pc = "sending" => \A i \in DOMAIN found : i < at => Exhausted(i)

\* The style of a provider the configuration routes to never changes, so
\* that nothing here depends on the registry of the moment.
Suits ==
    (Reg!ConfigProvider(Reg!ConfigRoute(Model)).style = "Anthropic")
        <=> (asked.route # "chat")

RouteLeads ==
    Model \in Reg!ConfigModels /\ asked.route # "proxy" =>
        /\ pc = "discovery" => known
        /\ answer # "unknown_model"
        /\ multi_provider_enabled /\ Suits =>
              /\ pc \notin {"styles", "convert"}
              /\ pc \in {"sending", "done"} =>
                    found # << >> /\ found[1].name = Reg!ConfigRoute(Model)

FoundFits ==
    mode \in {"raw", "direct"} =>
        \A i \in DOMAIN found :
            found[i].style = "Anthropic" <=> Body = "anthropic"

IInv ==
    /\ RequestTypeOK /\ Unsent
    /\ AtCandidate /\ DistinctNames /\ Budget
    /\ SentToCandidates /\ FirstGoesFirst /\ Retrying
    /\ LastHasFailed /\ SentAgainOnlyAfterFailure
    /\ PassedExhausted /\ FailureExhaustsCandidates
    /\ RouteLeads /\ FoundFits

LEMMA Appended ==
    ASSUME NEW T, NEW s \in Seq(T), NEW e \in T
    PROVE  /\ Append(s, e) \in Seq(T)
           /\ Len(s) \in Nat /\ DOMAIN s = 1..Len(s)
           /\ Len(Append(s, e)) = Len(s) + 1
           /\ DOMAIN Append(s, e) = 1..(Len(s) + 1)
           /\ \A k \in 1..Len(s) : Append(s, e)[k] = s[k]
           /\ Append(s, e)[Len(s) + 1] = e
OBVIOUS

LEMMA Multiples ==
    /\ \A a, c \in Nat : a * c \in Nat
    /\ \A a, c \in Nat : a >= 1 => (a - 1) * c + c = a * c
    /\ \A a, b, c \in Nat : a <= b => a * c <= b * c
<1>1. \A a, c \in Nat : a * c \in Nat
  OBVIOUS
<1>2. \A a, c \in Nat : a >= 1 => (a - 1) * c + c = a * c
  OBVIOUS
<1>3. \A a, b, c \in Nat : a <= b => a * c <= b * c
  OBVIOUS
<1>4. QED
  BY <1>1, <1>2, <1>3

LEMMA Started == Init => IInv
<1> SUFFICES ASSUME Init PROVE IInv
  OBVIOUS
<1>1. RequestTypeOK
  <2>1. models \subseteq Models
    BY RegistryAssumption DEF Init
  <2>2. (CHOOSE m \in Models : TRUE) \in Models
    BY FailoverAssumption
  <2>3. asked \in [route: Routes, model: Models]
    BY <2>2 DEF Init, Routes
  <2>4. at \in 1..MaxAttempts /\ attempt \in 0..RetryAttempts
    BY FailoverAssumption DEF Init
  <2>5. found \in Seq(Candidate) /\ tried \in Seq(Exchange)
    BY DEF Init
  <2>6. QED
    BY <2>1, <2>3, <2>4, <2>5 DEF Init, RequestTypeOK, Before, Modes, Answers
<1>2. Budget
  BY Multiples, FailoverAssumption DEF Init, Budget
<1>3. /\ Unsent /\ AtCandidate /\ DistinctNames
      /\ SentToCandidates /\ FirstGoesFirst /\ Retrying
      /\ LastHasFailed /\ SentAgainOnlyAfterFailure
      /\ PassedExhausted /\ FailureExhaustsCandidates
      /\ RouteLeads /\ FoundFits
  BY DEF Init, Unsent, AtCandidate, ToGateway, DistinctNames,
         SentToCandidates, FirstGoesFirst, Retrying, LastHasFailed,
         SentAgainOnlyAfterFailure, PassedExhausted, FailureExhaustsCandidates,
         RouteLeads, FoundFits
<1>4. QED
  BY <1>1, <1>2, <1>3 DEF IInv

\* After the sender is chosen only the exchanges, and with them at, attempt
\* and the answer, change.
LEMMA Steady ==
    ASSUME UNCHANGED <<asked, mode, found, multi_provider_enabled>>
    PROVE  /\ Body' = Body /\ Failures' = Failures
           /\ ToGateway' <=> ToGateway
           /\ Model' = Model /\ (Suits' <=> Suits)
           /\ DistinctNames => DistinctNames'
           /\ FoundFits => FoundFits'
BY DEF Body, Failures, ToGateway, Model, Suits, DistinctNames, FoundFits

LEMMA Logged ==
    ASSUME IInv, pc = "sending", NEW o \in Outcomes, Log(o)
    PROVE  LET n == Len(tried)
           IN  /\ tried' \in Seq(Exchange)
               /\ n \in Nat /\ DOMAIN tried = 1..n
               /\ Len(tried') = n + 1 /\ DOMAIN tried' = 1..(n + 1)
               /\ \A k \in 1..n : tried'[k] = tried[k]
               /\ tried'[n + 1].outcome = o
               /\ tried'[n + 1].body = Body
               /\ IF ToGateway
                  THEN /\ tried'[n + 1].to = Gateway
                       /\ tried'[n + 1].style = "any"
                  ELSE /\ at \in DOMAIN found
                       /\ tried'[n + 1].to = found[at].name
                       /\ tried'[n + 1].style = found[at].style
<1> DEFINE e == [to      |-> IF ToGateway THEN Gateway ELSE found[at].name,
                 style   |-> IF ToGateway THEN "any" ELSE found[at].style,
                 body    |-> Body,
                 outcome |-> o]
<1>1. tried' = Append(tried, e)
  BY DEF Log
<1>2. ~ToGateway => at \in DOMAIN found
  <2>1. /\ found \in Seq(Candidate) /\ at \in 1..MaxAttempts
        /\ ~ToGateway => at <= Len(found)
    BY DEF IInv, RequestTypeOK, AtCandidate
  <2>2. QED
    BY <2>1, FailoverAssumption
<1>3. e \in Exchange
  <2>1. Body \in {"openai", "anthropic"}
    BY DEF Body
  <2>2. CASE ToGateway
    BY <2>1, <2>2 DEF Exchange
  <2>3. CASE ~ToGateway
    <3>1. found[at] \in Candidate
      BY <1>2, <2>3 DEF IInv, RequestTypeOK
    <3>2. QED
      BY <2>1, <2>3, <3>1 DEF Exchange, Candidate
  <2>4. QED
    BY <2>2, <2>3
<1>4. tried \in Seq(Exchange)
  BY DEF IInv, RequestTypeOK
<1>5. /\ e.outcome = o /\ e.body = Body
      /\ e.to = IF ToGateway THEN Gateway ELSE found[at].name
      /\ e.style = IF ToGateway THEN "any" ELSE found[at].style
  OBVIOUS
<1> HIDE DEF e
<1>6. QED
  BY <1>1, <1>2, <1>3, <1>4, <1>5, Appended

\* What an exchange leaves alone, whatever comes of it.
LEMMA ExchangeKeeps ==
    ASSUME IInv, pc = "sending", NEW o \in Outcomes, Log(o),
           UNCHANGED <<shared, asked, known, mode, found>>,
           \/ at' = at
           \/ at' = at + 1 /\ at < Len(found)
    PROVE  /\ AtCandidate' /\ DistinctNames' /\ FoundFits'
           /\ SentToCandidates' /\ FirstGoesFirst'
           /\ SentAgainOnlyAfterFailure'
           /\ Len(tried') <= MaxAttempts * (1 + RetryAttempts)
<1> DEFINE n == Len(tried)
<1>1. /\ Body' = Body /\ Failures' = Failures
      /\ ToGateway' <=> ToGateway
      /\ DistinctNames' /\ FoundFits'
  BY Steady DEF IInv, shared
<1>2. /\ n \in Nat /\ DOMAIN tried = 1..n /\ DOMAIN tried' = 1..(n + 1)
      /\ Len(tried') = n + 1
      /\ \A k \in 1..n : tried'[k] = tried[k]
      /\ tried'[n + 1].outcome = o
      /\ tried'[n + 1].body = Body
      /\ ToGateway => /\ tried'[n + 1].to = Gateway
                      /\ tried'[n + 1].style = "any"
      /\ ~ToGateway => /\ at \in DOMAIN found
                       /\ tried'[n + 1].to = found[at].name
                       /\ tried'[n + 1].style = found[at].style
  BY Logged
<1>3. /\ at \in Nat \ {0} /\ at <= MaxAttempts /\ at' \in {at, at + 1}
      /\ attempt \in Nat /\ attempt <= RetryAttempts
      /\ RetryAttempts \in Nat /\ MaxAttempts \in Nat
      /\ found \in Seq(Candidate) /\ Len(found) \in Nat
  BY FailoverAssumption DEF IInv, RequestTypeOK
<1> HIDE DEF n
<1>4. AtCandidate'
  <2>1. tried' # << >>
    BY <1>2
  <2>2. at' <= IF ToGateway THEN 1 ELSE Len(found)
    BY <1>3 DEF IInv, AtCandidate, ToGateway
  <2>3. QED
    BY <1>1, <2>1, <2>2 DEF AtCandidate
<1>5. SentToCandidates'
  <2> SUFFICES ASSUME NEW k \in DOMAIN tried'
               PROVE  /\ tried'[k].body = Body
                      /\ IF ToGateway
                         THEN tried'[k].to = Gateway /\ tried'[k].style = "any"
                         ELSE \E i \in 1..at' :
                                 /\ tried'[k].to = found[i].name
                                 /\ tried'[k].style = found[i].style
    BY <1>1 DEF SentToCandidates
  <2>1. CASE k \in 1..n
    <3>1. /\ tried[k].body = Body
          /\ IF ToGateway
             THEN tried[k].to = Gateway /\ tried[k].style = "any"
             ELSE \E i \in 1..at : /\ tried[k].to = found[i].name
                                   /\ tried[k].style = found[i].style
      BY <1>2, <2>1 DEF IInv, SentToCandidates
    <3>2. tried'[k] = tried[k] /\ 1..at \subseteq 1..at'
      BY <1>2, <1>3, <2>1
    <3>3. QED
      BY <3>1, <3>2
  <2>2. CASE k = n + 1
    <3>1. at \in 1..at'
      BY <1>3
    <3>2. QED
      BY <1>2, <2>2, <3>1
  <2>3. QED
    BY <1>2, <2>1, <2>2
<1>6. FirstGoesFirst'
  <2> SUFFICES ASSUME ~ToGateway PROVE tried'[1].to = found[1].name
    BY <1>1 DEF FirstGoesFirst
  <2>1. CASE n = 0
    <3>1. tried = << >>
      BY <1>2, <2>1, EmptySeq DEF IInv, RequestTypeOK, n
    <3>2. at = 1
      BY <3>1 DEF IInv, AtCandidate
    <3>3. QED
      BY <1>2, <2>1, <3>2
  <2>2. CASE n > 0
    <3>1. tried # << >> /\ tried'[1] = tried[1]
      BY <1>2, <2>2 DEF n
    <3>2. QED
      BY <3>1 DEF IInv, FirstGoesFirst
  <2>3. QED
    BY <1>2, <2>1, <2>2
<1>7. SentAgainOnlyAfterFailure'
  <2> SUFFICES ASSUME NEW k \in 1..n
               PROVE  MayFollow(tried'[k], tried'[k + 1])
    BY <1>1, <1>2 DEF SentAgainOnlyAfterFailure, MayFollow, shared
  <2>1. CASE k # n
    <3>1. k \in 1..(n - 1) /\ k + 1 \in 1..n
      BY <1>2, <2>1
    <3>2. MayFollow(tried[k], tried[k + 1])
      BY <3>1 DEF IInv, SentAgainOnlyAfterFailure, n
    <3>3. QED
      BY <1>2, <3>1, <3>2
  <2>2. CASE k = n
    <3>1. tried # << >> /\ n \in DOMAIN tried /\ tried'[k] = tried[n]
      BY <1>2, <2>2 DEF n
    <3>2. CASE attempt > 0
      <4>1. tried[n].outcome = "too_many"
        BY <3>2 DEF IInv, Retrying, n
      <4>2. tried'[n + 1].to = tried[n].to
        BY <1>2, <3>1, <3>2 DEF IInv, Retrying, SentToCandidates, n
      <4>3. QED
        BY <2>2, <3>1, <4>1, <4>2 DEF MayFollow
    <3>3. CASE attempt = 0
      <4>1. /\ tried[n].outcome \in Failures
            /\ tried[n].to # tried'[n + 1].to
        BY <1>2, <3>1, <3>3 DEF IInv, LastHasFailed, n
      <4>2. mode \in Modes
        BY DEF IInv, RequestTypeOK
      <4>3. QED
        BY <2>2, <3>1, <4>1, <4>2
        DEF MayFollow, Failures, Outcomes, Modes, Streams
    <3>4. QED
      BY <1>3, <3>2, <3>3
  <2>3. QED
    BY <2>1, <2>2
<1>8. Len(tried') <= MaxAttempts * (1 + RetryAttempts)
  <2> DEFINE c == 1 + RetryAttempts
  <2>1. c \in Nat /\ n <= (at - 1) * c + attempt /\ attempt + 1 <= c
    BY <1>3 DEF IInv, Budget, n
  <2>2. (at - 1) * c + c = at * c /\ at * c <= MaxAttempts * c
    BY <1>3, <2>1, Multiples
  <2>3. /\ (at - 1) * c \in Nat /\ at * c \in Nat /\ MaxAttempts * c \in Nat
    BY <1>3, <2>1, Multiples
  <2> HIDE DEF c
  <2>4. n + 1 <= MaxAttempts * c
    BY <1>2, <1>3, <2>1, <2>2, <2>3
  <2>5. QED
    BY <1>2, <2>4 DEF c
<1>9. QED
  BY <1>1, <1>4, <1>5, <1>6, <1>7, <1>8

\* An exchange does not undo that earlier candidates are exhausted, and
\* exhausts its own when it fails.
LEMMA ExchangeExhausts ==
    ASSUME IInv, pc = "sending", NEW o \in Outcomes, Log(o),
           UNCHANGED <<shared, asked, known, mode, found>>
    PROVE  \A i \in DOMAIN found :
              i < at \/ (i = at /\ o \in Failures) => Exhausted(i)'
<1> DEFINE n == Len(tried)
<1>1. /\ n \in Nat /\ DOMAIN tried = 1..n /\ DOMAIN tried' = 1..(n + 1)
      /\ Len(tried') = n + 1
      /\ \A k \in 1..n : tried'[k] = tried[k]
      /\ tried'[n + 1].outcome = o
      /\ ~ToGateway => /\ at \in DOMAIN found
                       /\ tried'[n + 1].to = found[at].name
  BY Logged
<1>2. Failures' = Failures
  BY Steady DEF shared
<1>3. ASSUME NEW i \in DOMAIN found, i < at
      PROVE  Exhausted(i)'
  <2>1. PICK j \in 1..n :
           /\ tried[j].to = found[i].name
           /\ tried[j].outcome \in Failures
           /\ \A k \in (j + 1)..n : tried[k].to # found[i].name
    BY <1>1, <1>3 DEF IInv, PassedExhausted, Exhausted
  <2>2. ~ToGateway
    BY <1>3 DEF ToGateway
  <2>3. at # i
    BY <1>3 DEF IInv, RequestTypeOK
  <2>4. tried'[n + 1].to # found[i].name
    BY <1>1, <1>3, <2>2, <2>3 DEF IInv, DistinctNames
  <2>5. \A k \in (j + 1)..(n + 1) : tried'[k].to # found[i].name
    <3> SUFFICES ASSUME NEW k \in (j + 1)..(n + 1)
                 PROVE  tried'[k].to # found[i].name
      OBVIOUS
    <3>1. CASE k = n + 1
      BY <2>4, <3>1
    <3>2. CASE k # n + 1
      <4>1. k \in (j + 1)..n /\ k \in 1..n
        BY <1>1, <3>2
      <4>2. QED
        BY <1>1, <2>1, <4>1
    <3>3. QED
      BY <3>1, <3>2
  <2>6. j \in DOMAIN tried' /\ tried'[j] = tried[j]
    BY <1>1
  <2>7. QED
    BY <1>1, <1>2, <2>1, <2>5, <2>6 DEF Exhausted
<1>4. ASSUME NEW i \in DOMAIN found, i = at, o \in Failures
      PROVE  Exhausted(i)'
  <2>1. /\ n + 1 \in DOMAIN tried' /\ (n + 2)..(n + 1) = {}
        /\ (n + 1) + 1 = n + 2
    BY <1>1
  <2>2. ~ToGateway
    BY <1>4 DEF ToGateway
  <2>3. tried'[n + 1].to = found[i].name /\ tried'[n + 1].outcome \in Failures
    BY <1>1, <1>4, <2>2
  <2>4. QED
    BY <1>1, <1>2, <2>1, <2>3 DEF Exhausted
<1>5. QED
  BY <1>3, <1>4

LEMMA FailureExhausts ==
    FailureExhaustsCandidates <=>
        (pc = "done" /\ found # << >> /\ tried[Len(tried)].outcome \in Failures
            => \A i \in 1..MaxAttempts : i \in DOMAIN found => Exhausted(i))
BY DEF FailureExhaustsCandidates, Exhausted

LEMMA RetryKeeps ==
    ASSUME IInv, Retry
    PROVE  IInv'
<1> DEFINE n == Len(tried)
<1>1. /\ pc = "sending" /\ "too_many" \in Outcomes /\ Log("too_many")
      /\ attempt < RetryAttempts /\ attempt' = attempt + 1
      /\ UNCHANGED <<shared, pc, asked, known, mode, found, at, answer>>
  BY DEF Retry, Outcomes
<1>2. /\ n \in Nat /\ DOMAIN tried = 1..n /\ DOMAIN tried' = 1..(n + 1)
      /\ Len(tried') = n + 1
      /\ tried' \in Seq(Exchange)
      /\ \A k \in 1..n : tried'[k] = tried[k]
      /\ tried'[n + 1].outcome = "too_many"
      /\ ~ToGateway => tried'[n + 1].to = found[at].name
  BY <1>1, Logged
<1>3. /\ at \in Nat \ {0} /\ RetryAttempts \in Nat
      /\ attempt \in Nat /\ attempt <= RetryAttempts
  BY FailoverAssumption DEF IInv, RequestTypeOK
<1>4. RequestTypeOK'
  BY <1>1, <1>2, <1>3 DEF IInv, RequestTypeOK, shared
<1>5. Unsent'
  BY <1>1 DEF IInv, Unsent, Before
<1>6. /\ AtCandidate' /\ DistinctNames' /\ FoundFits'
      /\ SentToCandidates' /\ FirstGoesFirst'
      /\ SentAgainOnlyAfterFailure'
      /\ Len(tried') <= MaxAttempts * (1 + RetryAttempts)
  BY <1>1, ExchangeKeeps
<1>7. Budget'
  <2>1. (at - 1) * (1 + RetryAttempts) \in Nat
    BY <1>3, Multiples
  <2>2. n + 1 <= (at - 1) * (1 + RetryAttempts) + attempt'
    BY <1>1, <1>2, <1>3, <2>1 DEF IInv, Budget
  <2>3. QED
    BY <1>1, <1>2, <1>6, <2>2 DEF Budget
<1>8. Retrying'
  BY <1>1, <1>2 DEF Retrying, ToGateway
<1>9. LastHasFailed'
  BY <1>1, <1>3 DEF LastHasFailed
<1>10. PassedExhausted'
  BY <1>1, ExchangeExhausts DEF PassedExhausted
<1>11. FailureExhaustsCandidates'
  BY <1>1 DEF FailureExhaustsCandidates
<1>12. RouteLeads'
  BY <1>1 DEF IInv, RouteLeads, Suits, Model, shared
<1>13. QED
  BY <1>4, <1>5, <1>6, <1>7, <1>8, <1>9, <1>10, <1>11, <1>12 DEF IInv

\* The two ways in which an attempt at a destination ends.
NextCandidate ==
    /\ ~ToGateway /\ at < MaxAttempts /\ at < Len(found)
    /\ at' = at + 1 /\ attempt' = 0
    /\ UNCHANGED <<pc, answer>>

Finished ==
    /\ pc' = "done"
    /\ answer' \in Answers \ {"unknown_model"}
    /\ UNCHANGED <<at, attempt>>

LEMMA TryNextEnds ==
    ASSUME NEW o, ~ToGateway, TryNext(o)
    PROVE  \/ NextCandidate
           \/ Finished /\ ~(at < MaxAttempts /\ at < Len(found))
BY DEF TryNext, NextCandidate, Finished, Answer, AllFailed, Answers

LEMMA SettleEnds ==
    ASSUME IInv, NEW o \in Outcomes, Settle(o)
    PROVE  \/ NextCandidate /\ o \in Failures
           \/ /\ Finished
              /\ ~ToGateway /\ o \in Failures
                    => ~(at < MaxAttempts /\ at < Len(found))
<1>1. CASE ToGateway
  <2>1. GatewayAnswer(o) \in Answers \ {"unknown_model"}
    BY DEF GatewayAnswer, Answers
  <2>2. QED
    BY <1>1, <2>1 DEF Settle, Finished, Answer
<1>2. CASE ~ToGateway /\ o \in Failures
  <2>1. TryNext(o)
    BY <1>2 DEF Settle
  <2>2. QED
    BY <1>2, <2>1, TryNextEnds
<1>3. CASE ~ToGateway /\ o \notin Failures
  <2>1. ProviderAnswer(o) \in Answers \ {"unknown_model"}
    <3>1. mode \in Modes
      BY DEF IInv, RequestTypeOK
    <3>2. o \in {"ok", "unreadable", "client_error", "too_many", "quota"}
      BY <1>3, <3>1 DEF Outcomes, Failures, Modes, Streams
    <3>3. QED
      BY <3>2 DEF ProviderAnswer, Answers
  <2>2. QED
    BY <1>3, <2>1 DEF Settle, Finished, Answer
<1>4. QED
  BY <1>1, <1>2, <1>3

LEMMA SettleKeeps ==
    ASSUME IInv, NEW o \in Outcomes, Settle(o)
    PROVE  IInv'
<1> DEFINE n == Len(tried)
<1>1. /\ pc = "sending" /\ Log(o)
      /\ UNCHANGED <<shared, asked, known, mode, found>>
  BY DEF Settle
<1>2. /\ n \in Nat /\ DOMAIN tried = 1..n /\ DOMAIN tried' = 1..(n + 1)
      /\ Len(tried') = n + 1
      /\ tried' \in Seq(Exchange)
      /\ \A k \in 1..n : tried'[k] = tried[k]
      /\ tried'[n + 1].outcome = o
  BY <1>1, Logged
<1>3. /\ at \in Nat \ {0} /\ at <= MaxAttempts
      /\ RetryAttempts \in Nat /\ MaxAttempts \in Nat
      /\ attempt \in Nat /\ attempt <= RetryAttempts
      /\ found \in Seq(Candidate) /\ Len(found) \in Nat
      /\ DOMAIN found = 1..Len(found)
  BY FailoverAssumption DEF IInv, RequestTypeOK
<1>4. /\ Failures' = Failures /\ Model' = Model /\ (Suits' <=> Suits)
      /\ ToGateway' <=> ToGateway
  BY <1>1, Steady DEF shared
<1>5. \/ NextCandidate /\ o \in Failures
      \/ /\ Finished
         /\ ~ToGateway /\ o \in Failures
               => ~(at < MaxAttempts /\ at < Len(found))
  BY SettleEnds
<1>6. /\ AtCandidate' /\ DistinctNames' /\ FoundFits'
      /\ SentToCandidates' /\ FirstGoesFirst'
      /\ SentAgainOnlyAfterFailure'
      /\ Len(tried') <= MaxAttempts * (1 + RetryAttempts)
  <2>1. at' = at \/ (at' = at + 1 /\ at < Len(found))
    BY <1>5 DEF NextCandidate, Finished
  <2>2. QED
    BY <1>1, <2>1, ExchangeKeeps
<1>7. RequestTypeOK'
  <2>1. at' \in 1..MaxAttempts /\ attempt' \in 0..RetryAttempts
    BY <1>3, <1>5 DEF NextCandidate, Finished
  <2>2. pc' \in {"sending", "done"} /\ answer' \in Answers
    BY <1>1, <1>5 DEF NextCandidate, Finished, IInv, RequestTypeOK
  <2>3. QED
    BY <1>1, <1>2, <2>1, <2>2 DEF IInv, RequestTypeOK, shared
<1>8. Unsent'
  BY <1>1, <1>5 DEF IInv, Unsent, Before, NextCandidate, Finished
<1>9. Budget'
  <2>1. ASSUME NextCandidate
        PROVE  n + 1 <= (at' - 1) * (1 + RetryAttempts) + attempt'
    <3> DEFINE c == 1 + RetryAttempts
    <3>1. c \in Nat /\ n <= (at - 1) * c + attempt /\ attempt + 1 <= c
      BY <1>1, <1>3 DEF IInv, Budget
    <3>2. /\ (at - 1) * c \in Nat /\ at * c \in Nat
          /\ (at - 1) * c + c = at * c
      BY <1>3, <3>1, Multiples
    <3>3. at' - 1 = at /\ attempt' = 0
      BY <1>3, <2>1 DEF NextCandidate
    <3> HIDE DEF c
    <3>4. n + 1 <= (at' - 1) * c + attempt'
      BY <1>2, <1>3, <3>1, <3>2, <3>3
    <3>5. QED
      BY <3>4 DEF c
  <2>2. QED
    BY <1>2, <1>5, <1>6, <2>1 DEF Budget, Finished
<1>10. Retrying'
  BY <1>5 DEF Retrying, NextCandidate, Finished
<1>11. LastHasFailed'
  <2>1. ASSUME NextCandidate, o \in Failures PROVE LastHasFailed'
    <3>1. /\ at \in DOMAIN found /\ at + 1 \in DOMAIN found
          /\ tried'[n + 1].to = found[at].name
      BY <1>1, <1>3, <2>1, Logged DEF NextCandidate
    <3>2. found[at + 1].name # found[at].name
      BY <1>3, <3>1 DEF IInv, DistinctNames
    <3>3. QED
      BY <1>1, <1>2, <1>4, <2>1, <3>1, <3>2
      DEF LastHasFailed, NextCandidate
  <2>2. QED
    BY <1>5, <2>1 DEF LastHasFailed, Finished
<1>12. PassedExhausted'
  <2>1. ASSUME NextCandidate, o \in Failures,
               NEW i \in DOMAIN found, i < at + 1
        PROVE  Exhausted(i)'
    <3>1. i < at \/ i = at
      BY <1>3, <2>1
    <3>2. QED
      BY <1>1, <2>1, <3>1, ExchangeExhausts
  <2>2. QED
    BY <1>1, <1>5, <2>1 DEF PassedExhausted, NextCandidate, Finished
<1>13. FailureExhaustsCandidates'
  <2> SUFFICES ASSUME pc' = "done", found # << >>, o \in Failures,
                      NEW i \in 1..MaxAttempts, i \in DOMAIN found
               PROVE  Exhausted(i)'
    BY <1>1, <1>2, <1>4, FailureExhausts
    DEF FailureExhaustsCandidates, Exhausted
  <2>1. ~(at < MaxAttempts /\ at < Len(found))
    BY <1>1, <1>5 DEF NextCandidate, ToGateway
  <2>2. i < at \/ i = at
    BY <1>3, <2>1
  <2>3. QED
    BY <1>1, <2>2, ExchangeExhausts
<1>14. RouteLeads'
  <2>1. pc' \in {"sending", "done"} /\ answer' # "unknown_model"
    BY <1>1, <1>5 DEF NextCandidate, Finished, IInv, Unsent
  <2>2. QED
    BY <1>1, <1>4, <2>1 DEF IInv, RouteLeads, shared
<1>15. QED
  BY <1>6, <1>7, <1>8, <1>9, <1>10, <1>11, <1>12, <1>13, <1>14 DEF IInv

\* A timeout sends nothing.  The 429 before the delay it ends was the last
\* word of the candidate, and for a stream it is a failure.
LEMMA TimeOutKeeps ==
    ASSUME IInv, TimeOut
    PROVE  IInv'
<1> DEFINE n == Len(tried)
<1>1. /\ pc = "sending" /\ ~ToGateway /\ mode \in Streams /\ attempt > 0
      /\ UNCHANGED <<shared, asked, known, mode, found, tried>>
      /\ NextCandidate
         \/ (Finished /\ ~(at < MaxAttempts /\ at < Len(found)))
  BY TryNextEnds DEF TimeOut
<1>2. /\ at \in Nat \ {0} /\ at <= MaxAttempts
      /\ RetryAttempts \in Nat /\ MaxAttempts \in Nat
      /\ attempt \in Nat /\ attempt <= RetryAttempts
      /\ found \in Seq(Candidate) /\ Len(found) \in Nat
      /\ DOMAIN found = 1..Len(found)
      /\ tried \in Seq(Exchange) /\ n \in Nat /\ DOMAIN tried = 1..n
  BY FailoverAssumption DEF IInv, RequestTypeOK
<1>3. /\ Failures' = Failures /\ Model' = Model /\ (Suits' <=> Suits)
      /\ ToGateway' <=> ToGateway
      /\ Body' = Body /\ DistinctNames' /\ FoundFits'
  BY <1>1, Steady DEF IInv, shared
<1>4. n # 0 /\ tried[n].outcome = "too_many" /\ tried[n].to = found[at].name
  <2>1. tried # << >>
    BY <1>1 DEF IInv, Retrying
  <2>2. QED
    BY <1>1, <1>2, <2>1, EmptySeq DEF IInv, Retrying
<1>5. "too_many" \in Failures
  <2>1. mode # "converted"
    BY <1>1 DEF Streams
  <2>2. Failures = Outcomes \ {"ok", "unreadable"}
    BY <1>1, <2>1 DEF Failures
  <2>3. QED
    BY <2>2 DEF Outcomes
<1>6. \A i \in DOMAIN found : i <= at => Exhausted(i)'
  <2> SUFFICES ASSUME NEW i \in DOMAIN found, i <= at PROVE Exhausted(i)
    BY <1>1, <1>3 DEF Exhausted
  <2>1. CASE i = at
    <3>1. (n + 1)..n = {} /\ n \in DOMAIN tried
      BY <1>2, <1>4
    <3>2. QED
      BY <1>4, <1>5, <2>1, <3>1 DEF Exhausted
  <2>2. CASE i # at
    BY <1>1, <1>2, <2>2 DEF IInv, PassedExhausted
  <2>3. QED
    BY <2>1, <2>2
<1>7. RequestTypeOK'
  <2>1. at' \in 1..MaxAttempts /\ attempt' \in 0..RetryAttempts
    BY <1>1, <1>2 DEF NextCandidate, Finished
  <2>2. pc' \in {"sending", "done"} /\ answer' \in Answers
    BY <1>1 DEF NextCandidate, Finished, IInv, RequestTypeOK
  <2>3. QED
    BY <1>1, <2>1, <2>2 DEF IInv, RequestTypeOK, shared
<1>8. Unsent'
  BY <1>1 DEF IInv, Unsent, Before, NextCandidate, Finished
<1>9. AtCandidate'
  <2>1. tried # << >>
    BY <1>1 DEF IInv, Retrying
  <2>2. at' <= Len(found)
    BY <1>1, <1>2 DEF NextCandidate, Finished, IInv, AtCandidate
  <2>3. QED
    BY <1>1, <1>3, <2>1, <2>2 DEF AtCandidate
<1>10. Budget'
  <2>1. ASSUME NextCandidate
        PROVE  n <= (at' - 1) * (1 + RetryAttempts) + attempt'
    <3> DEFINE c == 1 + RetryAttempts
    <3>1. c \in Nat /\ n <= (at - 1) * c + attempt /\ attempt + 1 <= c
      BY <1>1, <1>2 DEF IInv, Budget
    <3>2. /\ (at - 1) * c \in Nat /\ at * c \in Nat
          /\ (at - 1) * c + c = at * c
      BY <1>2, <3>1, Multiples
    <3>3. at' - 1 = at /\ attempt' = 0
      BY <1>2, <2>1 DEF NextCandidate
    <3> HIDE DEF c
    <3>4. n <= (at' - 1) * c + attempt'
      BY <1>2, <3>1, <3>2, <3>3
    <3>5. QED
      BY <3>4 DEF c
  <2>2. QED
    BY <1>1, <2>1 DEF IInv, Budget, Finished
<1>11. SentToCandidates'
  <2>1. 1..at \subseteq 1..at'
    BY <1>1, <1>2 DEF NextCandidate, Finished
  <2>2. QED
    BY <1>1, <1>3, <2>1 DEF IInv, SentToCandidates
<1>12. FirstGoesFirst' /\ SentAgainOnlyAfterFailure'
  BY <1>1, <1>3
  DEF IInv, FirstGoesFirst, SentAgainOnlyAfterFailure, MayFollow
<1>13. Retrying'
  BY <1>1 DEF Retrying, NextCandidate, Finished
<1>14. LastHasFailed'
  <2>1. ASSUME NextCandidate PROVE LastHasFailed'
    <3>1. at \in DOMAIN found /\ at + 1 \in DOMAIN found
      BY <1>2, <2>1 DEF NextCandidate
    <3>2. found[at + 1].name # found[at].name
      BY <1>2, <3>1 DEF IInv, DistinctNames
    <3>3. QED
      BY <1>1, <1>3, <1>4, <1>5, <2>1, <3>2
      DEF LastHasFailed, NextCandidate
  <2>2. QED
    BY <1>1, <2>1 DEF LastHasFailed, Finished
<1>15. PassedExhausted'
  BY <1>1, <1>2, <1>6 DEF PassedExhausted, NextCandidate, Finished
<1>16. FailureExhaustsCandidates'
  <2> SUFFICES ASSUME pc' = "done", NEW i \in 1..MaxAttempts, i \in DOMAIN found
               PROVE  Exhausted(i)'
    BY <1>1 DEF FailureExhaustsCandidates, Exhausted
  <2>1. i <= at
    BY <1>1, <1>2 DEF NextCandidate
  <2>2. QED
    BY <1>6, <2>1
<1>17. RouteLeads'
  <2>1. pc' \in {"sending", "done"} /\ answer' # "unknown_model"
    BY <1>1 DEF NextCandidate, Finished, IInv, Unsent
  <2>2. QED
    BY <1>1, <1>3, <2>1 DEF IInv, RouteLeads, shared
<1>18. QED
  BY <1>3, <1>7, <1>8, <1>9, <1>10, <1>11, <1>12, <1>13, <1>14, <1>15,
     <1>16, <1>17 DEF IInv

\* A refresh, or nothing at all, leaves the request alone.
LEMMA OthersKeep ==
    ASSUME IInv, UNCHANGED <<multi_provider_enabled, request>>,
           models' \subseteq Models
    PROVE  IInv'
<1>1. RequestTypeOK' /\ Unsent'
  BY DEF IInv, RequestTypeOK, Unsent, request
<1>2. AtCandidate' /\ DistinctNames' /\ Budget' /\ FoundFits'
  BY DEF IInv, AtCandidate, ToGateway, DistinctNames, Budget, FoundFits,
         Body, request
<1>3. SentToCandidates' /\ FirstGoesFirst' /\ Retrying'
  BY DEF IInv, SentToCandidates, FirstGoesFirst, Retrying, ToGateway,
         Body, request
<1>4. LastHasFailed' /\ SentAgainOnlyAfterFailure'
  BY DEF IInv, LastHasFailed, SentAgainOnlyAfterFailure, MayFollow,
         ToGateway, Failures, request
<1>5. PassedExhausted' /\ FailureExhaustsCandidates'
  BY DEF IInv, PassedExhausted, Exhausted, FailureExhaustsCandidates,
         Failures, request
<1>6. RouteLeads'
  BY DEF IInv, RouteLeads, Suits, Model, request
<1>7. QED
  BY <1>1, <1>2, <1>3, <1>4, <1>5, <1>6 DEF IInv

-----------------------------------------------------------------------------
(* The handlers: what they read, and whom they choose *)

\* A provider the configuration routes to is a candidate wherever its style
\* lets the handler keep it, and then the first one.
LEMMA ConfiguredLeads ==
    ASSUME RegistrySound, Model \in Reg!ConfigModels,
           NEW S \in SUBSET DOMAIN providers, NEW c \in Candidates(S),
           Reg!ConfigRoute(Model) \in S
    PROVE  c # << >> /\ c[1].name = Reg!ConfigRoute(Model)
<1> DEFINE p == Reg!ConfigRoute(Model)
<1>1. p \in Reg!StaticProviders
  BY RP!ConfigTypes, RegistryMayAssume, SameConfig, SameNames
<1>2. /\ p \in DOMAIN providers /\ providers[p] = Reg!ConfigProvider(p)
      /\ Model \in DOMAIN model_to_provider /\ model_to_provider[Model] = p
  BY <1>1 DEF RegistrySound, Reg!StaticConfigKept
<1>3. providers[p].enabled
  BY <1>2 DEF Reg!ConfigProvider
<1>4. p \in Reg!GetProviderForModel(Model) \cap S
  BY <1>2 DEF Reg!GetProviderForModel
<1>5. QED
  BY <1>3, <1>4, CandidatesRead

\* Where the provider of the configuration is found.
LEMMA ConfiguredStyle ==
    ASSUME RegistrySound, Model \in Reg!ConfigModels
    PROVE  LET p == Reg!ConfigRoute(Model)
           IN  /\ p \in DOMAIN providers
               /\ providers[p] = Reg!ConfigProvider(p)
               /\ Suits => p \in IF asked.route = "chat"
                                 THEN SpeakingOpenAI ELSE SpeakingAnthropic
<1> DEFINE p == Reg!ConfigRoute(Model)
<1>1. p \in Reg!StaticProviders
  BY RP!ConfigTypes, RegistryMayAssume, SameConfig, SameNames
<1>2. p \in DOMAIN providers /\ providers[p] = Reg!ConfigProvider(p)
  BY <1>1 DEF RegistrySound, Reg!StaticConfigKept
<1>3. QED
  BY <1>2 DEF Suits, SpeakingOpenAI, SpeakingAnthropic

\* The actions that lead up to the sending, as what they do to the request.
Choosing ==
    \/ \E r \in Routes, m \in Models : Arrive(r, m)
    \/ ReadRegistry \/ ReadDiscovery
    \/ SelectForChat \/ ReadStyles \/ SelectForMessages \/ Convert

Chosen ==
    /\ mode' \in Modes
    /\ found' \in Seq(Candidate)
    /\ DistinctNames' /\ FoundFits'
    /\ \/ pc' \in Before /\ found' = << >> /\ answer' = "none"
       \/ pc' = "sending" /\ answer' = "none"
       \/ pc' = "done" /\ answer' \in Answers /\ found' = << >>

LEMMA Dispatched ==
    ASSUME NEW m \in Modes, NEW c \in Seq(Candidate),
           \A i, j \in DOMAIN c : c[i].name = c[j].name => i = j,
           Dispatch(m, c)
    PROVE  /\ pc' = "sending" /\ mode' = m /\ UNCHANGED answer
           /\ found' \in Seq(Candidate) /\ DistinctNames'
           /\ found' \in {<< >>, c}
           /\ multi_provider_enabled => found' = c
BY DEF Dispatch, DistinctNames

LEMMA NobodyChosen ==
    ASSUME mode' \in Modes, found' = << >>,
           \/ pc' \in Before \cup {"sending"} /\ answer' = "none"
           \/ pc' = "done" /\ answer' \in Answers
    PROVE  Chosen
<1>1. found' \in Seq(Candidate) /\ DOMAIN found' = {}
  OBVIOUS
<1>2. DistinctNames'
  BY <1>1 DEF DistinctNames
<1>3. FoundFits'
  BY <1>1 DEF FoundFits
<1>4. QED
  BY <1>1, <1>2, <1>3 DEF Chosen

LEMMA SomebodyChosen ==
    ASSUME mode' \in Modes, found' \in Seq(Candidate),
           DistinctNames', FoundFits',
           pc' = "sending", answer' = "none"
    PROVE  Chosen
BY DEF Chosen

LEMMA ChoosingShape ==
    ASSUME IInv, RegistrySound, Choosing
    PROVE  /\ pc \in Before /\ UNCHANGED <<shared, sending>>
           /\ asked' \in [route: Routes, model: Models]
           /\ known' \in BOOLEAN
           /\ Chosen
<1>1. pc \in Before /\ UNCHANGED <<shared, sending>>
  BY DEF Choosing, Arrive, ReadRegistry, ReadDiscovery, SelectForChat,
         ReadStyles, SelectForMessages, Convert, Before
<1>2. asked' \in [route: Routes, model: Models] /\ known' \in BOOLEAN
  <2>1. Served \in BOOLEAN
    BY DEF Served
  <2>2. asked \in [route: Routes, model: Models] /\ known \in BOOLEAN
    BY DEF IInv, RequestTypeOK
  <2>3. CASE \E r \in Routes, m \in Models : Arrive(r, m)
    BY <2>2, <2>3 DEF Arrive
  <2>4. CASE UNCHANGED asked /\ known' \in {known, Served}
    BY <2>1, <2>2, <2>4
  <2>5. QED
    BY <2>3, <2>4
    DEF Choosing, ReadRegistry, ReadDiscovery, SelectForChat,
        ReadStyles, SelectForMessages, Convert
<1> SUFFICES Chosen
  BY <1>1, <1>2
<1>3. /\ mode \in Modes /\ answer = "none"
      /\ found = << >> /\ found \in Seq(Candidate)
      /\ asked.route \in Routes
  BY <1>1 DEF IInv, RequestTypeOK, Unsent, Before
<1>4. ASSUME NEW S \in SUBSET DOMAIN providers, NEW c \in Candidates(S)
      PROVE  /\ c \in Seq(Candidate)
             /\ \A i, j \in DOMAIN c : c[i].name = c[j].name => i = j
             /\ \A i \in DOMAIN c :
                   /\ c[i].name \in S
                   /\ c[i].style = providers[c[i].name].style
  BY <1>4, CandidatesRead
<1>5. << >> \in Seq(Candidate) /\ DOMAIN (<< >>) = {}
  OBVIOUS
<1>6. ASSUME NEW r \in Routes, NEW m \in Models, Arrive(r, m)
      PROVE  Chosen
  <2>1. CASE r = "proxy"
    <3>1. Dispatch("passed", << >>)
      BY <1>6, <2>1 DEF Arrive
    <3>2. "passed" \in Modes /\ "passed" \notin {"raw", "direct"}
      BY DEF Modes
    <3>3. QED
      BY <1>3, <1>5, <3>1, <3>2, Dispatched, NobodyChosen
  <2>2. CASE r # "proxy"
    BY <1>3, <1>6, <2>2, NobodyChosen DEF Arrive, Before
  <2>3. QED
    BY <2>1, <2>2
<1>7. CASE ReadRegistry
  BY <1>3, <1>7, NobodyChosen DEF ReadRegistry, Before
<1>8. CASE ReadDiscovery
  BY <1>3, <1>8, NobodyChosen DEF ReadDiscovery, Answer, Before, Answers
<1>9. CASE SelectForChat
  <2>1. PICK c \in Candidates(SpeakingOpenAI) :
           IF c = << >> /\ multi_provider_enabled
           THEN pc' = "styles" /\ UNCHANGED <<mode, found, answer>>
           ELSE Dispatch("raw", c)
    BY <1>9 DEF SelectForChat
  <2>2. CASE c = << >> /\ multi_provider_enabled
    BY <1>3, <2>1, <2>2, NobodyChosen DEF Before
  <2>3. CASE Dispatch("raw", c)
    <3>1. SpeakingOpenAI \in SUBSET DOMAIN providers /\ "raw" \in Modes
      BY DEF SpeakingOpenAI, Modes
    <3>2. /\ pc' = "sending" /\ mode' = "raw" /\ UNCHANGED answer
          /\ found' \in Seq(Candidate) /\ DistinctNames'
          /\ found' \in {<< >>, c}
      BY <1>4, <2>3, <3>1, Dispatched
    <3>3. Body' = "openai"
      BY <1>9, <3>2 DEF SelectForChat, Body
    <3>4. \A i \in DOMAIN c : c[i].style # "Anthropic"
      BY <1>4, <3>1 DEF SpeakingOpenAI, SpeakingAnthropic
    <3>5. FoundFits'
      BY <1>5, <3>2, <3>3, <3>4 DEF FoundFits
    <3>6. QED
      BY <1>3, <3>1, <3>2, <3>5, SomebodyChosen
  <2>4. QED
    BY <2>1, <2>2, <2>3
<1>10. CASE ReadStyles
  <2>1. CASE Dispatch("raw", << >>)
    <3>1. "raw" \in Modes
      BY DEF Modes
    <3>2. /\ pc' = "sending" /\ mode' = "raw" /\ UNCHANGED answer
          /\ found' = << >> /\ found' \in Seq(Candidate) /\ DistinctNames'
      BY <1>5, <2>1, <3>1, Dispatched
    <3>3. QED
      BY <1>3, <3>1, <3>2, NobodyChosen
  <2>2. CASE Answer("wrong_endpoint") /\ UNCHANGED <<mode, found>>
    BY <1>3, <2>2, NobodyChosen DEF Answer, Answers
  <2>3. QED
    BY <1>10, <2>1, <2>2 DEF ReadStyles
<1>11. CASE SelectForMessages
  <2> DEFINE m == IF asked.route = "messages" THEN "raw" ELSE "direct"
  <2>1. PICK c \in Candidates(SpeakingAnthropic) :
           IF c = << >>
           THEN pc' = "convert" /\ UNCHANGED <<mode, found, answer>>
           ELSE Dispatch(m, c)
    BY <1>11 DEF SelectForMessages
  <2>2. CASE c = << >>
    BY <1>3, <2>1, <2>2, NobodyChosen DEF Before
  <2>3. CASE Dispatch(m, c)
    <3>1. SpeakingAnthropic \in SUBSET DOMAIN providers /\ m \in Modes
      BY DEF SpeakingAnthropic, Modes
    <3>2. /\ pc' = "sending" /\ mode' = m /\ UNCHANGED answer
          /\ found' \in Seq(Candidate) /\ DistinctNames'
          /\ found' \in {<< >>, c}
      BY <1>4, <2>3, <3>1, Dispatched
    <3>3. Body' = "anthropic"
      BY <1>11, <3>2 DEF SelectForMessages, Body
    <3>4. \A i \in DOMAIN c : c[i].style = "Anthropic"
      BY <1>4, <3>1 DEF SpeakingAnthropic
    <3>5. FoundFits'
      BY <1>5, <3>2, <3>3, <3>4 DEF FoundFits
    <3>6. QED
      BY <1>3, <3>1, <3>2, <3>5, SomebodyChosen
  <2>4. QED
    BY <2>1, <2>2, <2>3
<1>12. CASE Convert
  <2> DEFINE m == IF asked.route = "messages" THEN "converted"
                                              ELSE "converted_stream"
  <2>1. PICK c \in Candidates(DOMAIN providers) : Dispatch(m, c)
    BY <1>12 DEF Convert
  <2>2. m \in Modes /\ m \notin {"raw", "direct"}
    BY DEF Modes
  <2>3. /\ pc' = "sending" /\ mode' = m /\ UNCHANGED answer
        /\ found' \in Seq(Candidate) /\ DistinctNames'
    BY <1>4, <2>1, <2>2, Dispatched
  <2>4. FoundFits'
    BY <2>2, <2>3 DEF FoundFits
  <2>5. QED
    BY <1>3, <2>2, <2>3, <2>4, SomebodyChosen
<1>13. QED
  BY <1>6, <1>7, <1>8, <1>9, <1>10, <1>11, <1>12 DEF Choosing

\* The heart of it: between the reads of a request the registry may have been
\* refreshed any number of times, but what the configuration put there was
\* found by each of them.
LEMMA ChoosingLeads ==
    ASSUME IInv, RegistrySound, Choosing
    PROVE  RouteLeads'
<1> DEFINE p == Reg!ConfigRoute(Model)
<1>1. pc \in Before /\ answer = "none" /\ UNCHANGED shared
  BY ChoosingShape DEF IInv, Unsent, Before
<1>2. CASE \E r \in Routes, m \in Models : Arrive(r, m)
  <2>1. PICK r \in Routes, m \in Models : Arrive(r, m)
    BY <1>2
  <2>2. CASE r = "proxy"
    BY <2>1, <2>2 DEF Arrive, RouteLeads
  <2>3. CASE r # "proxy"
    <3>1. pc' \in {"validate", "select"} /\ answer' = "none"
      BY <1>1, <2>1, <2>3 DEF Arrive
    <3>2. QED
      BY <3>1 DEF RouteLeads
  <2>4. QED
    BY <2>2, <2>3
<1>3. CASE ~\E r \in Routes, m \in Models : Arrive(r, m)
  <2>1. UNCHANGED <<asked, multi_provider_enabled>>
    BY <1>1, <1>3 DEF Choosing, ReadRegistry, ReadDiscovery, SelectForChat,
                      ReadStyles, SelectForMessages, Convert, shared
  <2>2. Model' = Model /\ (Suits' <=> Suits)
    BY <2>1 DEF Model, Suits
  <2> SUFFICES ASSUME Model \in Reg!ConfigModels, asked.route # "proxy"
               PROVE  /\ pc' = "discovery" => known'
                      /\ answer' # "unknown_model"
                      /\ multi_provider_enabled /\ Suits =>
                            /\ pc' \notin {"styles", "convert"}
                            /\ pc' \in {"sending", "done"} =>
                                  found' # << >> /\ found'[1].name = p
    BY <2>1, <2>2 DEF RouteLeads
  <2>3. /\ pc = "discovery" => known
        /\ multi_provider_enabled /\ Suits => pc \notin {"styles", "convert"}
    BY DEF IInv, RouteLeads
  <2>4. /\ p \in DOMAIN providers
        /\ Suits => p \in IF asked.route = "chat"
                          THEN SpeakingOpenAI ELSE SpeakingAnthropic
    BY ConfiguredStyle
  <2>5. CASE ReadRegistry
    <3>1. Served
      BY <2>4, ConfiguredLeads DEF Served
    <3>2. known' /\ pc' = "discovery" /\ answer' = "none"
      BY <1>1, <2>5, <3>1 DEF ReadRegistry
    <3>3. QED
      BY <3>2
  <2>6. CASE ReadDiscovery
    <3>1. pc = "discovery" /\ known
      BY <2>3, <2>6 DEF ReadDiscovery
    <3>2. pc' = "select" /\ answer' = "none"
      BY <1>1, <2>6, <3>1 DEF ReadDiscovery
    <3>3. QED
      BY <3>2
  <2>7. CASE SelectForChat
    <3>1. PICK c \in Candidates(SpeakingOpenAI) :
             IF c = << >> /\ multi_provider_enabled
             THEN pc' = "styles" /\ UNCHANGED <<mode, found, answer>>
             ELSE Dispatch("raw", c)
      BY <2>7 DEF SelectForChat
    <3>2. pc' \in {"styles", "sending"} /\ answer' = "none"
      BY <1>1, <3>1 DEF Dispatch
    <3>3. ASSUME multi_provider_enabled, Suits
          PROVE  pc' = "sending" /\ found' # << >> /\ found'[1].name = p
      <4>1. p \in SpeakingOpenAI /\ SpeakingOpenAI \in SUBSET DOMAIN providers
        BY <2>4, <2>7, <3>3 DEF SelectForChat, SpeakingOpenAI
      <4>2. c # << >> /\ c[1].name = p
        BY <4>1, ConfiguredLeads
      <4>3. QED
        BY <3>1, <3>3, <4>2 DEF Dispatch
    <3>4. QED
      BY <3>2, <3>3
  <2>8. CASE ReadStyles
    <3>1. ~(multi_provider_enabled /\ Suits)
      BY <2>3, <2>8 DEF ReadStyles
    <3>2. pc' # "discovery" /\ answer' # "unknown_model"
      BY <1>1, <2>8 DEF ReadStyles, Answer, Dispatch
    <3>3. QED
      BY <3>1, <3>2
  <2>9. CASE SelectForMessages
    <3> DEFINE m == IF asked.route = "messages" THEN "raw" ELSE "direct"
    <3>1. PICK c \in Candidates(SpeakingAnthropic) :
             IF c = << >>
             THEN pc' = "convert" /\ UNCHANGED <<mode, found, answer>>
             ELSE Dispatch(m, c)
      BY <2>9 DEF SelectForMessages
    <3>2. pc' \in {"convert", "sending"} /\ answer' = "none"
      BY <1>1, <3>1 DEF Dispatch
    <3>3. ASSUME multi_provider_enabled, Suits
          PROVE  pc' = "sending" /\ found' # << >> /\ found'[1].name = p
      <4>1. /\ p \in SpeakingAnthropic
            /\ SpeakingAnthropic \in SUBSET DOMAIN providers
        BY <2>4, <2>9, <3>3 DEF SelectForMessages, SpeakingAnthropic
      <4>2. c # << >> /\ c[1].name = p
        BY <4>1, ConfiguredLeads
      <4>3. QED
        BY <3>1, <3>3, <4>2 DEF Dispatch
    <3>4. QED
      BY <3>2, <3>3
  <2>10. CASE Convert
    <3>1. ~(multi_provider_enabled /\ Suits)
      BY <2>3, <2>10 DEF Convert
    <3>2. pc' = "sending" /\ answer' = "none"
      BY <1>1, <2>10 DEF Convert, Dispatch
    <3>3. QED
      BY <3>1, <3>2
  <2>11. QED
    BY <1>3, <2>5, <2>6, <2>7, <2>8, <2>9, <2>10 DEF Choosing
<1>4. QED
  BY <1>2, <1>3

LEMMA ChoosingKeeps ==
    ASSUME IInv, RegistrySound, Choosing
    PROVE  IInv'
<1>1. /\ pc \in Before /\ UNCHANGED <<shared, at, attempt, tried>>
      /\ asked' \in [route: Routes, model: Models]
      /\ known' \in BOOLEAN
      /\ mode' \in Modes /\ found' \in Seq(Candidate)
      /\ DistinctNames' /\ FoundFits'
      /\ \/ pc' \in Before /\ found' = << >> /\ answer' = "none"
         \/ pc' = "sending" /\ answer' = "none"
         \/ pc' = "done" /\ answer' \in Answers /\ found' = << >>
  BY ChoosingShape DEF Chosen, sending
<1>2. tried = << >> /\ tried' = << >> /\ at' = 1 /\ attempt' = 0
  BY <1>1 DEF IInv, Unsent
<1>3. RequestTypeOK'
  BY <1>1 DEF IInv, RequestTypeOK, Answers, shared
<1>4. Unsent'
  BY <1>1, <1>2 DEF Unsent, Before
<1>5. AtCandidate'
  <2>1. found' # << >> => Len(found') \in Nat \ {0}
    BY <1>1, EmptySeq
  <2>2. QED
    BY <1>2, <2>1 DEF AtCandidate, ToGateway
<1>6. Budget'
  <2>1. (1 - 1) * (1 + RetryAttempts) + 0 = 0 /\ Len(tried') = 0
    BY <1>2, FailoverAssumption
  <2>2. MaxAttempts * (1 + RetryAttempts) \in Nat
    BY FailoverAssumption, Multiples
  <2>3. QED
    BY <1>2, <2>1, <2>2 DEF Budget
<1>7. /\ SentToCandidates' /\ FirstGoesFirst' /\ Retrying'
      /\ LastHasFailed' /\ SentAgainOnlyAfterFailure'
  BY <1>2 DEF SentToCandidates, FirstGoesFirst, Retrying, LastHasFailed,
              SentAgainOnlyAfterFailure
<1>8. PassedExhausted'
  BY <1>1, <1>2 DEF PassedExhausted
<1>9. FailureExhaustsCandidates'
  BY <1>1 DEF FailureExhaustsCandidates, Before
<1>10. RouteLeads'
  BY ChoosingLeads
<1>11. QED
  BY <1>1, <1>3, <1>4, <1>5, <1>6, <1>7, <1>8, <1>9, <1>10 DEF IInv

LEMMA StepKeeps == IInv /\ RegistrySound /\ [Next]_vars => IInv'
<1> SUFFICES ASSUME IInv, RegistrySound, [Next]_vars PROVE IInv'
  OBVIOUS
<1>1. CASE Choosing
  BY <1>1, ChoosingKeeps
<1>2. CASE Retry
  BY <1>2, RetryKeeps
<1>3. CASE TimeOut
  BY <1>3, TimeOutKeeps
<1>4. ASSUME NEW o \in Outcomes, Settle(o) PROVE IInv'
  BY <1>4, SettleKeeps
<1>5. ASSUME NEW s \in Snapshots, Discover(s) \/ UpdateRegistry(s) PROVE IInv'
  <2>1. models' \subseteq Models
    BY <1>5, RegistryAssumption
    DEF Discover, UpdateRegistry, IInv, RequestTypeOK
  <2>2. QED
    BY <1>5, <2>1, OthersKeep DEF Discover, UpdateRegistry
<1>6. CASE UNCHANGED vars
  BY <1>6, OthersKeep DEF vars, IInv, RequestTypeOK
<1>7. QED
  BY <1>1, <1>2, <1>3, <1>4, <1>5, <1>6 DEF Next, Proceed, Choosing

-----------------------------------------------------------------------------
(* The theorems *)

LEMMA Inductive == Spec => [](IInv /\ RegistrySound)
BY Started, StepKeeps, RegistryStaysSound, PTL DEF Spec

\* Every variable keeps its type, the registry included, and one request
\* causes no more than MaxAttempts * (1 + RetryAttempts) exchanges.
THEOREM TypeCorrect == Spec => []TypeOK
<1>1. IInv /\ RegistrySound => TypeOK
  BY DEF IInv, RequestTypeOK, RegistrySound, Budget, TypeOK, Before, Candidate
<1>2. QED
  BY <1>1, Inductive, PTL

\* A request is sent a second time only for the reasons of MayFollow: a 429
\* to be retried, a failure of the provider, any bad status of a stream, or
\* the unreadable answer to a converted message (the loops of chat.rs,
\* messages.rs and client.rs).
THEOREM SentAgainForAReason == Spec => []SentAgainOnlyAfterFailure
<1>1. IInv => SentAgainOnlyAfterFailure
  BY DEF IInv
<1>2. QED
  BY <1>1, Inductive, PTL

\* A request fails only after the first MaxAttempts candidates have all had
\* it, each until its answer was final.
THEOREM NobodyIsSkipped == Spec => []FailureExhaustsCandidates
<1>1. IInv => FailureExhaustsCandidates
  BY DEF IInv
<1>2. QED
  BY <1>1, Inductive, PTL

\* Whatever refreshes do between the reads of a request, a model of the
\* configuration is never unknown, and the provider that the configuration
\* routes it to has the request first if it speaks the route's language.
THEOREM ConfigurationLeads == Spec => []ConfigRouteFirst
<1>1. IInv /\ RegistrySound => ConfigRouteFirst
  <2> SUFFICES ASSUME IInv, RegistrySound,
                      Model \in Reg!ConfigModels, asked.route # "proxy"
               PROVE  /\ answer # "unknown_model"
                      /\ LET p == Reg!ConfigRoute(Model)
                             fits == (providers[p].style = "Anthropic")
                                         <=> (asked.route # "chat")
                         IN  multi_provider_enabled /\ fits /\ tried # << >>
                                 => tried[1].to = p
    BY DEF ConfigRouteFirst, Model
  <2> DEFINE p == Reg!ConfigRoute(Model)
  <2>1. providers[p] = Reg!ConfigProvider(p)
    BY ConfiguredStyle
  <2>2. answer # "unknown_model"
    BY DEF IInv, RouteLeads
  <2>3. ASSUME multi_provider_enabled,
               (providers[p].style = "Anthropic") <=> (asked.route # "chat"),
               tried # << >>
        PROVE  tried[1].to = p
    <3>1. pc \in {"sending", "done"}
      BY <2>3 DEF IInv, RequestTypeOK, Unsent
    <3>2. found # << >> /\ found[1].name = p
      BY <2>1, <2>3, <3>1 DEF IInv, RouteLeads, Suits
    <3>3. QED
      BY <2>3, <3>2 DEF IInv, FirstGoesFirst, ToGateway
  <2>4. QED
    BY <2>2, <2>3
<1>2. QED
  BY <1>1, Inductive, PTL

\* A body that is forwarded as it came fits the provider it is sent to.
THEOREM BodiesFit == Spec => []ForwardedBodiesFit
<1>1. IInv => ForwardedBodiesFit
  <2> SUFFICES ASSUME IInv, mode \in {"raw", "direct"}, NEW k \in DOMAIN tried
               PROVE  Fits(tried[k])
    BY DEF ForwardedBodiesFit
  <2>1. tried[k].body = Body
    BY DEF IInv, SentToCandidates
  <2>2. CASE ToGateway
    BY <2>2 DEF IInv, SentToCandidates, Fits
  <2>3. CASE ~ToGateway
    <3>1. PICK i \in 1..at : tried[k].style = found[i].style
      BY <2>3 DEF IInv, SentToCandidates
    <3>2. i \in DOMAIN found
      BY <2>3 DEF IInv, AtCandidate, RequestTypeOK
    <3>3. QED
      BY <2>1, <3>1, <3>2 DEF IInv, FoundFits, Fits
  <2>4. QED
    BY <2>2, <2>3
<1>2. QED
  BY <1>1, Inductive, PTL

=============================================================================
