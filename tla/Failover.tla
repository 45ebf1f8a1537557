------------------------------ MODULE Failover ------------------------------
(***************************************************************************)
(* One request on its way upstream: src/src/routes/chat.rs, messages.rs    *)
(* and proxy.rs over src/src/proxy/client.rs, with the registry (Registry  *)
(* as it is) and the discovered models changing under it.  Requests share  *)
(* nothing but what they read there, so one of them is enough.  Request    *)
(* validation and the contents of bodies are left out.                     *)
(***************************************************************************)
EXTENDS Naturals, FiniteSets, Sequences

CONSTANTS
    Names, Models, Namespaced, Config, Snapshots,  \* as in Registry
    Gateway,       \* the default gateway as a destination
    RetryAttempts, \* upstream_retry_attempts
    MaxAttempts    \* MAX_FAILOVER_ATTEMPTS

ASSUME FailoverAssumption ==
    /\ Models # {}
    /\ Gateway \notin Names
    /\ RetryAttempts \in Nat
    /\ MaxAttempts \in Nat \ {0}

VARIABLES
    providers, model_to_provider, applied,  \* Registry
    models,                 \* the keys of ModelDiscovery.models
    multi_provider_enabled, \* Config.multi_provider_enabled
    pc,
    asked,                  \* the route that was asked, and the model
    known,                  \* provider_has_model
    mode,                   \* which of the senders the handler has chosen
    found,                  \* the candidates in hand; none is the gateway
    at, attempt,            \* the candidate tried, and its retries so far
    answer,                 \* what the client got
    tried                   \* history: every exchange with an upstream

registry == <<providers, model_to_provider, applied>>
request == <<pc, asked, known, mode, found, at, attempt, answer, tried>>
vars == <<registry, models, multi_provider_enabled, request>>

Reg == INSTANCE Registry

\* What Registry assumes, and that a snapshot is a finite map.
ASSUME RegistryAssumption ==
    /\ Config \in Seq(Reg!ConfigEntry)
    /\ \A i, j \in DOMAIN Config :
          Config[i].name = Config[j].name => i = j
    /\ \A s \in Snapshots :
          /\ s \in [DOMAIN s -> (SUBSET Models) \ {{}}]
          /\ DOMAIN s \subseteq Names
          /\ IsFiniteSet(DOMAIN s)

\* POST /v1/chat/completions, /v1/messages with and without `stream`, and
\* /v1/proxy, which insists on it.
Routes == {"chat", "messages", "messages_stream", "proxy"}

\* "unreadable" is a success whose body breaks off, is too large or, where
\* it has to be converted, is no JSON; "quota" is a 429 that says that
\* nothing remains; "broken" is a connection error, a timeout or an address
\* that validate_provider_url_host refuses.
Outcomes == {"ok", "unreadable", "client_error", "too_many", "quota",
             "server_error", "broken"}

\* raw: proxy_handler_multi.  direct: handle_anthropic_direct_streaming.
\* converted, converted_stream: the two handle_..._conversion.
\* passed: handle_proxy_stream.
Modes == {"raw", "direct", "converted", "converted_stream", "passed"}

Streams == {"direct", "converted_stream", "passed"}

-----------------------------------------------------------------------------

Model == asked.model

SpeakingAnthropic == {p \in DOMAIN providers : providers[p].style = "Anthropic"}
SpeakingOpenAI == DOMAIN providers \ SpeakingAnthropic

\* What the handlers read of the candidates they keep.
Candidates(S) ==
    {[i \in DOMAIN q |-> [name |-> q[i], style |-> providers[q[i]].style]] :
        q \in Reg!GetProvidersForModel(Model, S)}

Served == << >> \notin Candidates(DOMAIN providers)

Init ==
    /\ Reg!Init
    /\ \E s \in Snapshots : models = UNION {s[p] : p \in DOMAIN s}
    /\ multi_provider_enabled \in BOOLEAN
    /\ pc = "idle"
    /\ asked = [route |-> "chat", model |-> CHOOSE m \in Models : TRUE]
    /\ known = FALSE
    /\ mode = "raw"
    /\ found = << >>
    /\ at = 1
    /\ attempt = 0
    /\ answer = "none"
    /\ tried = << >>

shared == <<registry, models, multi_provider_enabled>>
sending == <<at, attempt, tried>>

Answer(a) == pc' = "done" /\ answer' = a

\* proxy_handler_multi ignores the providers when multi-provider routing is
\* off; the other senders use what they are given.
Dispatch(m, candidates) ==
    /\ pc' = "sending"
    /\ mode' = m
    /\ found' = IF m = "raw" /\ ~multi_provider_enabled THEN << >>
                                                       ELSE candidates
    /\ UNCHANGED answer

Arrive(r, m) ==
    /\ pc = "idle"
    /\ asked' = [route |-> r, model |-> m]
    /\ IF r = "proxy"
       THEN Dispatch("passed", << >>)
       ELSE /\ pc' = IF multi_provider_enabled THEN "validate" ELSE "select"
            /\ UNCHANGED <<mode, found, answer>>
    /\ UNCHANGED <<shared, known, sending>>

\* Whether anybody has the model is read in two steps.
ReadRegistry ==
    /\ pc = "validate"
    /\ known' = Served
    /\ pc' = "discovery"
    /\ UNCHANGED <<shared, asked, mode, found, answer, sending>>

\* MUTANT: only the models that were discovered count.
ReadDiscoveryOnly ==
    /\ pc = "discovery"
    /\ IF Model \in models
       THEN pc' = "select" /\ UNCHANGED answer
       ELSE Answer("unknown_model")
    /\ UNCHANGED <<shared, asked, known, mode, found, sending>>

ReadDiscovery ==
    /\ pc = "discovery"
    /\ IF known \/ Model \in models
       THEN pc' = "select" /\ UNCHANGED answer
       ELSE Answer("unknown_model")
    /\ UNCHANGED <<shared, asked, known, mode, found, sending>>

\* MUTANT: chat takes every provider of the model.
SelectAnyForChat ==
    /\ pc = "select"
    /\ asked.route = "chat"
    /\ \E q \in Candidates(DOMAIN providers) : Dispatch("raw", q)
    /\ UNCHANGED <<shared, asked, known, sending>>

\* chat_completions takes the providers that speak OpenAI.
SelectForChat ==
    /\ pc = "select"
    /\ asked.route = "chat"
    /\ \E fit \in Candidates(SpeakingOpenAI) :
          IF fit = << >> /\ multi_provider_enabled
          THEN pc' = "styles" /\ UNCHANGED <<mode, found, answer>>
          ELSE Dispatch("raw", fit)
    /\ UNCHANGED <<shared, asked, known, sending>>

\* It finds none, and reads the registry again to say why.
ReadStyles ==
    /\ pc = "styles"
    /\ IF << >> \notin Candidates(SpeakingAnthropic)
       THEN Answer("wrong_endpoint") /\ UNCHANGED <<mode, found>>
       ELSE Dispatch("raw", << >>)
    /\ UNCHANGED <<shared, asked, known, sending>>

\* anthropic_messages prefers the providers that speak Anthropic ...
SelectForMessages ==
    /\ pc = "select"
    /\ asked.route \in {"messages", "messages_stream"}
    /\ \E fit \in Candidates(SpeakingAnthropic) :
          IF fit = << >>
          THEN pc' = "convert" /\ UNCHANGED <<mode, found, answer>>
          ELSE Dispatch(IF asked.route = "messages" THEN "raw"
                                                    ELSE "direct", fit)
    /\ UNCHANGED <<shared, asked, known, sending>>

\* ... and otherwise reads the registry again and takes them as they come.
Convert ==
    /\ pc = "convert"
    /\ \E q \in Candidates(DOMAIN providers) :
          Dispatch(IF asked.route = "messages" THEN "converted"
                                               ELSE "converted_stream", q)
    /\ UNCHANGED <<shared, asked, known, sending>>

-----------------------------------------------------------------------------
(* Sending: send_with_429_retry, the forward_request_... and the loops *)

Body == IF mode = "direct" \/ (mode = "raw" /\ asked.route = "messages")
        THEN "anthropic" ELSE "openai"

ToGateway == found = << >>

Log(o) ==
    tried' = Append(tried,
        [to      |-> IF ToGateway THEN Gateway ELSE found[at].name,
         style   |-> IF ToGateway THEN "any" ELSE found[at].style,
         body    |-> Body,
         outcome |-> o])

\* A 429 that may pass is retried after a delay.
Retry ==
    /\ pc = "sending"
    /\ attempt < RetryAttempts
    /\ attempt' = attempt + 1
    /\ Log("too_many")
    /\ UNCHANGED <<shared, pc, asked, known, mode, found, at, answer>>

\* forward_request makes every failure an error; forward_request_stream
\* hands a bad status on as a stream of a single error.
GatewayAnswer(o) ==
    IF o = "ok" \/ (o = "unreadable" /\ mode \in Streams)
    THEN "ok"
    ELSE IF o = "broken" \/ mode \notin Streams
         THEN "bad_gateway" ELSE "error_event"

\* The outcomes that the senders report as an error of the provider.
Failures ==
    CASE mode \in Streams    -> Outcomes \ {"ok", "unreadable"}
      [] mode = "converted"  -> {"server_error", "broken", "unreadable"}
      [] OTHER               -> {"server_error", "broken"}

\* What the client gets of an outcome that is no failure of the provider.
ProviderAnswer(o) ==
    CASE o = "unreadable" /\ mode = "raw" -> "bad_gateway"
      [] o = "unreadable" /\ mode # "raw" -> "ok"
      [] o \in {"too_many", "quota"}       -> "too_many"
      [] OTHER                             -> o

\* A single provider, and every stream, ends in 502; failover in the last
\* status.
AllFailed(o) ==
    IF o = "server_error" /\ Len(found) > 1 /\ mode \notin Streams
    THEN "server_error" ELSE "bad_gateway"

\* MUTANT: a candidate is skipped.
NextOfTwo(o) ==
    IF at + 1 < MaxAttempts /\ at + 1 < Len(found)
    THEN /\ at' = at + 2
         /\ attempt' = 0
         /\ UNCHANGED <<pc, answer>>
    ELSE /\ Answer(AllFailed(o))
         /\ UNCHANGED <<at, attempt>>

TryNext(o) ==
    IF at < MaxAttempts /\ at < Len(found)
    THEN /\ at' = at + 1
         /\ attempt' = 0
         /\ UNCHANGED <<pc, answer>>
    ELSE /\ Answer(AllFailed(o))
         /\ UNCHANGED <<at, attempt>>

\* MUTANT: an answer is taken for an error, and the next provider tried.
SettleNever(o) ==
    /\ pc = "sending"
    /\ ~(o = "too_many" /\ attempt < RetryAttempts)
    /\ Log(o)
    /\ TryNext(o)
    /\ UNCHANGED <<shared, asked, known, mode, found>>

\* MUTANT: the loop starts over when all have failed.
SettleForEver(o) ==
    /\ pc = "sending"
    /\ ~(o = "too_many" /\ attempt < RetryAttempts)
    /\ IF ~ToGateway /\ o \in Failures
       THEN /\ at' = IF at < MaxAttempts /\ at < Len(found) THEN at + 1 ELSE 1
            /\ attempt' = 0
            /\ UNCHANGED <<pc, answer, tried>>
       ELSE /\ Answer(IF ToGateway THEN GatewayAnswer(o) ELSE ProviderAnswer(o))
            /\ Log(o)
            /\ UNCHANGED <<at, attempt>>
    /\ UNCHANGED <<shared, asked, known, mode, found>>

\* The last exchange with a destination.
Settle(o) ==
    /\ pc = "sending"
    /\ ~(o = "too_many" /\ attempt < RetryAttempts)
    /\ Log(o)
    /\ IF ToGateway
       THEN Answer(GatewayAnswer(o)) /\ UNCHANGED <<at, attempt>>
       ELSE IF o \in Failures
            THEN TryNext(o)
            ELSE Answer(ProviderAnswer(o)) /\ UNCHANGED <<at, attempt>>
    /\ UNCHANGED <<shared, asked, known, mode, found>>

\* MUTANT: a timeout is taken for the answer to the request.
TimeOutForGood ==
    /\ pc = "sending"
    /\ ~ToGateway /\ mode \in Streams /\ attempt > 0
    /\ Answer("bad_gateway")
    /\ UNCHANGED <<shared, asked, known, mode, found, sending>>

\* For a stream of a provider one time limit spans all retries: it may end
\* the delay before one.
TimeOut ==
    /\ pc = "sending"
    /\ ~ToGateway /\ mode \in Streams /\ attempt > 0
    /\ TryNext("broken")
    /\ UNCHANGED <<shared, asked, known, mode, found, tried>>

-----------------------------------------------------------------------------

\* The fetches of Refresh: the two states change one after the other, and
\* when fetches overlap in any order.
Discover(s) ==
    /\ models' = UNION {s[p] : p \in DOMAIN s}
    /\ UNCHANGED <<registry, multi_provider_enabled, request>>

UpdateRegistry(s) ==
    /\ Reg!UpdateFromDiscovery(s)
    /\ UNCHANGED <<models, multi_provider_enabled, request>>

Proceed ==
    \/ ReadRegistry \/ ReadDiscovery
    \/ SelectForChat \/ ReadStyles \/ SelectForMessages \/ Convert
    \/ Retry \/ TimeOut \/ \E o \in Outcomes : Settle(o)

Next ==
    \/ \E r \in Routes, m \in Models : Arrive(r, m)
    \/ Proceed
    \/ \E s \in Snapshots : Discover(s) \/ UpdateRegistry(s)

Spec == Init /\ [][Next]_vars

\* Every exchange ends, by an answer or the timeouts of the client, and every
\* lock is given back: a request that has arrived goes on.
LiveSpec == Spec /\ WF_vars(Proceed)

-----------------------------------------------------------------------------
(* Properties *)

Answers == {"none", "ok", "bad_gateway", "server_error", "client_error",
            "too_many", "error_event", "unknown_model", "wrong_endpoint"}

Exchange == [to: Names \cup {Gateway}, style: Reg!Styles \cup {"any"},
             body: {"openai", "anthropic"}, outcome: Outcomes]

\* Nothing but the MaxAttempts * (1 + RetryAttempts) exchanges that the two
\* loops allow is ever sent for one request, whatever the registry does.
TypeOK ==
    /\ Reg!TypeOK
    /\ models \subseteq Models
    /\ multi_provider_enabled \in BOOLEAN
    /\ pc \in {"idle", "validate", "discovery", "select", "styles",
               "convert", "sending", "done"}
    /\ asked \in [route: Routes, model: Models]
    /\ known \in BOOLEAN
    /\ mode \in Modes
    /\ found \in Seq([name: Names, style: Reg!Styles])
    /\ at \in 1..MaxAttempts /\ attempt \in 0..RetryAttempts
    /\ answer \in Answers
    /\ tried \in Seq(Exchange)
    /\ Len(tried) <= MaxAttempts * (1 + RetryAttempts)

\* When the exchange f may follow e.  The destination is the same only after
\* a 429 that is retried.  Another one gets the body after a failure of the
\* provider; a stream also after any other bad status (client.rs:505-521);
\* and a message that is converted also after a success whose body cannot
\* be read (messages.rs:170, 176), although the upstream has done, and
\* bills, what it was asked.  These two are more than docs/explanation/
\* multi-provider-routing.md:160 ("failover only happens on server-side
\* failures") and docs/how-to/setup-multi-provider.md:100 ("4xx responses are
\* returned to the client immediately") allow.
MayFollow(e, f) ==
    \/ f.to = e.to /\ e.outcome = "too_many"
    \/ /\ f.to # e.to
       /\ \/ e.outcome \in {"server_error", "broken"}
          \/ /\ mode \in Streams
             /\ e.outcome \in {"client_error", "too_many", "quota"}
          \/ mode = "converted" /\ e.outcome = "unreadable"

\* What an upstream has answered is never asked again, of it or of another
\* one, but for the cases of MayFollow.
SentAgainOnlyAfterFailure ==
    \A i \in 1..(Len(tried) - 1) : MayFollow(tried[i], tried[i + 1])

\* A request fails only after the first MaxAttempts candidates have all had
\* it, in the order of the registry, each until its own answer was final.
FailureExhaustsCandidates ==
    pc = "done" /\ found # << >> /\ tried[Len(tried)].outcome \in Failures =>
        \A i \in 1..MaxAttempts : i \in DOMAIN found =>
            \E j \in DOMAIN tried :
                /\ tried[j].to = found[i].name
                /\ tried[j].outcome \in Failures
                /\ \A k \in (j + 1)..Len(tried) : tried[k].to # found[i].name

\* However a refresh changes the registry between the reads of a request, a
\* model of an enabled provider of the configuration is never unknown, and
\* the provider the configuration routes it to has the request first,
\* provided it speaks the language of the route.
ConfigRouteFirst ==
    asked.model \in Reg!ConfigModels /\ asked.route # "proxy" =>
        /\ answer # "unknown_model"
        /\ LET p == Reg!ConfigRoute(Model)
               fits == (providers[p].style = "Anthropic")
                           <=> (asked.route # "chat")
           IN  multi_provider_enabled /\ fits /\ tried # << >>
                   => tried[1].to = p

Fits(e) == e.style = "any" \/ (e.style = "Anthropic" <=> e.body = "anthropic")

\* A body that is forwarded as it came fits the provider it is sent to,
\* though it was chosen by a registry that has changed since.  Of a body that
\* is converted it is not so: messages.rs:764 reads the registry once more and
\* takes all of its providers (docs/how-to/setup-multi-provider.md:90 has them
\* openai_v1 or openai_direct).
ForwardedBodiesFit ==
    mode \in {"raw", "direct"} => \A i \in DOMAIN tried : Fits(tried[i])

\* Every request is answered: the retries and the failover come to an end.
EveryRequestAnswered == [](pc # "idle" => <>(pc = "done"))

=============================================================================
