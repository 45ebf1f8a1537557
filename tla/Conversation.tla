------------------------------ MODULE Conversation ------------------------------
(***************************************************************************)
(* An Anthropic client that talks to OpenAI providers through the router,  *)
(* turn by turn: anthropic_request_to_openai converts the whole history    *)
(* of every request, openai_response_to_anthropic every answer, and the    *)
(* client sends that answer back as a part of its next request             *)
(* (src/src/types/conversion.rs).                                          *)
(***************************************************************************)
EXTENDS Naturals, SequencesExt

CONSTANTS
    Texts, Empty,   \* texts, and the empty one
    Calls, NoCall,  \* ids of tool calls
    Systems,        \* the system prompts: sequences of blocks
    Extras,         \* what a user may say around the results of a turn: the
                    \* blocks before and after them
    Returns,        \* what tools return: a content and is_error
    Natives,        \* what an Anthropic provider may answer
    MaxTurns        \* bound: the messages of a conversation

ASSUME ConversationAssumption ==
    /\ Empty \notin Texts /\ NoCall \notin Calls
    /\ MaxTurns \in Nat

VARIABLES
    system,   \* the system prompt of the client
    history,  \* the messages of the client: role and content blocks
    sent,     \* the messages of the last converted request
    replies   \* history: what the upstreams said, before any conversion

vars == <<system, history, sent, replies>>

-----------------------------------------------------------------------------
(* Blocks of the Anthropic format, and parts of the OpenAI format.  A       *)
(* content that is a string converts like one text block.                   *)

Text(t) == [type |-> "text", text |-> t]
Thinking == [type |-> "thinking"]

\* The input of a call is an object: one with fields, or an empty one.
ToolUse(c, input) == [type |-> "tool_use", id |-> c, input |-> input]

Result(c, r) ==
    [type |-> "tool_result", id |-> c, content |-> r.content,
     is_error |-> r.is_error]

\* thinking stands for redacted_thinking too.
IsThinking(b) == b.type = "thinking"

IsText(b) == b.type = "text"
IsCall(b) == b.type = "tool_use"
IsResult(b) == b.type = "tool_result"

Each(Op(_), s) == [i \in DOMAIN s |-> Op(s[i])]

Without(Test(_), s) == SelectSeq(s, LAMBDA b : ~Test(b))

\* An image becomes an image_url, what has no equivalent a text of its JSON.
AsPart(b) ==
    IF b.type \in {"text", "image"} THEN b ELSE [type |-> "json", of |-> b.type]

\* Content that is a string keeps its texts, which a newline joins.
String(texts) == [form |-> "string", parts |-> texts]
Parts(parts) == [form |-> "parts", parts |-> parts]
Null == [form |-> "null", parts |-> << >>]

Message(role, content, calls, answers) ==
    [role |-> role, content |-> content, calls |-> calls, answers |-> answers]

-----------------------------------------------------------------------------
(* anthropic_request_to_openai *)

\* convert_blocks_to_openai_content, and the same loop of
\* convert_anthropic_message: reasoning has no equivalent.
AsParts(blocks) == Each(AsPart, Without(IsThinking, blocks))

\* convert_anthropic_message
Plain(role, blocks) ==
    LET content == IF \A i \in DOMAIN blocks : IsText(blocks[i])
                   THEN String(blocks)
                   ELSE Parts(AsParts(blocks))
    IN  <<Message(role, content, << >>, NoCall)>>

\* convert_tool_result_content_to_openai: a single text is a string.
Returned(content) ==
    LET parts == Each(AsPart, content.parts)
    IN  IF content.form = "parts" /\ (Len(parts) # 1 \/ parts[1].type = "image")
        THEN Parts(parts) ELSE String(parts)

\* The "Error: " in front of what a tool that failed has returned.
Mark == [type |-> "error"]

\* MUTANT: a failure is marked by the flag alone, which has no equivalent.
ToolMessageUnmarked(b) == Message("tool", Returned(b.content), << >>, b.id)

\* A result that failed is marked where it is a string.
ToolMessage(b) ==
    LET content == Returned(b.content)
    IN  Message("tool",
                IF b.is_error /\ content.form = "string"
                THEN String(<<Mark>> \o content.parts) ELSE content,
                << >>, b.id)

\* The input of a call becomes the string of its arguments.
ToolCall(b) == [id |-> b.id, arguments |-> b.input]

\* MUTANT: a turn with calls forgets its text.
CallsOnly(blocks) ==
    LET calls == SelectSeq(blocks, IsCall)
        rest == Without(IsThinking, blocks)
    IN  IF calls # << >>
        THEN <<Message("assistant", Null, Each(ToolCall, calls), NoCall)>>
        ELSE IF rest = << >> THEN << >> ELSE Plain("assistant", rest)

\* A turn with calls is one message; one of nothing but reasoning is none.
AssistantTurn(blocks) ==
    LET calls == SelectSeq(blocks, IsCall)
        texts == SelectSeq(blocks, IsText)
        rest == Without(IsThinking, blocks)
    IN  IF calls # << >>
        THEN <<Message("assistant",
                       IF texts = << >> THEN Null ELSE String(texts),
                       Each(ToolCall, calls), NoCall)>>
        ELSE IF rest = << >> THEN << >> ELSE Plain("assistant", rest)

\* MUTANT: the text of a user comes before the results.
TextFirst(blocks) ==
    LET results == SelectSeq(blocks, IsResult)
        parts == AsParts(Without(IsResult, blocks))
    IN  IF results = << >> THEN Plain("user", blocks)
        ELSE (IF parts = << >> THEN << >>
              ELSE <<Message("user", Parts(parts), << >>, NoCall)>>)
             \o Each(ToolMessage, results)

\* MUTANT: a turn with results has nothing else.
ResultsOnly(blocks) ==
    LET results == SelectSeq(blocks, IsResult)
    IN  IF results = << >> THEN Plain("user", blocks)
        ELSE Each(ToolMessage, results)

\* The results follow the calls they answer, the rest of the turn them.
UserTurn(blocks) ==
    LET results == SelectSeq(blocks, IsResult)
        parts == AsParts(Without(IsResult, blocks))
    IN  IF results = << >> THEN Plain("user", blocks)
        ELSE Each(ToolMessage, results)
             \o (IF parts = << >> THEN << >>
                 ELSE <<Message("user", Parts(parts), << >>, NoCall)>>)

Expanded(m) ==
    IF m.role = "assistant" THEN AssistantTurn(m.content) ELSE UserTurn(m.content)

\* The texts of the system prompt come first, unless there are none.
SystemMessage ==
    LET texts == SelectSeq(system, IsText)
    IN  IF texts \in {<< >>, <<Text(Empty)>>} THEN << >>
        ELSE <<Message("system", String(texts), << >>, NoCall)>>

ConvertRequest(messages) ==
    SystemMessage \o FlattenSeq(Each(Expanded, messages))

-----------------------------------------------------------------------------
(* openai_response_to_anthropic *)

\* The arguments of a call are the text of an object with fields, or, where
\* the model has stopped short (Bound: in its last call), no JSON.
Reply ==
    {[thinks |-> th, text |-> t,
      calls |-> [i \in DOMAIN ids |->
                    [id |-> ids[i],
                     arguments |-> IF cut /\ i = Len(ids) THEN "broken"
                                                         ELSE "fields"]]] :
        th \in BOOLEAN, t \in Texts \cup {Empty},
        ids \in SetToAllKPermutations(Calls), cut \in BOOLEAN}

\* MUTANT: a call whose arguments do not parse is left out.
ParsedCalls(calls) ==
    Each(LAMBDA c : ToolUse(c.id, c.arguments),
         SelectSeq(calls, LAMBDA c : c.arguments # "broken"))

\* Arguments that do not parse become an empty object.
UseOf(c) ==
    ToolUse(c.id, IF c.arguments = "broken" THEN "empty" ELSE c.arguments)

Uses(calls) == Each(UseOf, calls)

\* An answer of nothing is an empty text; null and empty content are one.
ConvertResponse(reply) ==
    LET content == (IF reply.thinks THEN <<Thinking>> ELSE << >>)
                   \o (IF reply.text # Empty THEN <<Text(reply.text)>> ELSE << >>)
                   \o Uses(reply.calls)
    IN  IF content = << >> THEN <<Text(Empty)>> ELSE content

-----------------------------------------------------------------------------

Init ==
    /\ system \in Systems
    /\ history = << >> /\ sent = << >> /\ replies = << >>

CallsOf(blocks) == Each(ToolCall, SelectSeq(blocks, IsCall))

Pending ==
    IF history = << >> THEN << >>
    ELSE Each(LAMBDA c : c.id, CallsOf(Last(history).content))

\* The client and the upstreams take turns.
UsersTurn == Len(history) % 2 = 0

\* The results of the pending calls, in some order; bound: of one kind.
Answers ==
    {Each(LAMBDA c : Result(c, r), order) :
        order \in SetToSeqs(ToSet(Pending)), r \in Returns}

\* A request: the client sends its whole history and a new turn, in which it
\* answers every call, as the format demands; it may add blocks around them.
Ask ==
    /\ UsersTurn /\ Len(history) < MaxTurns
    /\ \E results \in Answers, around \in Extras :
        LET content == around.before \o results \o around.after
        IN  /\ content # << >>
            /\ history' = Append(history, [role |-> "user", content |-> content])
    /\ sent' = ConvertRequest(history')
    /\ UNCHANGED <<system, replies>>

Said(text, calls) == [texts |-> SelectSeq(text, LAMBDA t : t # Empty), calls |-> calls]

\* An OpenAI provider answers; the client keeps the converted answer.
Answer ==
    /\ ~UsersTurn /\ Len(history) < MaxTurns
    /\ \E reply \in Reply :
        /\ history' = Append(history, [role |-> "assistant",
                                       content |-> ConvertResponse(reply)])
        /\ replies' = Append(replies, Said(<<reply.text>>, reply.calls))
    /\ UNCHANGED <<system, sent>>

\* An Anthropic provider answered that request instead, without conversion.
NativeAnswer ==
    /\ ~UsersTurn /\ Len(history) < MaxTurns
    /\ \E blocks \in Natives :
        /\ history' = Append(history, [role |-> "assistant", content |-> blocks])
        /\ replies' = Append(replies,
                             Said(Each(LAMBDA b : b.text, SelectSeq(blocks, IsText)),
                                  CallsOf(blocks)))
    /\ UNCHANGED <<system, sent>>

Next == Ask \/ Answer \/ NativeAnswer

Spec == Init /\ [][Next]_vars

-----------------------------------------------------------------------------
(* Properties *)

TypeOK ==
    /\ \A i \in DOMAIN history :
        history[i].role = IF i % 2 = 1 THEN "user" ELSE "assistant"
    /\ \A i \in DOMAIN sent :
        /\ sent[i].role \in {"system", "user", "assistant", "tool"}
        /\ sent[i].role # "assistant" => sent[i].calls = << >>
        /\ (sent[i].role = "tool") <=> (sent[i].answers \in Calls)
    /\ Len(replies) = Len(history) \div 2

TextsIn(parts) == Each(LAMBDA b : b.text, SelectSeq(parts, IsText))

\* What the upstreams said in earlier turns comes back to them as they said
\* it, turn by turn: their texts and their calls in order, whatever provider
\* or format each turn came from.  Arguments come back too, unless they were
\* no JSON.  Only turns without either may be missing, and nothing else
\* comes back, least of all reasoning (CHANGELOG.md:30: "They are now
\* stripped in all request-conversion paths").
RepliesReturn ==
    LET assistant == SelectSeq(sent, LAMBDA m : m.role = "assistant")
        returned == Each(LAMBDA m : Said(TextsIn(m.content.parts), m.calls), assistant)
        earlier == IF UsersTurn /\ replies # << >> THEN Front(replies) ELSE replies
        Silent(s) == s = Said(<< >>, << >>)
        got == Without(Silent, returned)
        said == Without(Silent, earlier)
    IN  /\ Len(got) = Len(said)
        /\ \A i \in DOMAIN said :
              /\ got[i].texts = said[i].texts
              /\ Len(got[i].calls) = Len(said[i].calls)
              /\ \A j \in DOMAIN said[i].calls :
                    \/ got[i].calls[j] = said[i].calls[j]
                    \/ /\ said[i].calls[j].arguments = "broken"
                       /\ got[i].calls[j].id = said[i].calls[j].id
        /\ \A i \in DOMAIN assistant :
              \A j \in DOMAIN assistant[i].content.parts :
                  IsText(assistant[i].content.parts[j])

\* "OpenAI requires role:"tool" messages to immediately follow the assistant
\* message carrying the matching tool_calls": calls and results alternate
\* with nothing in between, and every call has its result.
ToolMessagesFollow ==
    \A i \in DOMAIN sent : sent[i].role \in {"assistant", "tool"} =>
        LET start == Max({j \in 1..i : sent[j].role # "tool"} \cup {0})
            stop == Min({j \in (i + 1)..Len(sent) : sent[j].role # "tool"}
                        \cup {Len(sent) + 1})
            results == {sent[j].answers : j \in (start + 1)..(stop - 1)}
        IN  /\ start # 0
            /\ results = {sent[start].calls[j].id : j \in DOMAIN sent[start].calls}
            /\ stop - start - 1 = Len(sent[start].calls)

AskedMessages == SelectSeq(history, LAMBDA m : m.role = "user")

\* The results that the tools have returned, and the messages they became.
Results ==
    SelectSeq(FlattenSeq(Each(LAMBDA m : m.content, AskedMessages)), IsResult)

ToolMessages == SelectSeq(sent, LAMBDA m : m.role = "tool")

\* What the user says arrives: every text, image and unknown block of all the
\* turns, once and in order, also when it stood between results; and so do
\* all parts of every result.  Whatever its turn and its place there, the
\* result of a call that failed begins with a mark if it is a string or one
\* block that becomes a string, and no other result has one: a failure that
\* returns an image or several blocks comes unmarked (conversion.rs:361,
\* though docs/explanation/format-conversion.md:212 says of all "error tool
\* results" that they get the prefix).
UserHeard ==
    LET users == SelectSeq(sent, LAMBDA m : m.role = "user")
        AsString(content) ==
            \/ content.form = "string"
            \/ Len(content.parts) = 1 /\ content.parts[1].type # "image"
    IN  /\ FlattenSeq(Each(LAMBDA m : Each(AsPart, Without(IsResult, m.content)),
                           AskedMessages))
               = FlattenSeq(Each(LAMBDA m : m.content.parts, users))
        /\ Len(ToolMessages) = Len(Results)
        /\ \A i \in DOMAIN Results :
              LET r == Results[i]
                  mark == IF r.is_error /\ AsString(r.content)
                          THEN <<Mark>> ELSE << >>
              IN  ToolMessages[i].content.parts
                      = mark \o Each(AsPart, r.content.parts)

=============================================================================
