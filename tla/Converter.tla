------------------------------ MODULE Converter ------------------------------
(***************************************************************************)
(* OpenAIToAnthropicStreamConverter of src/src/types/conversion.rs, the    *)
(* stream it is fed by (build_anthropic_sse of routes/messages.rs), and    *)
(* the client that reads its events.  A line of the upstream is one        *)
(* `data:` line; texts and tool arguments are left out, and of the token   *)
(* counts the one of the input, which message_start reports before any is  *)
(* known.                                                                  *)
(***************************************************************************)
EXTENDS Naturals, FiniteSets, Sequences

LOCAL INSTANCE Functions  \* Range

CONSTANTS
    Ids,       \* the ids of tool calls
    None,      \* an id or an index that a fragment lacks
    Empty,     \* a `tool_calls` array without a fragment
    Dialects,  \* sets of the fragments that an upstream may send
    Reasons,   \* the finish_reason of a line that has one
    MaxLines   \* bound: the lines of a stream

Kinds == {"thinking", "text", "tool_use"}

\* The blocks of calls stay open until the message ends.
Overlapping == {"tool_use"}

\* A fragment of a tool call: its `index` and its `id`.
Fragment == [index: Nat \cup {None}, id: Ids \cup {None}]

ASSUME ConverterAssumption ==
    /\ None \notin Ids \cup Nat
    /\ \A d \in Dialects : d \subseteq Fragment /\ Empty \notin d
    /\ Empty # None /\ None \notin Reasons \cup {"length", "tool_calls"}
    /\ MaxLines \in Nat

VARIABLES
    conv,     \* the converter
    events,   \* what it has returned and the client has not yet read
    dialect,  \* how the upstream writes tool calls
    lines,    \* how many lines it has sent
    upstream, \* "streaming", "finished" or "closed"
    phase, blocks, \* the message as the client has it (MessageStream)
    heard,    \* history: what the upstream has said until it ended the message
    written   \* history: index of a call's block -> the fragments written there

client == <<phase, blocks>>
vars == <<conv, events, dialect, lines, upstream, client, heard, written>>

Message == INSTANCE MessageStream

-----------------------------------------------------------------------------
(* The converter.  Its operators take and give a pair of the state and the *)
(* events so far.                                                          *)

\* tool_blocks maps a slot to the id and the content block of its call.
New ==
    [message_started |-> FALSE, message_ended |-> FALSE,
     content_block_index |-> 0,
     text |-> FALSE, thinking |-> FALSE,  \* text_block_open, ...
     tool_blocks |-> << >>, tool_block_order |-> << >>,
     next_tool_slot |-> 0, last_tool_slot |-> None,
     output_tokens |-> 0, output_tokens_from_upstream |-> FALSE]

Event(type) == [type |-> type]
BlockEvent(type, kind, i) == [type |-> type, kind |-> kind, index |-> i]

Emit(p, e) == [p EXCEPT !.out = Append(@, e)]

StartMessage(p) ==
    IF p.c.message_started THEN p
    ELSE Emit([p EXCEPT !.c.message_started = TRUE], Event("message_start"))

\* `kind` is "text" or "thinking": the flag of its open block and its name.
CloseBlock(p, kind) ==
    IF ~p.c[kind] THEN p
    ELSE Emit([p EXCEPT !.c[kind] = FALSE, !.c.content_block_index = @ + 1],
              BlockEvent("stop", kind, p.c.content_block_index))

OpenBlock(p, kind) ==
    IF p.c[kind] THEN p
    ELSE Emit([p EXCEPT !.c[kind] = TRUE],
              BlockEvent("start", kind, p.c.content_block_index))

\* MUTANT: what the upstream has counted is counted on.
DeltaCounted(p, kind) ==
    Emit([p EXCEPT !.c.output_tokens = @ + 1],
         BlockEvent("delta", kind, p.c.content_block_index))

\* Without a count of the upstream each delta counts as a token.
Delta(p, kind) ==
    Emit([p EXCEPT !.c.output_tokens =
                        IF p.c.output_tokens_from_upstream THEN @ ELSE @ + 1],
         BlockEvent("delta", kind, p.c.content_block_index))

\* `usage` is the completion_tokens of a line, or None.
Count(p, usage) ==
    IF usage = None THEN p
    ELSE [p EXCEPT !.c.output_tokens = usage,
                   !.c.output_tokens_from_upstream = TRUE]

\* MUTANT: reasoning after text opens its block over that of the text.
ReasonOver(p) == Delta(OpenBlock(p, "thinking"), "thinking")

Reason(p) ==
    Delta(OpenBlock(IF p.c.thinking THEN p ELSE CloseBlock(p, "text"),
                    "thinking"), "thinking")

Say(p) == Delta(OpenBlock(CloseBlock(p, "thinking"), "text"), "text")

\* The slot of a fragment; where two calls have the same id, the iteration
\* order of the HashMap decides.
Slots(c, f) ==
    LET same == {s \in DOMAIN c.tool_blocks : c.tool_blocks[s].id = f.id}
    IN  IF f.index # None THEN {f.index}
        ELSE IF f.id = None
        THEN {IF c.last_tool_slot = None THEN 0 ELSE c.last_tool_slot}
        ELSE IF same = {} THEN {c.next_tool_slot} ELSE same

\* An id that the converter makes up is none of the upstream's.
Synthesized(c) == [call_synth |-> c.next_tool_slot]

\* A fresh slot, or a made-up id, takes the next number.
Numbered(c, f) ==
    IF f.index = None /\ f.id # None
        /\ \A s \in DOMAIN c.tool_blocks : c.tool_blocks[s].id # f.id
    THEN [c EXCEPT !.next_tool_slot = @ + 1] ELSE c


IsNewCall(c, f, slot) ==
    slot \in DOMAIN c.tool_blocks => f.id \notin {None, c.tool_blocks[slot].id}

OpenCall(p, f, slot) ==
    LET i == p.c.content_block_index
        id == IF f.id # None THEN f.id ELSE Synthesized(p.c)
        c == [p.c EXCEPT
                !.next_tool_slot = IF f.id = None THEN @ + 1 ELSE @,
                !.content_block_index = @ + 1,
                !.tool_block_order =
                    IF \E j \in DOMAIN @ : @[j] = slot THEN @
                                                       ELSE Append(@, slot),
                !.tool_blocks =
                    [s \in DOMAIN @ \cup {slot} |->
                        IF s = slot THEN [id |-> id, block_index |-> i]
                                    ELSE @[s]]]
    IN  Emit([p EXCEPT !.c = c], BlockEvent("start", "tool_use", i))

Call(p, f, slot) ==
    LET c == [Numbered(p.c, f) EXCEPT !.last_tool_slot = slot]
        q == [p EXCEPT !.c = c]
        r == IF IsNewCall(q.c, f, slot) THEN OpenCall(q, f, slot) ELSE q
    IN  Emit(r, BlockEvent("delta", "tool_use",
                           r.c.tool_blocks[slot].block_index))

\* MUTANT: the blocks of tool calls are left open.
CloseOpenTexts(p) == CloseBlock(CloseBlock(p, "thinking"), "text")

CloseOpenBlocks(p) ==
    LET q == CloseBlock(CloseBlock(p, "thinking"), "text")
        Stop(s) == BlockEvent("stop", "tool_use",
                              q.c.tool_blocks[s].block_index)
    IN  [q EXCEPT !.out =
            @ \o [j \in DOMAIN q.c.tool_block_order |->
                     Stop(q.c.tool_block_order[j])]]

StopReason(reason) ==
    CASE reason = "length"     -> "max_tokens"
      [] reason = "tool_calls" -> "tool_use"
      [] OTHER                 -> "end_turn"

Result(reason, tokens) ==
    [type |-> "message_delta", stop_reason |-> StopReason(reason),
     output_tokens |-> tokens]

\* MUTANT: a [DONE] after a finish_reason ends the message again.
EndAgain(p, reason) ==
    Emit(Emit(CloseOpenBlocks([p EXCEPT !.c.message_ended = TRUE]),
              Result(reason, p.c.output_tokens)),
         Event("message_stop"))

EndMessage(p, reason) ==
    IF p.c.message_ended THEN p
    ELSE Emit(Emit(CloseOpenBlocks([p EXCEPT !.c.message_ended = TRUE]),
                   Result(reason, p.c.output_tokens)),
              Event("message_stop"))

CloseStream(p) == IF p.c.message_started THEN EndMessage(p, "stop") ELSE p

\* What a line may hold; `call` is one fragment, for several in a row are
\* handled as if each came in a line of its own.  Bound: a count comes with
\* text or a finish_reason, or by itself.
Line(calls) ==
    [reasoning: BOOLEAN, content: BOOLEAN, call: calls \cup {None, Empty},
     finish: Reasons \cup {None}, usage: {None}]
        \cup [reasoning: {FALSE}, content: BOOLEAN, call: {None},
              finish: Reasons \cup {None}, usage: {10 + lines}]

\* MUTANT: a tool call opens its block over that of the text.
TextsLeftOpen(p, line) ==
    LET q == IF line.reasoning THEN Reason(p) ELSE p
    IN  IF line.content THEN Say(q) ELSE q

Texts(p, line) ==
    LET q == IF line.reasoning THEN Reason(p) ELSE p
        r == IF line.content THEN Say(q) ELSE q
    IN  IF line.call = None THEN r
        ELSE CloseBlock(CloseBlock(r, "thinking"), "text")

Finish(p, line) ==
    IF line.finish = None THEN p ELSE EndMessage(p, line.finish)

Processed(p, line) ==
    LET q == Texts(Count(StartMessage(p), line.usage), line)
    IN  IF line.call \in {None, Empty} THEN {Finish(q, line)}
        ELSE {Finish(Call(q, line.call, s), line) : s \in Slots(q.c, line.call)}

-----------------------------------------------------------------------------

Init ==
    /\ conv = New
    /\ events = << >>
    /\ dialect \in Dialects
    /\ lines = 0
    /\ upstream = "streaming"
    /\ Message!Init
    /\ heard = [usage |-> None, texts |-> 0, finish |-> None]
    /\ written = << >>

\* The stream is asked for more when all events have been read.
Asked == events = << >> /\ upstream # "closed"

Becomes(p) == conv' = p.c /\ events' = p.out

Now == [c |-> conv, out |-> << >>]

\* History: what a line adds while the message has not ended.
Hear(line) ==
    IF conv.message_ended THEN heard
    ELSE [usage |-> IF line.usage = None THEN heard.usage ELSE line.usage,
          texts |-> heard.texts + (IF line.reasoning THEN 1 ELSE 0)
                                + (IF line.content THEN 1 ELSE 0),
          finish |-> line.finish]

\* History: the fragment is written to the block that its delta names.
Write(p, fragment) ==
    IF fragment \in {None, Empty} THEN written
    ELSE LET delta == CHOOSE e \in Range(p.out) :
                          e.type = "delta" /\ e.kind = "tool_use"
         IN  [i \in DOMAIN written \cup {delta.index} |->
                 (IF i \in DOMAIN written THEN written[i] ELSE {})
                     \cup (IF i = delta.index THEN {fragment} ELSE {})]

Data ==
    /\ Asked /\ lines < MaxLines
    /\ lines' = lines + 1
    /\ \E line \in Line(dialect) :
          /\ \E p \in Processed(Now, line) :
                Becomes(p) /\ written' = Write(p, line.call)
          /\ upstream' = IF line.finish # None THEN "finished" ELSE upstream
          /\ heard' = Hear(line)
    /\ UNCHANGED <<dialect, client>>

Done ==
    /\ Asked /\ lines < MaxLines
    /\ lines' = lines + 1
    /\ Becomes(CloseStream(Now))
    /\ upstream' = "finished"
    /\ UNCHANGED <<dialect, client, heard, written>>

\* The line buffer is beyond its limit: what it holds is given up.
Overflow ==
    /\ Asked /\ lines < MaxLines
    /\ lines' = lines + 1
    /\ Becomes(CloseStream(Emit(Now, Event("error"))))
    /\ UNCHANGED <<dialect, upstream, client, heard, written>>

\* A chunk in error, such as one beyond the size limit, is reported as it
\* is; the stream may go on.
Broken ==
    /\ Asked /\ lines < MaxLines
    /\ lines' = lines + 1
    /\ Becomes(Emit(Now, Event("error")))
    /\ UNCHANGED <<dialect, upstream, client, heard, written>>

\* The upstream ends the response: nothing tells the converter.
Close ==
    /\ Asked
    /\ upstream' = "closed"
    /\ UNCHANGED <<conv, events, dialect, lines, client, heard, written>>

\* The client reads the next event, until it has seen message_stop.
Understood(e) ==
    CASE e.type = "message_start" -> phase' = "open" /\ UNCHANGED blocks
      [] e.type = "message_delta" -> phase' = "ending" /\ UNCHANGED blocks
      [] e.type = "message_stop"  -> phase' = "stopped" /\ UNCHANGED blocks
      [] e.type = "start" ->
            /\ blocks' = [i \in DOMAIN blocks \cup {e.index} |->
                             IF i = e.index THEN [kind |-> e.kind, open |-> TRUE]
                                            ELSE blocks[i]]
            /\ UNCHANGED phase
      [] e.type = "stop" ->
            /\ blocks' = [i \in DOMAIN blocks \cup {e.index} |->
                             IF i = e.index
                             THEN [kind |-> e.kind, open |-> FALSE]
                             ELSE blocks[i]]
            /\ UNCHANGED phase
      [] OTHER -> UNCHANGED <<phase, blocks>>

Deliver ==
    /\ events # << >>
    /\ events' = Tail(events)
    /\ IF phase = "stopped" THEN UNCHANGED client ELSE Understood(Head(events))
    /\ UNCHANGED <<conv, dialect, lines, upstream, heard, written>>

Next == Data \/ Done \/ Overflow \/ Broken \/ Close \/ Deliver

Spec == Init /\ [][Next]_vars

-----------------------------------------------------------------------------
(* Properties *)

\* At most one of the two text blocks is open, and every event of a block is
\* for one of the indices given out so far.
TypeOK ==
    /\ conv \in
         [message_started: BOOLEAN, message_ended: BOOLEAN,
          content_block_index: Nat, text: BOOLEAN, thinking: BOOLEAN,
          tool_blocks: {conv.tool_blocks}, tool_block_order: Seq(Nat),
          next_tool_slot: Nat, last_tool_slot: Nat \cup {None},
          output_tokens: Nat, output_tokens_from_upstream: BOOLEAN]
    /\ ~(conv.text /\ conv.thinking)
    /\ \A s \in DOMAIN conv.tool_blocks :
          conv.tool_blocks[s].block_index < conv.content_block_index
    /\ dialect \in Dialects /\ lines \in 0..MaxLines
    /\ upstream \in {"streaming", "finished", "closed"}
    /\ phase \in {"new", "open", "ending", "stopped"}
    /\ \A i \in DOMAIN blocks :
          blocks[i] \in Message!Block /\ i <= conv.content_block_index

\* What the client gets is the beginning of a message, up to message_stop,
\* in the sequence of MessageStream: however the upstream mixes reasoning,
\* text and fragments of any form, ends the message once or twice, or
\* breaks.  It may be a beginning only: when the upstream closes without
\* finish_reason and [DONE], nobody ends the message (messages.rs:423),
\* though docs/tutorials/04-anthropic-conversion.md:428 says close_stream does.
WellFormed == Message!Spec

\* Each piece of content goes to an open block of its kind; the converter
\* never writes to a block it has not announced or has closed.
DeltasFit ==
    events # << >> /\ phase # "stopped" /\ Head(events).type = "delta" =>
        LET e == Head(events)
        IN  /\ e.index \in DOMAIN blocks
            /\ blocks[e.index] = [kind |-> e.kind, open |-> TRUE]


\* When the message ends, the blocks left open are those of the calls whose
\* slot another call has taken over: the books have forgotten them
\* (conversion.rs:953-963 stops the blocks that tool_blocks still has; docs/
\* explanation/format-conversion.md:189 promises it of every open block).
OnlyTakenOverStayOpen ==
    phase = "ending" =>
        \A i \in DOMAIN blocks :
            blocks[i].open <=>
                /\ blocks[i].kind = "tool_use"
                /\ \A s \in DOMAIN conv.tool_blocks :
                      conv.tool_blocks[s].block_index # i

\* A finish_reason ends the message, once the client has read up to there; and
\* a [DONE] after it, or two of either, end it no second time: after message_stop the converter ends or starts it no more (the flags
\* message_started and message_ended).  Content may still come after it, for
\* process_openai_chunk does not look at message_ended.
EndsOnce ==
    /\ heard.finish # None /\ events = << >> => phase = "stopped"
    /\ phase = "stopped" =>
          \A i \in DOMAIN events :
              events[i].type \notin
                  {"message_start", "message_delta", "message_stop"}

\* The message ends with the reason that the upstream has given, if it has,
\* and with its last count of the tokens up to there; only without any the
\* texts are counted (docs/explanation/format-conversion.md:167).
UsageReported ==
    events # << >> /\ phase # "stopped" /\ Head(events).type = "message_delta" =>
        /\ Head(events).output_tokens =
              IF heard.usage # None THEN heard.usage ELSE heard.texts
        /\ Head(events).stop_reason = StopReason(heard.finish)

=============================================================================
