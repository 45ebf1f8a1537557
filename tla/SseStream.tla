------------------------------ MODULE SseStream ------------------------------
(***************************************************************************)
(* A stream on its way from the upstream to the client.  Its bytes, cut    *)
(* into chunks anywhere, become text in make_utf8_stream                   *)
(* (src/src/proxy/client.rs), and the text lines on one of three paths:    *)
(* /v1/proxy, through SseLineBuffer and process_sse_chunk_lines            *)
(* (src/src/routes/streaming.rs); Anthropic-direct, where                  *)
(* process_sse_chunk_lines_anthropic takes the chunks as they come         *)
(* (src/src/routes/messages.rs); and converted, through the converter's    *)
(* own line buffer (src/src/types/conversion.rs; what it makes of the      *)
(* lines is in Converter).                                                 *)
(***************************************************************************)
EXTENDS Naturals, FiniteSets, Sequences, SequencesExt, Utf8

CONSTANTS
    Streams,       \* what an upstream may send: sequences of messages
    None,          \* no event type
    MaxLineBuffer, \* the two MAX_LINE_BUFFER, in bytes
    MaxSizes       \* the values of max_streaming_size_bytes

\* A message is an optional `event:` line and a `data:` line.  Of the data
\* we keep its place in the stream, what is_thinking_block reads, and the
\* sizes of the characters of its text; a size of 0 is an invalid byte.
Inners == {"text", "thinking", "thinking_delta", "[DONE]"}

ASSUME SseAssumption ==
    /\ \A s \in Streams : s \in Seq([type: {None, "start", "delta"},
                                     inner: Inners, text: Seq(0..4)])
    /\ MaxLineBuffer \in Nat \ {0}
    /\ MaxSizes \subseteq Nat

VARIABLES
    path,             \* "proxy", "direct" or "converted"
    include_thinking,
    max_size,         \* max_streaming_size_bytes
    sent,             \* the stream of this upstream
    terminated,       \* does it end its last line?
    wire,             \* the bytes it has not yet sent of it
    total,            \* total_bytes
    leftover,         \* make_utf8_stream: the bytes not yet decoded
    buf,              \* SseLineBuffer.buf or the converter's line_buffer
    open,             \* is the connection to the upstream open?
    out,              \* history: the events that the client got
    hole              \* history: a chunk was dropped

constants == <<path, include_thinking, max_size, sent, terminated>>

vars == <<constants, wire, total, leftover, buf, open, out, hole>>

-----------------------------------------------------------------------------
(* The text of a stream *)

Ascii(part, of) == [part |-> part, of |-> of, size |-> 1]

NL == Ascii("nl", 0)

TypeLine(s, i) ==
    IF s[i].type = None THEN << >> ELSE <<Ascii("event", i), NL>>

\* A JSON text up to its own text, that text, and what comes after it.
DataLine(s, i) ==
    <<Ascii("data", i)>> \o
    [k \in DOMAIN s[i].text |->
        [part |-> "text", of |-> i, size |-> s[i].text[k]]] \o
    <<Ascii("rest", i)>>

\* i is the place of the message in the stream.
Text(s) ==
    FlattenSeq([i \in DOMAIN s |->
        TypeLine(s, i) \o DataLine(s, i) \o <<NL, NL>>])

Encoded(text) == FlattenSeq([i \in DOMAIN text |-> Encode(text[i])])

Bytes(text) == FoldLeft(LAMBDA n, c : n + c.size, 0, text)

-----------------------------------------------------------------------------
(* Decoding *)

\* MUTANT: what does not decode is replaced at once.
DecodedAtOnce(b) == [text |-> Lossy(b), rest |-> << >>]

\* The text that a buffer gives, and what stays of it.
Decoded(b) ==
    LET n == ValidUpTo(b)
    IN  IF n > 0 \/ b = << >>
        THEN [text |-> Lossy(SubSeq(b, 1, n)), rest |-> SubSeq(b, n + 1, Len(b))]
        ELSE IF Len(b) > 4 + Needed(b)
        THEN [text |-> Lossy(b), rest |-> << >>]
        ELSE [text |-> << >>, rest |-> b]

-----------------------------------------------------------------------------
(* Lines *)

NotBlank(line) == line # << >>

Extend(lines, p) ==
    IF p = NL THEN Append(lines, << >>)
              ELSE [lines EXCEPT ![Len(lines)] = Append(@, p)]

LinesOf(text) == SelectSeq(FoldLeft(Extend, << << >> >>, text), NotBlank)

LastBreak(text) == SelectLastInSeq(text, LAMBDA p : p = NL)

Complete(text) == SubSeq(text, 1, LastBreak(text))

\* The whole characters up to the cap; what is beyond is not looked at for
\* now.
Scanned(text) ==
    SubSeq(text, 1, Max({n \in 0..Len(text) :
                            Bytes(SubSeq(text, 1, n)) <= MaxLineBuffer}))

\* MUTANT: an overflow ends the line at the cap.
PushedAtCap(text) ==
    IF Bytes(text) > MaxLineBuffer THEN LinesOf(Scanned(text))
                                   ELSE LinesOf(Complete(Scanned(text)))

\* The lines that push returns for the buffer and a chunk together ...
Pushed(text) == LinesOf(Complete(Scanned(text)))

\* ... and what it keeps.
Kept(text) == SubSeq(text, LastBreak(Scanned(text)) + 1, Len(text))

-----------------------------------------------------------------------------
(* Events *)

\* Is the line JSON, whatever has become of the text inside of it?
IsJson(line) ==
    LET inside == SubSeq(line, 2, Len(line) - 1)
    IN  /\ Len(line) > 1 /\ Last(line) = Ascii("rest", line[1].of)
        /\ \A k \in DOMAIN inside : inside[k].part \in {"text", "other"}

\* What a line that is no `event:` line makes the client see.
DataEvent(type, line) ==
    [type |-> IF sent[line[1].of].inner = "[DONE]" THEN None ELSE type,
     data |-> line[1].of,
     json |-> IsJson(line),
     whole |-> line = DataLine(sent, line[1].of)]

Empty == [type |-> None, data |-> 0, json |-> TRUE, whole |-> TRUE]
Error == [type |-> "error", data |-> 0, json |-> TRUE, whole |-> TRUE]

\* An `event:` line that has swallowed more than its type.
TypeOf(line) == IF Len(line) = 1 THEN sent[line[1].of].type ELSE "garbled"

\* is_thinking_block, which looks for "thinking" in a delta as well.
IsThinkingBlock(i) == sent[i].inner = "thinking"

\* What is no JSON is passed on.
ShouldInclude(e) ==
    e.json /\ sent[e.data].inner # "[DONE]" /\ IsThinkingBlock(e.data)
        => include_thinking

\* MUTANT: only the first type of a chunk is read.
ProxyLineFirst(acc, line) ==
    CASE line[1].part = "event" ->
            [acc EXCEPT !.type = IF @ = None THEN TypeOf(line) ELSE @]
      [] line[1].part = "data" ->
            LET e == DataEvent(acc.type, line)
            IN  IF ShouldInclude(e) THEN [acc EXCEPT !.out = Append(@, e)]
                                    ELSE acc
      [] OTHER -> acc

ProxyLine(acc, line) ==
    CASE line[1].part = "event" -> [acc EXCEPT !.type = TypeOf(line)]
      [] line[1].part = "data" ->
            LET e == DataEvent(acc.type, line)
            IN  IF ShouldInclude(e) THEN [acc EXCEPT !.out = Append(@, e)]
                                    ELSE acc
      [] OTHER -> acc

ProxyEvents(lines) ==
    LET r == FoldLeft(ProxyLine, [type |-> None, out |-> << >>], lines)
    IN  IF r.out = << >> THEN <<Empty>> ELSE r.out

\* MUTANT: the type stays for the messages that follow.
DirectLineKept(acc, line) ==
    CASE line[1].part = "event" -> [acc EXCEPT !.type = TypeOf(line)]
      [] line[1].part = "data" ->
            [acc EXCEPT !.out = Append(@, DataEvent(acc.type, line))]
      [] OTHER -> acc

\* The type is used up by the data it precedes, which [DONE] does not count
\* as.
DirectLine(acc, line) ==
    CASE line[1].part = "event" -> [acc EXCEPT !.type = TypeOf(line)]
      [] line[1].part = "data" ->
            [type |-> IF sent[line[1].of].inner = "[DONE]" THEN acc.type
                                                           ELSE None,
             out |-> Append(acc.out, DataEvent(acc.type, line))]
      [] OTHER -> acc

DirectEvents(text) ==
    FoldLeft(DirectLine, [type |-> None, out |-> << >>], LinesOf(text)).out

\* The converter leaves out types, and data that is no JSON.
ConvertedEvents(lines) ==
    LET IsTaken(line) == line[1].part = "data" /\ IsJson(line)
        taken == SelectSeq(lines, IsTaken)
    IN  [k \in DOMAIN taken |-> DataEvent(None, taken[k])]

-----------------------------------------------------------------------------

Init ==
    /\ path \in {"proxy", "direct", "converted"}
    /\ include_thinking \in (IF path = "proxy" THEN BOOLEAN ELSE {TRUE})
    /\ sent \in Streams
    /\ max_size \in MaxSizes
    /\ terminated \in BOOLEAN
    /\ LET bytes == Encoded(Text(sent))
       IN  wire = SubSeq(bytes, 1, Len(bytes) - IF terminated THEN 0 ELSE 2)
    /\ total = 0
    /\ leftover = << >>
    /\ buf = << >>
    /\ open = TRUE
    /\ out = << >>
    /\ hole = FALSE

\* buffered_lines passes nothing on for a chunk that ends no line.
ProxyText(text) ==
    LET lines == Pushed(buf \o text)
    IN  /\ buf' = Kept(buf \o text)
        /\ out' = IF lines = << >> THEN out ELSE out \o ProxyEvents(lines)

DirectText(text) == out' = out \o DirectEvents(text) /\ UNCHANGED buf

\* convert_chunk gives up its buffer where it is beyond the cap.
ConvertedText(text) ==
    LET all == buf \o text
    IN  IF Bytes(all) > MaxLineBuffer
        THEN buf' = << >> /\ out' = Append(out, Error)
        ELSE /\ buf' = SubSeq(all, LastBreak(all) + 1, Len(all))
             /\ out' = out \o ConvertedEvents(LinesOf(Complete(all)))

Parse(text) ==
    CASE path = "proxy"     -> ProxyText(text)
      [] path = "direct"    -> DirectText(text)
      [] path = "converted" -> ConvertedText(text)

Chunk(n) ==
    /\ open
    /\ total + n <= max_size
    /\ total' = total + n
    /\ wire' = SubSeq(wire, n + 1, Len(wire))
    /\ LET d == Decoded(leftover \o SubSeq(wire, 1, n))
       IN  leftover' = d.rest /\ Parse(d.text)
    /\ UNCHANGED <<constants, open, hole>>

\* MUTANT: the bytes beyond the limit are left out without an error.
TooLargeSilent(n) ==
    /\ open
    /\ total + n > max_size
    /\ wire' = SubSeq(wire, n + 1, Len(wire))
    /\ hole' = TRUE
    /\ UNCHANGED <<constants, total, leftover, buf, open, out>>

\* A chunk that would exceed the limit is an error in its place; the stream
\* goes on with the next one.
TooLarge(n) ==
    /\ open
    /\ total + n > max_size
    /\ wire' = SubSeq(wire, n + 1, Len(wire))
    /\ out' = Append(out, Error)
    /\ hole' = TRUE
    /\ UNCHANGED <<constants, total, leftover, buf, open>>

\* MUTANT: what is in the buffer is given up.
CloseAtOnce ==
    /\ open /\ wire = << >>
    /\ open' = FALSE
    /\ UNCHANGED <<constants, wire, total, leftover, buf, out, hole>>

\* The end of the stream ends the last line; only the proxy path has it.
Flush ==
    IF path = "proxy" /\ buf # << >>
    THEN ProxyEvents(LinesOf(buf)) ELSE << >>

\* Nobody looks at the bytes that are left over.
Close ==
    /\ open /\ wire = << >>
    /\ open' = FALSE
    /\ buf' = << >>
    /\ out' = out \o Flush
    /\ UNCHANGED <<constants, wire, total, leftover, hole>>

\* The connection breaks: an error, and the end of the stream after it.
Break ==
    /\ open
    /\ open' = FALSE
    /\ buf' = << >>
    /\ out' = Append(out, Error) \o Flush
    /\ UNCHANGED <<constants, wire, total, leftover, hole>>

Next ==
    \/ \E n \in 1..Len(wire) : Chunk(n) \/ TooLarge(n)
    \/ Close \/ Break

Spec == Init /\ [][Next]_vars

-----------------------------------------------------------------------------
(* Properties *)

Event == [type: {None, "start", "delta", "garbled", "error"}, data: Nat,
          json: BOOLEAN, whole: BOOLEAN]

TypeOK ==
    /\ path \in {"proxy", "direct", "converted"}
    /\ include_thinking \in BOOLEAN /\ terminated \in BOOLEAN
    /\ max_size \in MaxSizes
    /\ sent \in Streams
    /\ wire \in Seq(Range(Encoded(Text(sent))))
    /\ total \in 0..max_size
    /\ leftover \in Seq(Range(Encoded(Text(sent))))
    /\ buf \in Seq(Range(Text(sent)) \cup {Other})
    /\ path = "direct" => buf = << >>
    /\ open \in BOOLEAN /\ hole \in BOOLEAN
    /\ out \in Seq(Event)

IsData(e) == e.data # 0

Got == SelectSeq(out, IsData)

Broken == Error \in Range(out)

\* What the client gets before it is told of an error.
GotInTime ==
    SelectSeq(IF Broken THEN SubSeq(out, 1, SelectInSeq(out, LAMBDA e : e = Error))
                        ELSE out, IsData)

\* The places of the messages that the client should get.
Wanted ==
    SelectSeq([i \in DOMAIN sent |-> i],
              LAMBDA i : IsThinkingBlock(i) => include_thinking)

\* Is the end of a message still among the bytes not decoded?
IsHeld(i) == \E k \in DOMAIN leftover : leftover[k].char = Ascii("rest", i)

\* Only the proxy path takes the end of the stream for that of a line.
LostWithItsLineEnd(i) ==
    path = "converted" /\ ~terminated /\ i = Len(sent)

\* However the network cuts the stream into chunks, whatever the line
\* buffers hold back, and whether or not its text decodes, the data comes
\* complete, once and in order until the client is told of an error: a
\* chunk that the size limit drops is never passed over in silence.  When
\* the stream has ended without one, all has come but what is left over
\* behind an invalid byte (CHANGELOG.md:29 and :36).
LinesReassembled ==
    path # "direct" =>
        LET got == [i \in DOMAIN GotInTime |-> GotInTime[i].data]
        IN  /\ open \/ leftover = << >> =>
                  /\ IsPrefix(got, Wanted)
                  /\ \A i \in DOMAIN GotInTime : GotInTime[i].json
            /\ ~open /\ ~Broken =>
                  \A i \in Range(Wanted) :
                      \/ i \in Range(got)
                      \/ IsHeld(i) \/ LostWithItsLineEnd(i)

IsValid(s) == \A i \in DOMAIN s : 0 \notin Range(s[i].text)

\* A character that a chunk boundary divides is put together again: of text
\* that is valid nothing is replaced before an error, and nothing is held
\* back but the beginning of one character (client.rs:23).
TextIntact ==
    ~hole /\ IsValid(sent) =>
        /\ path # "direct" => \A i \in DOMAIN GotInTime : GotInTime[i].whole
        /\ leftover # << >> =>
              /\ Begins(leftover, 1) /\ Len(leftover) < leftover[1].char.size
              /\ \A k \in 2..Len(leftover) : Continues(leftover, k)

\* The type in force at a message: its own, or else the last one before it.
TypeInForce(i) ==
    LET typed == {j \in 1..i : sent[j].type # None}
    IN  IF typed = {} THEN None ELSE sent[Max(typed)].type

\* The data of an event may come without its type, for a chunk boundary
\* between the two lines loses it, but never with one that it must not
\* have: on the direct path that is any type but its own, on the proxy path
\* any but the one in force, which data without a type may get from the
\* messages before it (streaming.rs:403; in a stream whose messages all have
\* a type that is their own again).  The documentation promises more, and
\* TypesPreserved says it.
NoStrayType ==
    ~hole =>
        \A i \in DOMAIN Got :
            LET e == Got[i]
            IN  e.type \in {None, IF path = "proxy" THEN TypeInForce(e.data)
                                                   ELSE sent[e.data].type}

\* What an event carries is its own, up to the types that are lost or, of data
\* without one, taken over.
EventsIntact == TextIntact /\ NoStrayType

\* Each event has the type that the upstream has sent with its data.  docs/
\* reference/api-endpoints.md:198, of /v1/proxy: "Preserves upstream event
\* types"; docs/explanation/format-conversion.md:197, of the direct path:
\* "This preserves event types".  Does not hold, of either.
TypesPreserved ==
    path # "converted" /\ ~hole =>
        \A i \in DOMAIN Got :
            sent[Got[i].data].inner # "[DONE]" =>
                Got[i].type = sent[Got[i].data].type

\* CHANGELOG.md:29: a line buffer "now reassembles complete lines before
\* parsing on both passthrough paths".
DirectLinesReassembled ==
    path = "direct" /\ ~hole => \A i \in DOMAIN out : out[i].json

=============================================================================
