-------------------------- MODULE ConverterProofs --------------------------
(***************************************************************************)
(* Proofs about Converter, for streams of any length, any number of calls  *)
(* and whatever fragments the upstream sends: what the client reads is a   *)
(* message of MessageStream up to message_stop, with the deltas in open    *)
(* blocks, the last counts, and open to the end but the calls whose slot   *)
(* another call has taken over.                                            *)
(*                                                                         *)
(* The converter runs ahead of the client by the events that have not been *)
(* read.  The invariant closes the gap: it runs the client over them, and  *)
(* compares its blocks with the converter's books at the end of that run.  *)
(***************************************************************************)
EXTENDS Converter, FiniteSetTheorems, SequenceTheorems, TLAPS

-----------------------------------------------------------------------------
(* What a client makes of events *)

\* An event of the stream.
StreamEvent ==
    [type: {"message_start", "message_stop", "error"}]
      \cup [type: {"start", "stop", "delta"}, kind: Kinds, index: Nat]
      \cup [type: {"message_delta"},
            stop_reason: {"max_tokens", "tool_use", "end_turn"},
            output_tokens: Nat]

\* A client: the message as it has it.
ClientWith(ph, b) == [phase |-> ph, blocks |-> b]

Client == ClientWith(phase, blocks)

\* The block of the event is open, and of its kind.
Announced(b, e) ==
    /\ e.index \in DOMAIN b
    /\ b[e.index] = [kind |-> e.kind, open |-> TRUE]

OnlyCallsOpen(b) == \A i \in DOMAIN b : b[i].open => b[i].kind \in Overlapping

\* A client in state m may expect the event.
Expected(m, e) ==
    \/ e.type = "error"
    \/ e.type = "message_start" /\ m.phase = "new"
    \/ /\ e.type = "start" /\ m.phase = "open" /\ DOMAIN m.blocks = 0..(e.index - 1)
       /\ OnlyCallsOpen(m.blocks)
    \/ e.type \in {"stop", "delta"} /\ m.phase = "open" /\ Announced(m.blocks, e)
    \/ e.type = "message_delta" /\ m.phase = "open" /\ OnlyCallsOpen(m.blocks)
    \/ e.type = "message_stop" /\ m.phase = "ending"

WithBlock(b, e, open) ==
    [i \in DOMAIN b \cup {e.index} |->
        IF i = e.index THEN [kind |-> e.kind, open |-> open] ELSE b[i]]

\* The client after the event.
After(m, e) ==
    CASE e.type = "message_start" -> ClientWith("open", m.blocks)
      [] e.type = "message_delta" -> ClientWith("ending", m.blocks)
      [] e.type = "message_stop"  -> ClientWith("stopped", m.blocks)
      [] e.type = "start" -> ClientWith(m.phase, WithBlock(m.blocks, e, TRUE))
      [] e.type = "stop"  -> ClientWith(m.phase, WithBlock(m.blocks, e, FALSE))
      [] OTHER -> m

\* The client m becomes n by the event, or has stopped reading.
Reads(m, e, n) ==
    \/ m.phase = "stopped" /\ n = m
    \/ m.phase # "stopped" /\ Expected(m, e) /\ n = After(m, e)

\* The client m becomes n by the events es, each of which it expects.
Leads(m, es, n) ==
    \E run : /\ run[0] = m /\ run[Len(es)] = n
             /\ \A i \in 1..Len(es) : Reads(run[i - 1], es[i], run[i])

LEMMA LeadsNowhere == \A m : Leads(m, << >>, m)
<1> TAKE m
<1> DEFINE run == [i \in {0} |-> m]
<1>1. run[0] = m /\ Len(<< >>) = 0 /\ 1..0 = {}
  OBVIOUS
<1> HIDE DEF run
<1>2. QED
  BY <1>1 DEF Leads

\* A client that has stopped takes no notice of anything.
LEMMA LeadsStopped ==
    ASSUME NEW S, NEW es \in Seq(S), NEW m, m.phase = "stopped"
    PROVE  Leads(m, es, m)
<1> DEFINE run == [i \in 0..Len(es) |-> m]
<1>1. Len(es) \in Nat
  OBVIOUS
<1>2. /\ run[0] = m /\ run[Len(es)] = m
      /\ \A i \in 1..Len(es) : run[i - 1] = m /\ run[i] = m
  BY <1>1
<1> HIDE DEF run
<1>3. QED
  BY <1>2 DEF Leads, Reads

\* Runs can be put together.
LEMMA LeadsOn ==
    ASSUME NEW S, NEW es \in Seq(S), NEW fs \in Seq(S), NEW m, NEW n, NEW k,
           Leads(m, es, n), Leads(n, fs, k)
    PROVE  Leads(m, es \o fs, k)
<1> DEFINE a == Len(es)
           b == Len(fs)
<1>1. PICK r : /\ r[0] = m /\ r[a] = n
               /\ \A i \in 1..a : Reads(r[i - 1], es[i], r[i])
  BY DEF Leads
<1>2. PICK q : /\ q[0] = n /\ q[b] = k
               /\ \A i \in 1..b : Reads(q[i - 1], fs[i], q[i])
  BY DEF Leads
<1> DEFINE run == [i \in 0..(a + b) |-> IF i <= a THEN r[i] ELSE q[i - a]]
<1>3. a \in Nat /\ b \in Nat /\ Len(es \o fs) = a + b
  OBVIOUS
<1> HIDE DEF a, b
<1>4. /\ \A i \in 0..a : run[i] = r[i]
      /\ \A i \in 0..b : run[i + a] = q[i]
  <2>1. \A i \in 0..a : run[i] = r[i]
    BY <1>3
  <2>2. ASSUME NEW i \in 0..b PROVE run[i + a] = q[i]
    <3>1. CASE i = 0
      BY <1>1, <1>2, <1>3, <2>1, <3>1
    <3>2. CASE i # 0
      <4>1. i + a \in 0..(a + b) /\ ~(i + a <= a) /\ (i + a) - a = i
        BY <1>3, <3>2
      <4>2. QED
        BY <4>1
    <3>3. QED
      BY <3>1, <3>2
  <2>3. QED
    BY <2>1, <2>2
<1> HIDE DEF run
<1>5. /\ \A i \in 1..a : (es \o fs)[i] = es[i]
      /\ \A i \in 1..b : (es \o fs)[i + a] = fs[i]
  BY DEF a, b
<1>6. ASSUME NEW i \in 1..(a + b)
      PROVE  Reads(run[i - 1], (es \o fs)[i], run[i])
  <2>1. CASE i <= a
    <3>1. i \in 1..a /\ i \in 0..a /\ i - 1 \in 0..a
      BY <1>3, <2>1
    <3>2. QED
      BY <1>1, <1>4, <1>5, <3>1
  <2>2. CASE ~(i <= a)
    <3>1. PICK j \in 1..b : i = j + a /\ i - 1 = (j - 1) + a
      <4>1. i - a \in 1..b /\ i = (i - a) + a /\ i - 1 = ((i - a) - 1) + a
        BY <1>3, <2>2
      <4>2. QED
        BY <4>1
    <3>2. j \in 0..b /\ j - 1 \in 0..b
      BY <1>3
    <3>3. run[i] = q[j] /\ run[i - 1] = q[j - 1] /\ (es \o fs)[i] = fs[j]
      BY <1>4, <1>5, <3>1, <3>2
    <3>4. QED
      BY <1>2, <3>3
  <2>3. QED
    BY <2>1, <2>2
<1>7. run[0] = m /\ run[a + b] = k
  <2>1. 0 \in 0..a /\ b \in 0..b /\ b + a = a + b
    BY <1>3
  <2>2. QED
    BY <1>1, <1>2, <1>4, <2>1
<1>8. QED
  BY <1>3, <1>6, <1>7 DEF Leads

LEMMA LeadsByOne ==
    ASSUME NEW m, NEW e, NEW n, Reads(m, e, n)
    PROVE  Leads(m, << e >>, n)
<1> DEFINE run == [i \in 0..1 |-> IF i = 0 THEN m ELSE n]
<1>1. run[0] = m /\ run[1] = n
  OBVIOUS
<1> HIDE DEF run
<1>2. Len(<< e >>) = 1 /\ << e >>[1] = e /\ 1..1 = {1} /\ 1 - 1 = 0
  OBVIOUS
<1>3. QED
  BY <1>1, <1>2 DEF Leads

LEMMA LeadsFurther ==
    ASSUME NEW S, NEW es \in Seq(S), NEW e \in S, NEW m, NEW n, NEW k,
           Leads(m, es, n), Reads(n, e, k)
    PROVE  Leads(m, Append(es, e), k)
<1>1. << e >> \in Seq(S) /\ Append(es, e) = es \o << e >>
  OBVIOUS
<1>2. Leads(n, << e >>, k)
  BY LeadsByOne
<1>3. QED
  BY <1>1, <1>2, LeadsOn

\* The first event is read, the others are still to be read.
LEMMA LeadsAway ==
    ASSUME NEW S, NEW es \in Seq(S), es # << >>, NEW m, NEW n, Leads(m, es, n)
    PROVE  \E k : Reads(m, Head(es), k) /\ Leads(k, Tail(es), n)
<1> DEFINE a == Len(es)
<1>1. PICK r : /\ r[0] = m /\ r[a] = n
               /\ \A i \in 1..a : Reads(r[i - 1], es[i], r[i])
  BY DEF Leads
<1>2. /\ a \in Nat \ {0} /\ Len(Tail(es)) = a - 1 /\ Head(es) = es[1]
      /\ \A i \in 1..(a - 1) : Tail(es)[i] = es[i + 1]
  OBVIOUS
<1> HIDE DEF a
<1> DEFINE run == [i \in 0..(a - 1) |-> r[i + 1]]
<1>3. run[0] = r[1] /\ run[a - 1] = n
  <2>1. 0 \in 0..(a - 1) /\ a - 1 \in 0..(a - 1) /\ (a - 1) + 1 = a /\ 0 + 1 = 1
    BY <1>2
  <2>2. QED
    BY <1>1, <2>1
<1>4. ASSUME NEW i \in 1..(a - 1)
      PROVE  Reads(run[i - 1], Tail(es)[i], run[i])
  <2>1. /\ i + 1 \in 1..a /\ i - 1 \in 0..(a - 1) /\ i \in 0..(a - 1)
        /\ (i + 1) - 1 = i /\ (i - 1) + 1 = i
    BY <1>2
  <2>2. run[i - 1] = r[i] /\ run[i] = r[i + 1] /\ Tail(es)[i] = es[i + 1]
    BY <1>2, <2>1
  <2>3. Reads(r[i], es[i + 1], r[i + 1])
    BY <1>1, <2>1
  <2>4. QED
    BY <2>2, <2>3
<1> HIDE DEF run
<1>5. Leads(r[1], Tail(es), n)
  BY <1>2, <1>3, <1>4 DEF Leads
<1>6. Reads(m, Head(es), r[1])
  <2>1. 1 \in 1..a /\ 1 - 1 = 0
    BY <1>2
  <2>2. QED
    BY <1>1, <1>2, <2>1
<1>7. QED
  BY <1>5, <1>6

-----------------------------------------------------------------------------
(* What the operators of the converter do to its state and to the events *)

CallRecord == [id: Ids \cup [call_synth: Nat], block_index: Nat]

CallMaps == UNION {[S -> CallRecord] : S \in SUBSET Nat}

\* The states of the converter, ...
Conv ==
    [message_started: BOOLEAN, message_ended: BOOLEAN,
     content_block_index: Nat, text: BOOLEAN, thinking: BOOLEAN,
     tool_blocks: CallMaps, tool_block_order: Seq(Nat),
     next_tool_slot: Nat, last_tool_slot: Nat \cup {None},
     output_tokens: Nat, output_tokens_from_upstream: BOOLEAN]

\* ... and with each the events so far.
Pairs == [c: Conv, out: Seq(StreamEvent)]

TextKinds == {"text", "thinking"}

\* What two states have in common: the calls, ...
SameCalls(c, d) ==
    /\ d.tool_blocks = c.tool_blocks
    /\ d.tool_block_order = c.tool_block_order
    /\ d.next_tool_slot = c.next_tool_slot
    /\ d.last_tool_slot = c.last_tool_slot

\* ... the open blocks, ...
SameTexts(c, d) ==
    /\ d.content_block_index = c.content_block_index
    /\ d.text = c.text
    /\ d.thinking = c.thinking

\* ... how far the message is, ...
SameMessage(c, d) ==
    /\ d.message_started = c.message_started
    /\ d.message_ended = c.message_ended

\* ... and the counts.
SameCounts(c, d) ==
    /\ d.output_tokens = c.output_tokens
    /\ d.output_tokens_from_upstream = c.output_tokens_from_upstream

\* What the operators make of the state.
Started(c) == [c EXCEPT !.message_started = TRUE]

Ended(c) == [c EXCEPT !.message_ended = TRUE]

Counted(c, n) ==
    [c EXCEPT !.output_tokens = n, !.output_tokens_from_upstream = TRUE]

Said(c, n) == [c EXCEPT !.output_tokens = n]

TextIs(c, b, n) == [c EXCEPT !.text = b, !.content_block_index = n]

ThinkingIs(c, b, n) == [c EXCEPT !.thinking = b, !.content_block_index = n]

SlotIs(c, n, s) == [c EXCEPT !.next_tool_slot = n, !.last_tool_slot = s]

Called(c, n, i, o, t) ==
    [c EXCEPT !.next_tool_slot = n, !.content_block_index = i,
              !.tool_block_order = o, !.tool_blocks = t]

LEMMA StartedState ==
    ASSUME NEW c \in Conv, NEW d, d = Started(c)
    PROVE  /\ d \in Conv
           /\ d.message_started /\ d.message_ended = c.message_ended
           /\ SameCalls(c, d) /\ SameCounts(c, d) /\ SameTexts(c, d)
BY DEF Conv, SameCalls, SameCounts, SameTexts, Started

LEMMA EndedState ==
    ASSUME NEW c \in Conv, NEW d, d = Ended(c)
    PROVE  /\ d \in Conv
           /\ d.message_ended /\ d.message_started = c.message_started
           /\ SameCalls(c, d) /\ SameCounts(c, d) /\ SameTexts(c, d)
BY DEF Conv, SameCalls, SameCounts, SameTexts, Ended

LEMMA CountedState ==
    ASSUME NEW c \in Conv, NEW n \in Nat, NEW d, d = Counted(c, n)
    PROVE  /\ d \in Conv
           /\ d.output_tokens = n /\ d.output_tokens_from_upstream
           /\ SameCalls(c, d) /\ SameMessage(c, d) /\ SameTexts(c, d)
BY DEF Conv, SameCalls, SameMessage, SameTexts, Counted

LEMMA SaidState ==
    ASSUME NEW c \in Conv, NEW n \in Nat
    PROVE  LET d == Said(c, n)
           IN  /\ d \in Conv /\ d.output_tokens = n
               /\ d.output_tokens_from_upstream = c.output_tokens_from_upstream
               /\ SameCalls(c, d) /\ SameMessage(c, d) /\ SameTexts(c, d)
<1>1. ASSUME NEW d, d = Said(c, n)
      PROVE  /\ d \in Conv /\ d.output_tokens = n
             /\ d.output_tokens_from_upstream = c.output_tokens_from_upstream
             /\ SameCalls(c, d) /\ SameMessage(c, d) /\ SameTexts(c, d)
  BY <1>1 DEF Conv, SameCalls, SameMessage, SameTexts, Said
<1>2. QED
  BY <1>1, Zenon

LEMMA TextState ==
    ASSUME NEW c \in Conv, NEW b \in BOOLEAN, NEW n \in Nat
    PROVE  LET d == TextIs(c, b, n)
           IN  /\ d \in Conv /\ d.text = b /\ d.thinking = c.thinking
               /\ d.content_block_index = n
               /\ SameCalls(c, d) /\ SameMessage(c, d) /\ SameCounts(c, d)
<1>1. ASSUME NEW d, d = TextIs(c, b, n)
      PROVE  /\ d \in Conv /\ d.text = b /\ d.thinking = c.thinking
             /\ d.content_block_index = n
             /\ SameCalls(c, d) /\ SameMessage(c, d) /\ SameCounts(c, d)
  BY <1>1 DEF Conv, SameCalls, SameMessage, SameCounts, TextIs
<1>2. QED
  BY <1>1, Zenon

LEMMA ThinkingState ==
    ASSUME NEW c \in Conv, NEW b \in BOOLEAN, NEW n \in Nat
    PROVE  LET d == ThinkingIs(c, b, n)
           IN  /\ d \in Conv /\ d.thinking = b /\ d.text = c.text
               /\ d.content_block_index = n
               /\ SameCalls(c, d) /\ SameMessage(c, d) /\ SameCounts(c, d)
<1>1. ASSUME NEW d, d = ThinkingIs(c, b, n)
      PROVE  /\ d \in Conv /\ d.thinking = b /\ d.text = c.text
             /\ d.content_block_index = n
             /\ SameCalls(c, d) /\ SameMessage(c, d) /\ SameCounts(c, d)
  BY <1>1 DEF Conv, SameCalls, SameMessage, SameCounts, ThinkingIs
<1>2. QED
  BY <1>1, Zenon

LEMMA SlotState ==
    ASSUME NEW c \in Conv, NEW n \in Nat, NEW s \in Nat
    PROVE  LET d == SlotIs(c, n, s)
           IN  /\ d \in Conv /\ d.next_tool_slot = n /\ d.last_tool_slot = s
               /\ d.tool_blocks = c.tool_blocks
               /\ d.tool_block_order = c.tool_block_order
               /\ SameTexts(c, d) /\ SameMessage(c, d) /\ SameCounts(c, d)
<1>1. ASSUME NEW d, d = SlotIs(c, n, s)
      PROVE  /\ d \in Conv /\ d.next_tool_slot = n /\ d.last_tool_slot = s
             /\ d.tool_blocks = c.tool_blocks
             /\ d.tool_block_order = c.tool_block_order
             /\ SameTexts(c, d) /\ SameMessage(c, d) /\ SameCounts(c, d)
  BY <1>1 DEF Conv, SameTexts, SameMessage, SameCounts, SlotIs
<1>2. QED
  BY <1>1, Zenon

LEMMA CalledState ==
    ASSUME NEW c \in Conv, NEW n \in Nat, NEW i \in Nat, NEW o \in Seq(Nat),
           NEW t \in CallMaps
    PROVE  LET d == Called(c, n, i, o, t)
           IN  /\ d \in Conv
               /\ d.next_tool_slot = n /\ d.last_tool_slot = c.last_tool_slot
               /\ d.content_block_index = i
               /\ d.text = c.text /\ d.thinking = c.thinking
               /\ d.tool_block_order = o /\ d.tool_blocks = t
               /\ SameMessage(c, d) /\ SameCounts(c, d)
<1>1. ASSUME NEW d, d = Called(c, n, i, o, t)
      PROVE  /\ d \in Conv
             /\ d.next_tool_slot = n /\ d.last_tool_slot = c.last_tool_slot
             /\ d.content_block_index = i
             /\ d.text = c.text /\ d.thinking = c.thinking
             /\ d.tool_block_order = o /\ d.tool_blocks = t
             /\ SameMessage(c, d) /\ SameCounts(c, d)
  BY <1>1 DEF Conv, SameMessage, SameCounts, Called
<1>2. QED
  BY <1>1, Zenon

LEMMA PairOf ==
    ASSUME NEW p \in Pairs
    PROVE  /\ p.c \in Conv /\ p.out \in Seq(StreamEvent)
           /\ p \in [c: {p.c}, out: {p.out}]
           /\ p = [c |-> p.c, out |-> p.out]
BY DEF Pairs

\* The operators change a pair by parts of its state.
LEMMA PairChanged ==
    ASSUME NEW p \in Pairs, NEW n
    PROVE  /\ [p EXCEPT !.c.message_started = TRUE] = [c |-> Started(p.c), out |-> p.out]
           /\ [p EXCEPT !.c.message_ended = TRUE] = [c |-> Ended(p.c), out |-> p.out]
           /\ [p EXCEPT !.c.output_tokens = n, !.c.output_tokens_from_upstream = TRUE]
                = [c |-> Counted(p.c, n), out |-> p.out]
           /\ [p EXCEPT !.c.output_tokens = n] = [c |-> Said(p.c, n), out |-> p.out]
           /\ \A d : [p EXCEPT !.c = d] = [c |-> d, out |-> p.out]
<1>1. p \in [c: {p.c}, out: {p.out}]
  BY PairOf
<1>2. \A d : [p EXCEPT !.c = d] = [c |-> d, out |-> p.out]
  BY <1>1
<1>3. [p EXCEPT !.c.message_started = TRUE] = [p EXCEPT !.c = Started(p.c)]
  BY <1>1 DEF Started
<1>4. [p EXCEPT !.c.message_ended = TRUE] = [p EXCEPT !.c = Ended(p.c)]
  BY <1>1 DEF Ended
<1>5. [p EXCEPT !.c.output_tokens = n, !.c.output_tokens_from_upstream = TRUE]
         = [p EXCEPT !.c = Counted(p.c, n)]
  BY <1>1 DEF Counted
<1>6. [p EXCEPT !.c.output_tokens = n] = [p EXCEPT !.c = Said(p.c, n)]
  BY <1>1 DEF Said
<1>7. QED
  BY <1>2, <1>3, <1>4, <1>5, <1>6

LEMMA PairTextChanged ==
    ASSUME NEW p \in Pairs
    PROVE  /\ [p EXCEPT !.c["text"] = FALSE, !.c.content_block_index = @ + 1]
                = [c |-> TextIs(p.c, FALSE, p.c.content_block_index + 1), out |-> p.out]
           /\ [p EXCEPT !.c["text"] = TRUE]
                = [c |-> TextIs(p.c, TRUE, p.c.content_block_index), out |-> p.out]
           /\ [p EXCEPT !.c["thinking"] = FALSE, !.c.content_block_index = @ + 1]
                = [c |-> ThinkingIs(p.c, FALSE, p.c.content_block_index + 1),
                   out |-> p.out]
           /\ [p EXCEPT !.c["thinking"] = TRUE]
                = [c |-> ThinkingIs(p.c, TRUE, p.c.content_block_index), out |-> p.out]
<1>1. p \in [c: {p.c}, out: {p.out}] /\ p.c \in Conv
  BY PairOf
<1>2. \A d : [p EXCEPT !.c = d] = [c |-> d, out |-> p.out]
  BY <1>1
<1>3. [p EXCEPT !.c["text"] = FALSE, !.c.content_block_index = @ + 1]
         = [p EXCEPT !.c = TextIs(p.c, FALSE, p.c.content_block_index + 1)]
  BY <1>1 DEF TextIs
<1>4. [p EXCEPT !.c["thinking"] = FALSE, !.c.content_block_index = @ + 1]
         = [p EXCEPT !.c = ThinkingIs(p.c, FALSE, p.c.content_block_index + 1)]
  BY <1>1 DEF ThinkingIs
<1>5. ASSUME NEW c \in Conv
      PROVE  /\ [c EXCEPT !.text = TRUE] = TextIs(c, TRUE, c.content_block_index)
             /\ [c EXCEPT !.thinking = TRUE]
                   = ThinkingIs(c, TRUE, c.content_block_index)
  BY DEF Conv, TextIs, ThinkingIs
<1>6. /\ [p EXCEPT !.c["text"] = TRUE] = [p EXCEPT !.c = [p.c EXCEPT !.text = TRUE]]
      /\ [p EXCEPT !.c["thinking"] = TRUE]
            = [p EXCEPT !.c = [p.c EXCEPT !.thinking = TRUE]]
  BY <1>1
<1>7. /\ [p EXCEPT !.c["text"] = TRUE]
            = [p EXCEPT !.c = TextIs(p.c, TRUE, p.c.content_block_index)]
      /\ [p EXCEPT !.c["thinking"] = TRUE]
            = [p EXCEPT !.c = ThinkingIs(p.c, TRUE, p.c.content_block_index)]
  BY <1>1, <1>5, <1>6
<1>8. QED
  BY <1>2, <1>3, <1>4, <1>7

\* A new state, and one more event.
LEMMA EmitEffect ==
    ASSUME NEW c \in Conv, NEW out \in Seq(StreamEvent), NEW e \in StreamEvent,
           NEW q, q = Emit([c |-> c, out |-> out], e)
    PROVE  q \in Pairs /\ q.c = c /\ q.out = Append(out, e)
<1>1. Append(out, e) \in Seq(StreamEvent)
  OBVIOUS
<1>2. q = [c |-> c, out |-> Append(out, e)]
  BY DEF Emit
<1>3. QED
  BY <1>1, <1>2 DEF Pairs

LEMMA EmitTwiceEffect ==
    ASSUME NEW d \in Conv, NEW xs \in Seq(StreamEvent), NEW g \in StreamEvent,
           NEW h \in StreamEvent
    PROVE  LET r == Emit(Emit([c |-> d, out |-> xs], g), h)
           IN  r \in Pairs /\ r.c = d /\ r.out = Append(Append(xs, g), h)
<1>1. ASSUME NEW p, p = Emit([c |-> d, out |-> xs], g)
      PROVE  p \in Pairs /\ p.c = d /\ p.out = Append(xs, g)
  BY <1>1, EmitEffect
<1>2. ASSUME NEW p, p = Emit([c |-> d, out |-> xs], g)
      PROVE  p = [c |-> d, out |-> Append(xs, g)]
  BY <1>1, <1>2, PairOf
<1>3. Append(xs, g) \in Seq(StreamEvent)
  OBVIOUS
<1>4. ASSUME NEW ys \in Seq(StreamEvent), NEW r, r = Emit([c |-> d, out |-> ys], h)
      PROVE  r \in Pairs /\ r.c = d /\ r.out = Append(ys, h)
  BY <1>4, EmitEffect
<1>5. Emit([c |-> d, out |-> xs], g) = [c |-> d, out |-> Append(xs, g)]
  BY <1>2, Zenon
<1>6. QED
  BY <1>3, <1>4, <1>5, Zenon

LEMMA EventsAre ==
    /\ \A t \in {"message_start", "message_stop", "error"} : Event(t) \in StreamEvent
    /\ \A t \in {"start", "stop", "delta"}, k \in Kinds, i \in Nat :
          BlockEvent(t, k, i) \in StreamEvent
BY DEF StreamEvent, Event, BlockEvent

LEMMA StartEffect ==
    ASSUME NEW p \in Pairs, ~p.c.message_started, NEW q, q = StartMessage(p)
    PROVE  /\ q \in Pairs /\ q.out = Append(p.out, Event("message_start"))
           /\ q.c.message_started /\ q.c.message_ended = p.c.message_ended
           /\ SameCalls(p.c, q.c) /\ SameCounts(p.c, q.c) /\ SameTexts(p.c, q.c)
<1>1. p.c \in Conv /\ p.out \in Seq(StreamEvent)
  BY PairOf
<1>2. q = Emit([c |-> Started(p.c), out |-> p.out], Event("message_start"))
  BY PairChanged, Zenon DEF StartMessage
<1>3. Started(p.c) \in Conv
  BY <1>1, StartedState
<1>4. q \in Pairs /\ q.c = Started(p.c) /\ q.out = Append(p.out, Event("message_start"))
  BY <1>1, <1>2, <1>3, EmitEffect, EventsAre
<1>5. QED
  BY <1>1, <1>4, StartedState

LEMMA CountEffect ==
    ASSUME NEW p \in Pairs, NEW usage \in Nat, NEW q, q = Count(p, usage)
    PROVE  /\ q \in Pairs /\ q.out = p.out
           /\ q.c.output_tokens = usage /\ q.c.output_tokens_from_upstream
           /\ SameCalls(p.c, q.c) /\ SameTexts(p.c, q.c) /\ SameMessage(p.c, q.c)
<1>1. p.c \in Conv /\ p.out \in Seq(StreamEvent)
  BY PairOf
<1>2. usage # None
  BY ConverterAssumption
<1>3. q = [c |-> Counted(p.c, usage), out |-> p.out]
  BY <1>2, PairChanged, Zenon DEF Count
<1>4. Counted(p.c, usage) \in Conv
  BY <1>1, CountedState
<1>5. q \in Pairs /\ q.c = Counted(p.c, usage) /\ q.out = p.out
  BY <1>1, <1>3, <1>4 DEF Pairs
<1>6. QED
  BY <1>1, <1>5, CountedState

LEMMA CloseEffect ==
    ASSUME NEW p \in Pairs, NEW kind \in TextKinds, p.c[kind],
           NEW q, q = CloseBlock(p, kind)
    PROVE  /\ q \in Pairs
           /\ q.out = Append(p.out, BlockEvent("stop", kind, p.c.content_block_index))
           /\ q.c.text <=> kind = "thinking" /\ p.c.text
           /\ q.c.thinking <=> kind = "text" /\ p.c.thinking
           /\ q.c.content_block_index = p.c.content_block_index + 1
           /\ SameCalls(p.c, q.c) /\ SameMessage(p.c, q.c) /\ SameCounts(p.c, q.c)
<1> DEFINE i == p.c.content_block_index
           e == BlockEvent("stop", kind, i)
<1>1. p.c \in Conv /\ p.out \in Seq(StreamEvent)
  BY PairOf
<1>2. i \in Nat /\ i + 1 \in Nat
  BY <1>1 DEF Conv
<1>3. e \in StreamEvent
  BY <1>2, EventsAre DEF Kinds, TextKinds
<1>4. CASE kind = "text"
  <2> DEFINE d == TextIs(p.c, FALSE, i + 1)
  <2>1. q = Emit([p EXCEPT !.c["text"] = FALSE, !.c.content_block_index = @ + 1], e)
    BY Zenon, <1>4 DEF CloseBlock
  <2>2. /\ d \in Conv /\ d.text = FALSE /\ d.thinking = p.c.thinking
        /\ d.content_block_index = i + 1
        /\ SameCalls(p.c, d) /\ SameMessage(p.c, d) /\ SameCounts(p.c, d)
    BY <1>1, <1>2, TextState
  <2>3. [p EXCEPT !.c["text"] = FALSE, !.c.content_block_index = @ + 1]
           = [c |-> d, out |-> p.out]
    BY PairTextChanged, Zenon
  <2> HIDE DEF d, e
  <2>4. q = Emit([c |-> d, out |-> p.out], e)
    BY <2>1, <2>3, Zenon
  <2>5. q \in Pairs /\ q.c = d /\ q.out = Append(p.out, e)
    BY <1>1, <1>3, <2>2, <2>4, EmitEffect
  <2>6. QED
    BY <1>4, <2>2, <2>5 DEF e
<1>5. CASE kind = "thinking"
  <2> DEFINE d == ThinkingIs(p.c, FALSE, i + 1)
  <2>1. q = Emit([p EXCEPT !.c["thinking"] = FALSE, !.c.content_block_index = @ + 1],
                 e)
    BY Zenon, <1>5 DEF CloseBlock
  <2>2. /\ d \in Conv /\ d.thinking = FALSE /\ d.text = p.c.text
        /\ d.content_block_index = i + 1
        /\ SameCalls(p.c, d) /\ SameMessage(p.c, d) /\ SameCounts(p.c, d)
    BY <1>1, <1>2, ThinkingState
  <2>3. [p EXCEPT !.c["thinking"] = FALSE, !.c.content_block_index = @ + 1]
           = [c |-> d, out |-> p.out]
    BY PairTextChanged, Zenon
  <2> HIDE DEF d, e
  <2>4. q = Emit([c |-> d, out |-> p.out], e)
    BY <2>1, <2>3, Zenon
  <2>5. q \in Pairs /\ q.c = d /\ q.out = Append(p.out, e)
    BY <1>1, <1>3, <2>2, <2>4, EmitEffect
  <2>6. QED
    BY <1>5, <2>2, <2>5 DEF e
<1>6. QED
  BY <1>4, <1>5 DEF TextKinds

LEMMA OpenEffect ==
    ASSUME NEW p \in Pairs, NEW kind \in TextKinds, ~p.c[kind],
           NEW q, q = OpenBlock(p, kind)
    PROVE  /\ q \in Pairs
           /\ q.out = Append(p.out, BlockEvent("start", kind, p.c.content_block_index))
           /\ q.c.text <=> kind = "text" \/ p.c.text
           /\ q.c.thinking <=> kind = "thinking" \/ p.c.thinking
           /\ q.c.content_block_index = p.c.content_block_index
           /\ SameCalls(p.c, q.c) /\ SameMessage(p.c, q.c) /\ SameCounts(p.c, q.c)
<1> DEFINE i == p.c.content_block_index
           e == BlockEvent("start", kind, i)
<1>1. p.c \in Conv /\ p.out \in Seq(StreamEvent)
  BY PairOf
<1>2. i \in Nat
  BY <1>1 DEF Conv
<1>3. e \in StreamEvent
  BY <1>2, EventsAre DEF Kinds, TextKinds
<1>4. CASE kind = "text"
  <2> DEFINE d == TextIs(p.c, TRUE, i)
  <2>1. q = Emit([p EXCEPT !.c["text"] = TRUE], e)
    BY Zenon, <1>4 DEF OpenBlock
  <2>2. /\ d \in Conv /\ d.text = TRUE /\ d.thinking = p.c.thinking
        /\ d.content_block_index = i
        /\ SameCalls(p.c, d) /\ SameMessage(p.c, d) /\ SameCounts(p.c, d)
    BY <1>1, <1>2, TextState
  <2>3. [p EXCEPT !.c["text"] = TRUE] = [c |-> d, out |-> p.out]
    BY PairTextChanged, Zenon
  <2> HIDE DEF d, e
  <2>4. q = Emit([c |-> d, out |-> p.out], e)
    BY <2>1, <2>3, Zenon
  <2>5. q \in Pairs /\ q.c = d /\ q.out = Append(p.out, e)
    BY <1>1, <1>3, <2>2, <2>4, EmitEffect
  <2>6. QED
    BY <1>4, <2>2, <2>5 DEF e
<1>5. CASE kind = "thinking"
  <2> DEFINE d == ThinkingIs(p.c, TRUE, i)
  <2>1. q = Emit([p EXCEPT !.c["thinking"] = TRUE], e)
    BY Zenon, <1>5 DEF OpenBlock
  <2>2. /\ d \in Conv /\ d.thinking = TRUE /\ d.text = p.c.text
        /\ d.content_block_index = i
        /\ SameCalls(p.c, d) /\ SameMessage(p.c, d) /\ SameCounts(p.c, d)
    BY <1>1, <1>2, ThinkingState
  <2>3. [p EXCEPT !.c["thinking"] = TRUE] = [c |-> d, out |-> p.out]
    BY PairTextChanged, Zenon
  <2> HIDE DEF d, e
  <2>4. q = Emit([c |-> d, out |-> p.out], e)
    BY <2>1, <2>3, Zenon
  <2>5. q \in Pairs /\ q.c = d /\ q.out = Append(p.out, e)
    BY <1>1, <1>3, <2>2, <2>4, EmitEffect
  <2>6. QED
    BY <1>5, <2>2, <2>5 DEF e
<1>6. QED
  BY <1>4, <1>5 DEF TextKinds

LEMMA DeltaEffect ==
    ASSUME NEW p \in Pairs, NEW kind \in TextKinds, NEW q, q = Delta(p, kind)
    PROVE  /\ q \in Pairs
           /\ q.out = Append(p.out, BlockEvent("delta", kind, p.c.content_block_index))
           /\ q.c.output_tokens =
                 IF p.c.output_tokens_from_upstream THEN p.c.output_tokens
                                                    ELSE p.c.output_tokens + 1
           /\ q.c.output_tokens_from_upstream = p.c.output_tokens_from_upstream
           /\ SameCalls(p.c, q.c) /\ SameMessage(p.c, q.c) /\ SameTexts(p.c, q.c)
<1> DEFINE n == IF p.c.output_tokens_from_upstream THEN p.c.output_tokens
                                                   ELSE p.c.output_tokens + 1
           d == Said(p.c, n)
           e == BlockEvent("delta", kind, p.c.content_block_index)
<1>1. p.c \in Conv /\ p.out \in Seq(StreamEvent)
  BY PairOf
<1>2. n \in Nat /\ p.c.content_block_index \in Nat
  BY <1>1 DEF Conv
<1>3. e \in StreamEvent
  BY <1>2, EventsAre DEF Kinds, TextKinds
<1>4. q = Emit([p EXCEPT !.c.output_tokens = n], e)
  BY Zenon DEF Delta
<1>5. [p EXCEPT !.c.output_tokens = n] = [c |-> d, out |-> p.out]
  BY PairChanged, Zenon
<1> HIDE DEF n
<1>6. /\ d \in Conv /\ d.output_tokens = n
      /\ d.output_tokens_from_upstream = p.c.output_tokens_from_upstream
      /\ SameCalls(p.c, d) /\ SameTexts(p.c, d) /\ SameMessage(p.c, d)
  BY <1>1, <1>2, SaidState, Zenon
<1> HIDE DEF d, e
<1>7. q = Emit([c |-> d, out |-> p.out], e)
  BY <1>4, <1>5, Zenon
<1>8. q \in Pairs /\ q.c = d /\ q.out = Append(p.out, e)
  BY <1>1, <1>3, <1>6, <1>7, EmitEffect
<1>9. QED
  BY <1>6, <1>8 DEF e, n

\* The order of the slots with slot s, which may have been used before.
WithSlot(order, s) ==
    IF \E j \in DOMAIN order : order[j] = s THEN order ELSE Append(order, s)

\* A call of slot s with content block i.
WithCall(c, s, id, i) ==
    [x \in DOMAIN c.tool_blocks \cup {s} |->
        IF x = s THEN [id |-> id, block_index |-> i] ELSE c.tool_blocks[x]]

\* The pair q is p with a call that f opens in a slot.
CallOpened(p, f, slot, q) ==
    LET i == p.c.content_block_index
    IN  /\ q \in Pairs
        /\ q.out = Append(p.out, BlockEvent("start", "tool_use", i))
        /\ q.c.next_tool_slot = IF f.id = None THEN p.c.next_tool_slot + 1
                                               ELSE p.c.next_tool_slot
        /\ q.c.last_tool_slot = p.c.last_tool_slot
        /\ q.c.content_block_index = i + 1
        /\ q.c.text = p.c.text /\ q.c.thinking = p.c.thinking
        /\ q.c.tool_block_order = WithSlot(p.c.tool_block_order, slot)
        /\ \E id \in Ids \cup [call_synth: Nat] :
              /\ f.id # None => id = f.id
              /\ q.c.tool_blocks = WithCall(p.c, slot, id, i)
        /\ SameMessage(p.c, q.c) /\ SameCounts(p.c, q.c)

LEMMA OpenCallEffect ==
    ASSUME NEW p \in Pairs, NEW f \in Fragment, NEW slot \in Nat,
           NEW q, q = OpenCall(p, f, slot)
    PROVE  CallOpened(p, f, slot, q)
<1> DEFINE i == p.c.content_block_index
           e == BlockEvent("start", "tool_use", i)
           n == IF f.id = None THEN p.c.next_tool_slot + 1 ELSE p.c.next_tool_slot
           id == IF f.id # None THEN f.id ELSE Synthesized(p.c)
           o == IF \E j \in DOMAIN p.c.tool_block_order : p.c.tool_block_order[j] = slot
                THEN p.c.tool_block_order ELSE Append(p.c.tool_block_order, slot)
           t == [s \in DOMAIN p.c.tool_blocks \cup {slot} |->
                    IF s = slot THEN [id |-> id, block_index |-> i]
                                ELSE p.c.tool_blocks[s]]
           d == Called(p.c, n, i + 1, o, t)
<1>1. p.c \in Conv /\ p.out \in Seq(StreamEvent)
  BY PairOf
<1>2. /\ i \in Nat /\ i + 1 \in Nat /\ p.c.next_tool_slot \in Nat
      /\ p.c.tool_block_order \in Seq(Nat) /\ p.c.tool_blocks \in CallMaps
  BY <1>1 DEF Conv
<1>3. n \in Nat
  BY <1>2
<1>4. o = WithSlot(p.c.tool_block_order, slot) /\ o \in Seq(Nat)
  <2>1. o = WithSlot(p.c.tool_block_order, slot)
    BY Zenon DEF WithSlot
  <2>2. Append(p.c.tool_block_order, slot) \in Seq(Nat)
    BY <1>2
  <2>3. o \in {p.c.tool_block_order, Append(p.c.tool_block_order, slot)}
    BY Zenon
  <2> HIDE DEF o
  <2>4. QED
    BY <1>2, <2>1, <2>2, <2>3
<1>5. id \in Ids \cup [call_synth: Nat] /\ (f.id # None => id = f.id)
  BY <1>2 DEF Fragment, Synthesized
<1>6. t \in CallMaps
  <2> HIDE DEF id, i
  <2>1. PICK S \in SUBSET Nat : p.c.tool_blocks \in [S -> CallRecord]
    BY <1>2 DEF CallMaps
  <2>2. [id |-> id, block_index |-> i] \in CallRecord
    BY <1>2, <1>5 DEF CallRecord
  <2>3. t \in [S \cup {slot} -> CallRecord]
    BY <2>1, <2>2
  <2>4. S \cup {slot} \in SUBSET Nat
    OBVIOUS
  <2> HIDE DEF t
  <2>5. QED
    BY <2>3, <2>4 DEF CallMaps
<1>7. q = Emit([p EXCEPT !.c = d], e)
  BY Zenon DEF OpenCall, Called
<1>8. [p EXCEPT !.c = d] = [c |-> d, out |-> p.out]
  <2> HIDE DEF d
  <2>1. QED
    BY PairChanged, Zenon
<1>9. e \in StreamEvent
  BY <1>2, EventsAre DEF Kinds
<1>10. /\ d \in Conv
       /\ d.next_tool_slot = n /\ d.last_tool_slot = p.c.last_tool_slot
       /\ d.content_block_index = i + 1
       /\ d.text = p.c.text /\ d.thinking = p.c.thinking
       /\ d.tool_block_order = o /\ d.tool_blocks = t
       /\ SameMessage(p.c, d) /\ SameCounts(p.c, d)
  <2> DEFINE k == i + 1
  <2>1. k \in Nat /\ p.c \in Conv /\ n \in Nat /\ o \in Seq(Nat) /\ t \in CallMaps
    BY <1>1, <1>2, <1>3, <1>4, <1>6
  <2> HIDE DEF n, i, o, t, k
  <2>2. LET x == Called(p.c, n, k, o, t)
        IN  /\ x \in Conv
            /\ x.next_tool_slot = n /\ x.last_tool_slot = p.c.last_tool_slot
            /\ x.content_block_index = k
            /\ x.text = p.c.text /\ x.thinking = p.c.thinking
            /\ x.tool_block_order = o /\ x.tool_blocks = t
            /\ SameMessage(p.c, x) /\ SameCounts(p.c, x)
    BY <2>1, CalledState, Zenon
  <2>3. QED
    BY <2>2 DEF k
<1> HIDE DEF d, e
<1>11. q = Emit([c |-> d, out |-> p.out], e)
  BY <1>7, <1>8, Zenon
<1>12. q \in Pairs /\ q.c = d /\ q.out = Append(p.out, e)
  BY <1>1, <1>9, <1>10, <1>11, EmitEffect
<1>13. \E x \in Ids \cup [call_synth: Nat] :
          /\ f.id # None => x = f.id
          /\ d.tool_blocks = WithCall(p.c, slot, x, i)
  <2> HIDE DEF id
  <2>1. QED
    BY <1>5, <1>10, Zenon DEF WithCall
<1> HIDE DEF t, id
<1>14. QED
  BY <1>4, <1>10, <1>12, <1>13 DEF e, n, CallOpened

\* The stops of the tool blocks, in the order of their calls.
Stops(c) ==
    [j \in DOMAIN c.tool_block_order |->
        BlockEvent("stop", "tool_use",
                   c.tool_blocks[c.tool_block_order[j]].block_index)]

LEMMA CallsAre ==
    ASSUME NEW c \in Conv
    PROVE  /\ DOMAIN c.tool_blocks \in SUBSET Nat
           /\ c.tool_blocks \in [DOMAIN c.tool_blocks -> CallRecord]
           /\ \A s \in DOMAIN c.tool_blocks : c.tool_blocks[s].block_index \in Nat
<1>1. c.tool_blocks \in CallMaps
  BY DEF Conv
<1>2. PICK S \in SUBSET Nat : c.tool_blocks \in [S -> CallRecord]
  BY <1>1 DEF CallMaps
<1>3. QED
  BY <1>2 DEF CallRecord

LEMMA StopsAre ==
    ASSUME NEW c \in Conv,
           \A j \in DOMAIN c.tool_block_order :
              c.tool_block_order[j] \in DOMAIN c.tool_blocks
    PROVE  /\ Stops(c) \in Seq(StreamEvent)
           /\ Len(Stops(c)) = Len(c.tool_block_order)
           /\ \A j \in 1..Len(c.tool_block_order) :
                 Stops(c)[j] =
                    BlockEvent("stop", "tool_use",
                               c.tool_blocks[c.tool_block_order[j]].block_index)
<1> DEFINE n == Len(c.tool_block_order)
<1>1. n \in Nat /\ DOMAIN c.tool_block_order = 1..n
  BY DEF Conv
<1> HIDE DEF n
<1>2. \A j \in 1..n :
         BlockEvent("stop", "tool_use",
                    c.tool_blocks[c.tool_block_order[j]].block_index) \in StreamEvent
  BY <1>1, CallsAre, EventsAre DEF Kinds
<1>3. Stops(c) \in [1..n -> StreamEvent]
  BY <1>1, <1>2 DEF Stops
<1>4. Stops(c) \in Seq(StreamEvent) /\ Len(Stops(c)) = n
  <2>1. Stops(c) \in Seq(StreamEvent)
    BY <1>1, <1>3, SeqDef
  <2>2. DOMAIN Stops(c) = 1..n
    BY <1>3
  <2>3. QED
    BY <1>1, <2>1, <2>2, LenProperties
<1>5. QED
  BY <1>1, <1>4 DEF Stops, n

-----------------------------------------------------------------------------
(* The converter's books, and the blocks of a client that has read it all *)

Open(kind) == [kind |-> kind, open |-> TRUE]

\* Whether a text or a thinking block is open.
InText(c) == c.text \/ c.thinking

\* The converter knows which of the blocks it has started are open.
Books(c) ==
    /\ ~(c.text /\ c.thinking)
    /\ \A s \in DOMAIN c.tool_blocks :
          c.tool_blocks[s].block_index < c.content_block_index
    /\ \A s, t \in DOMAIN c.tool_blocks :
          c.tool_blocks[s].block_index = c.tool_blocks[t].block_index => s = t
    /\ \A s \in DOMAIN c.tool_blocks :
          \E j \in DOMAIN c.tool_block_order : c.tool_block_order[j] = s
    /\ \A j \in DOMAIN c.tool_block_order :
          c.tool_block_order[j] \in DOMAIN c.tool_blocks
    /\ \A j, k \in DOMAIN c.tool_block_order :
          c.tool_block_order[j] = c.tool_block_order[k] => j = k
    /\ ~c.message_started =>
          /\ c.content_block_index = 0 /\ DOMAIN c.tool_blocks = {}
          /\ ~InText(c) /\ ~c.message_ended

\* Until the message ends, a client that has read all the events has open
\* what the books say, and the calls that they have forgotten.
SameBlocks(c, b) ==
    /\ b \in [0..(IF InText(c) THEN c.content_block_index
                               ELSE c.content_block_index - 1) -> Message!Block]
    /\ \A s \in DOMAIN c.tool_blocks :
          b[c.tool_blocks[s].block_index] = Open("tool_use")
    /\ c.text => b[c.content_block_index] = Open("text")
    /\ c.thinking => b[c.content_block_index] = Open("thinking")
    /\ \A j \in DOMAIN b :
          /\ b[j].kind = "tool_use" => b[j].open
          /\ b[j].open => b[j].kind = "tool_use"
                             \/ (InText(c) /\ j = c.content_block_index)

\* The converter counts what the upstream has said: u tokens, if not None,
\* or else t texts.
Tally(c, u, t) ==
    /\ c.output_tokens = IF u = None THEN t ELSE u
    /\ c.output_tokens_from_upstream <=> u # None

NoResult(out) == \A j \in 1..Len(out) : out[j].type # "message_delta"

\* Events about blocks have indices up to n.
Bounded(out, n) ==
    \A j \in 1..Len(out) :
        out[j].type \in {"start", "stop", "delta"} => out[j].index <= n

\* The client m comes by the events to the blocks of the books.
Runs(m, p, u, t) ==
    /\ \E b : Leads(m, p.out, ClientWith("open", b)) /\ SameBlocks(p.c, b)
    /\ NoResult(p.out)
    /\ Tally(p.c, u, t)

\* No index is taken back.
Grown(c) == conv.content_block_index \in 0..c.content_block_index

\* The message has started; if it goes on, or has just ended, it is live.
Sound(live, m, p, u, t) ==
    /\ p \in Pairs /\ Books(p.c) /\ p.c.message_started
    /\ Grown(p.c)
    /\ Bounded(p.out, p.c.content_block_index)
    /\ live => Runs(m, p, u, t)

\* Calls are as they were, and the message goes on.
Onward(c, d) ==
    /\ SameCalls(c, d)
    /\ SameMessage(c, d)

LEMMA BooksStay ==
    ASSUME NEW c \in Conv, NEW d \in Conv, Books(c), Onward(c, d),
           c.message_started, d.content_block_index >= c.content_block_index,
           ~(d.text /\ d.thinking)
    PROVE  Books(d)
<1>1. \A s \in DOMAIN c.tool_blocks :
         c.tool_blocks[s].block_index < d.content_block_index
  <2>1. TAKE s \in DOMAIN c.tool_blocks
  <2>2. /\ c.tool_blocks[s].block_index \in Nat
        /\ c.tool_blocks[s].block_index < c.content_block_index
    BY CallsAre DEF Books
  <2>3. c.content_block_index \in Nat /\ d.content_block_index \in Nat
    BY DEF Conv
  <2>4. QED
    BY <2>2, <2>3
<1>2. QED
  BY <1>1 DEF Books, Onward, SameCalls, SameMessage

\* The books are the same about the blocks.
LEMMA BlocksStay ==
    ASSUME NEW c, NEW d, d.tool_blocks = c.tool_blocks, SameTexts(c, d)
    PROVE  \A b : SameBlocks(c, b) => SameBlocks(d, b)
BY DEF SameBlocks, SameTexts, InText

LEMMA GrownFurther ==
    ASSUME NEW c \in Conv, NEW d \in Conv, Grown(c),
           d.content_block_index >= c.content_block_index
    PROVE  Grown(d)
BY DEF Grown, Conv

\* One more event that the client expects.
LEMMA RunsFurther ==
    ASSUME NEW m, NEW out \in Seq(StreamEvent), NEW e \in StreamEvent, NEW b, NEW a,
           Leads(m, out, ClientWith("open", b)), NoResult(out),
           Expected(ClientWith("open", b), e),
           After(ClientWith("open", b), e) = ClientWith("open", a),
           e.type # "message_delta"
    PROVE  /\ Leads(m, Append(out, e), ClientWith("open", a))
           /\ NoResult(Append(out, e))
<1>1. Reads(ClientWith("open", b), e, ClientWith("open", a))
  BY DEF Reads, ClientWith
<1>2. Leads(m, Append(out, e), ClientWith("open", a))
  BY <1>1, LeadsFurther
<1>3. /\ Len(out) \in Nat /\ Len(Append(out, e)) = Len(out) + 1
      /\ \A j \in 1..Len(out) : Append(out, e)[j] = out[j]
      /\ Append(out, e)[Len(out) + 1] = e
  OBVIOUS
<1>4. ASSUME NEW j \in 1..(Len(out) + 1)
      PROVE  Append(out, e)[j].type # "message_delta"
  <2>1. CASE j = Len(out) + 1
    BY <1>3, <2>1
  <2>2. CASE j # Len(out) + 1
    <3>1. j \in 1..Len(out)
      BY <1>3, <2>2
    <3>2. QED
      BY <1>3, <3>1 DEF NoResult
  <2>3. QED
    BY <2>1, <2>2
<1>5. QED
  BY <1>2, <1>3, <1>4 DEF NoResult

LEMMA BoundedFurther ==
    ASSUME NEW out \in Seq(StreamEvent), NEW e \in StreamEvent,
           NEW n \in Nat, NEW k \in Nat, n <= k, Bounded(out, n),
           e.type \in {"start", "stop", "delta"} => e.index <= k
    PROVE  Bounded(Append(out, e), k)
<1>1. /\ Len(out) \in Nat /\ Len(Append(out, e)) = Len(out) + 1
      /\ \A j \in 1..Len(out) : Append(out, e)[j] = out[j] /\ out[j] \in StreamEvent
      /\ Append(out, e)[Len(out) + 1] = e
  OBVIOUS
<1>2. ASSUME NEW j \in 1..(Len(out) + 1),
             Append(out, e)[j].type \in {"start", "stop", "delta"}
      PROVE  Append(out, e)[j].index <= k
  <2>1. CASE j = Len(out) + 1
    BY <1>1, <1>2, <2>1
  <2>2. CASE j # Len(out) + 1
    <3>1. j \in 1..Len(out)
      BY <1>1, <2>2
    <3>2. out[j].index <= n /\ out[j] \in StreamEvent
      BY <1>1, <1>2, <3>1 DEF Bounded
    <3>3. out[j].index \in Nat
      BY <1>1, <1>2, <3>1, <3>2 DEF StreamEvent
    <3>4. QED
      BY <1>1, <3>1, <3>2, <3>3
  <2>3. QED
    BY <2>1, <2>2
<1>3. QED
  BY <1>1, <1>2 DEF Bounded

LEMMA BlockClosed ==
    ASSUME NEW c \in Conv, NEW d \in Conv, Books(c), NEW b, SameBlocks(c, b),
           NEW kind \in TextKinds, c[kind],
           d.tool_blocks = c.tool_blocks, ~d.text, ~d.thinking,
           d.content_block_index = c.content_block_index + 1,
           NEW e, e = BlockEvent("stop", kind, c.content_block_index)
    PROVE  Announced(b, e) /\ SameBlocks(d, WithBlock(b, e, FALSE))
<1> DEFINE i == c.content_block_index
           a == WithBlock(b, e, FALSE)
<1>1. i \in Nat /\ d.content_block_index = i + 1 /\ InText(c) /\ ~InText(d)
  BY DEF Conv, InText, TextKinds
<1>2. e.index = i /\ e.kind = kind /\ kind \in Kinds
  BY DEF BlockEvent, TextKinds, Kinds
<1>3. b \in [0..i -> Message!Block] /\ b[i] = Open(kind)
  BY <1>1 DEF SameBlocks, TextKinds
<1>4. Announced(b, e)
  <2>1. i \in DOMAIN b
    BY <1>1, <1>3
  <2>2. QED
    BY <1>2, <1>3, <2>1, Zenon DEF Announced, Open
<1>5. /\ a \in [0..i -> Message!Block]
      /\ ~a[i].open /\ a[i].kind = kind /\ \A j \in 0..i : j # i => a[j] = b[j]
  <2>1. 0..i \cup {i} = 0..i
    BY <1>1
  <2>2. [kind |-> kind, open |-> FALSE] \in Message!Block
    BY <1>2 DEF Message!Block
  <2>3. a = [j \in 0..i |-> IF j = i THEN [kind |-> kind, open |-> FALSE] ELSE b[j]]
    BY <1>2, <1>3, <2>1 DEF WithBlock
  <2> HIDE DEF a
  <2>4. QED
    BY <1>1, <1>3, <2>2, <2>3
<1> HIDE DEF a
<1>6. \A s \in DOMAIN c.tool_blocks :
         c.tool_blocks[s].block_index \in 0..i /\ c.tool_blocks[s].block_index # i
  BY <1>1, CallsAre DEF Books
<1>7. \A s \in DOMAIN d.tool_blocks :
         a[d.tool_blocks[s].block_index] = Open("tool_use")
  BY <1>5, <1>6 DEF SameBlocks
<1>8. \A j \in DOMAIN a : a[j].open <=> a[j].kind = "tool_use"
  <2>1. kind # "tool_use"
    BY DEF TextKinds
  <2>2. QED
    BY <1>1, <1>3, <1>5, <2>1 DEF SameBlocks
<1>9. (i + 1) - 1 = i
  BY <1>1
<1> HIDE DEF i
<1>10. SameBlocks(d, a)
  BY <1>1, <1>5, <1>7, <1>8, <1>9 DEF SameBlocks
<1>11. QED
  BY <1>4, <1>10 DEF a

\* When no text is open, whatever is open is a call.
LEMMA CallsStayOpen ==
    ASSUME NEW c, NEW b, SameBlocks(c, b), ~InText(c)
    PROVE  OnlyCallsOpen(b)
BY DEF SameBlocks, OnlyCallsOpen, Overlapping

LEMMA BlockOpened ==
    ASSUME NEW c \in Conv, NEW d \in Conv, Books(c), NEW b, SameBlocks(c, b),
           NEW kind \in TextKinds, ~InText(c), d.tool_blocks = c.tool_blocks,
           d.text <=> kind = "text", d.thinking <=> kind = "thinking",
           d.content_block_index = c.content_block_index,
           NEW e, e = BlockEvent("start", kind, c.content_block_index)
    PROVE  /\ DOMAIN b = 0..(e.index - 1)
           /\ SameBlocks(d, WithBlock(b, e, TRUE))
<1> DEFINE i == c.content_block_index
           a == WithBlock(b, e, TRUE)
<1>1. i \in Nat /\ d.content_block_index = i /\ InText(d)
  BY DEF Conv, InText, TextKinds
<1>2. e.index = i /\ e.kind = kind /\ kind \in Kinds
  BY DEF BlockEvent, TextKinds, Kinds
<1>3. b \in [0..(i - 1) -> Message!Block]
  BY <1>1 DEF SameBlocks
<1>4. /\ a \in [0..i -> Message!Block]
      /\ a[i] = Open(kind) /\ \A j \in 0..(i - 1) : a[j] = b[j]
      /\ a[i].open
  <2>1. 0..(i - 1) \cup {i} = 0..i /\ i \notin 0..(i - 1)
    BY <1>1
  <2>2. Open(kind) \in Message!Block
    BY <1>2 DEF Message!Block, Open
  <2>3. a = [j \in 0..i |-> IF j = i THEN Open(kind) ELSE b[j]]
    BY <1>2, <1>3, <2>1 DEF WithBlock, Open
  <2> HIDE DEF a
  <2>4. QED
    BY <1>1, <1>3, <2>1, <2>2, <2>3 DEF Open
<1> HIDE DEF a
<1>5. \A s \in DOMAIN c.tool_blocks : c.tool_blocks[s].block_index \in 0..(i - 1)
  BY <1>1, CallsAre DEF Books
<1>6. \A s \in DOMAIN d.tool_blocks :
         a[d.tool_blocks[s].block_index] = Open("tool_use")
  BY <1>4, <1>5 DEF SameBlocks
<1>7. \A j \in DOMAIN a :
         /\ a[j].kind = "tool_use" => a[j].open
         /\ a[j].open => a[j].kind = "tool_use" \/ j = i
  <2>1. \A j \in 0..i : j = i \/ j \in 0..(i - 1)
    BY <1>1
  <2>2. QED
    BY <1>1, <1>3, <1>4, <2>1 DEF SameBlocks
<1> HIDE DEF i
<1>8. SameBlocks(d, a)
  BY <1>1, <1>4, <1>6, <1>7 DEF SameBlocks
<1>9. QED
  BY <1>2, <1>3, <1>8 DEF a

\* Closing a text block, ...
LEMMA CloseSound ==
    ASSUME NEW live, NEW m, NEW u, NEW t, NEW p, Sound(live, m, p, u, t), NEW kind \in TextKinds,
           NEW q, q = CloseBlock(p, kind)
    PROVE  /\ Sound(live, m, q, u, t) /\ Onward(p.c, q.c)
           /\ ~q.c[kind] /\ \A k \in TextKinds : q.c[k] => p.c[k]
<1>1. p \in Pairs /\ p.c \in Conv /\ p.out \in Seq(StreamEvent)
  BY PairOf DEF Sound
<1>2. CASE ~p.c[kind]
  <2>1. q = p
    BY <1>2 DEF CloseBlock
  <2>2. QED
    BY <1>2, <2>1 DEF Onward, SameCalls, SameMessage
<1>3. CASE p.c[kind]
  <2> DEFINE e == BlockEvent("stop", kind, p.c.content_block_index)
  <2>1. /\ q \in Pairs
        /\ q.out = Append(p.out, e)
        /\ q.c.text <=> kind = "thinking" /\ p.c.text
        /\ q.c.thinking <=> kind = "text" /\ p.c.thinking
        /\ q.c.content_block_index = p.c.content_block_index + 1
        /\ SameCalls(p.c, q.c) /\ SameMessage(p.c, q.c) /\ SameCounts(p.c, q.c)
    BY <1>1, <1>3, CloseEffect
  <2>2. ~(p.c.text /\ p.c.thinking) /\ p.c.content_block_index \in Nat /\ q.c \in Conv
    BY <1>1, <2>1, PairOf DEF Sound, Books, Conv
  <2>3. ~q.c.text /\ ~q.c.thinking
    BY <1>3, <2>1, <2>2 DEF TextKinds
  <2>4. Books(q.c)
    BY <1>1, <2>1, <2>2, <2>3, BooksStay DEF Sound, Onward
  <2>5. ASSUME live
        PROVE  Runs(m, q, u, t)
    <3>1. Runs(m, p, u, t)
      BY <2>5 DEF Sound
    <3>2. PICK b : Leads(m, p.out, ClientWith("open", b)) /\ SameBlocks(p.c, b)
      BY <3>1 DEF Runs
    <3> DEFINE a == WithBlock(b, e, FALSE)
    <3>3. Announced(b, e) /\ SameBlocks(q.c, a)
      BY <1>1, <1>3, <2>1, <2>2, <2>3, <3>2, BlockClosed DEF Sound, SameCalls
    <3>4. e.type = "stop" /\ e \in StreamEvent
      BY <2>2, EventsAre DEF BlockEvent, Kinds, TextKinds
    <3>5. /\ Expected(ClientWith("open", b), e)
          /\ After(ClientWith("open", b), e) = ClientWith("open", a)
      BY <3>3, <3>4 DEF Expected, After, ClientWith
    <3> HIDE DEF e, a
    <3>6. Leads(m, q.out, ClientWith("open", a)) /\ NoResult(q.out)
      BY <1>1, <2>1, <3>1, <3>2, <3>4, <3>5, RunsFurther DEF Runs
    <3>7. Tally(q.c, u, t)
      BY <2>1, <3>1 DEF Runs, Tally, SameCounts
    <3>8. QED
      BY <3>3, <3>6, <3>7 DEF Runs
  <2>6. q.c.message_started
    BY <2>1 DEF Sound, SameMessage
  <2>7. ~q.c[kind] /\ \A k \in TextKinds : q.c[k] => p.c[k]
    BY <2>3 DEF TextKinds
  <2>8. Bounded(q.out, q.c.content_block_index)
    <3>1. /\ e \in StreamEvent /\ e.index = p.c.content_block_index
          /\ q.c.content_block_index \in Nat
      BY <2>1, <2>2, EventsAre DEF BlockEvent, Kinds, TextKinds, Conv
    <3> HIDE DEF e
    <3>2. Bounded(Append(p.out, e), q.c.content_block_index)
      BY <1>1, <2>1, <2>2, <3>1, BoundedFurther DEF Sound
    <3>3. QED
      BY <2>1, <3>2
  <2>9. Grown(q.c)
    <3>1. q.c.content_block_index >= p.c.content_block_index
      BY <2>1, <2>2
    <3>2. QED
      BY <1>1, <2>2, <3>1, GrownFurther DEF Sound
  <2>10. QED
    BY <2>1, <2>4, <2>5, <2>6, <2>7, <2>8, <2>9 DEF Sound, Onward
<1>4. QED
  BY <1>2, <1>3

\* ... opening one, when no other is open, ...
LEMMA OpenSound ==
    ASSUME NEW live, NEW m, NEW u, NEW t, NEW p, Sound(live, m, p, u, t), NEW kind \in TextKinds,
           \A k \in TextKinds : p.c[k] => k = kind,
           NEW q, q = OpenBlock(p, kind)
    PROVE  Sound(live, m, q, u, t) /\ Onward(p.c, q.c) /\ q.c[kind]
<1>1. p \in Pairs /\ p.c \in Conv /\ p.out \in Seq(StreamEvent)
  BY PairOf DEF Sound
<1>2. CASE p.c[kind]
  <2>1. q = p
    BY <1>2 DEF OpenBlock
  <2>2. QED
    BY <1>2, <2>1 DEF Onward, SameCalls, SameMessage
<1>3. CASE ~p.c[kind]
  <2> DEFINE e == BlockEvent("start", kind, p.c.content_block_index)
  <2>1. /\ q \in Pairs
        /\ q.out = Append(p.out, e)
        /\ q.c.text <=> kind = "text" \/ p.c.text
        /\ q.c.thinking <=> kind = "thinking" \/ p.c.thinking
        /\ q.c.content_block_index = p.c.content_block_index
        /\ SameCalls(p.c, q.c) /\ SameMessage(p.c, q.c) /\ SameCounts(p.c, q.c)
    BY <1>1, <1>3, OpenEffect
  <2>2. p.c.content_block_index \in Nat /\ q.c \in Conv
    BY <1>1, <2>1, PairOf DEF Conv
  <2>3. /\ ~InText(p.c) /\ ~p.c.text /\ ~p.c.thinking
        /\ q.c.text <=> kind = "text"
        /\ q.c.thinking <=> kind = "thinking"
    BY <1>3, <2>1 DEF TextKinds, InText
  <2>4. Books(q.c)
    BY <1>1, <2>1, <2>2, <2>3, BooksStay DEF Sound, Onward
  <2>5. ASSUME live
        PROVE  Runs(m, q, u, t)
    <3>1. Runs(m, p, u, t)
      BY <2>5 DEF Sound
    <3>2. PICK b : Leads(m, p.out, ClientWith("open", b)) /\ SameBlocks(p.c, b)
      BY <3>1 DEF Runs
    <3> DEFINE a == WithBlock(b, e, TRUE)
    <3>3. DOMAIN b = 0..(e.index - 1) /\ SameBlocks(q.c, a) /\ OnlyCallsOpen(b)
      <4>1. DOMAIN b = 0..(e.index - 1) /\ SameBlocks(q.c, a)
        BY <1>1, <2>1, <2>2, <2>3, <3>2, BlockOpened DEF Sound, SameCalls
      <4>2. OnlyCallsOpen(b)
        BY <2>3, <3>2, CallsStayOpen
      <4>3. QED
        BY <4>1, <4>2
    <3>4. e.type = "start" /\ e \in StreamEvent
      BY <2>2, EventsAre DEF BlockEvent, Kinds, TextKinds
    <3>5. /\ Expected(ClientWith("open", b), e)
          /\ After(ClientWith("open", b), e) = ClientWith("open", a)
      BY <3>3, <3>4 DEF Expected, After, ClientWith
    <3> HIDE DEF e, a
    <3>6. Leads(m, q.out, ClientWith("open", a)) /\ NoResult(q.out)
      BY <1>1, <2>1, <3>1, <3>2, <3>4, <3>5, RunsFurther DEF Runs
    <3>7. Tally(q.c, u, t)
      BY <2>1, <3>1 DEF Runs, Tally, SameCounts
    <3>8. QED
      BY <3>3, <3>6, <3>7 DEF Runs
  <2>6. q.c.message_started
    BY <2>1 DEF Sound, SameMessage
  <2>7. q.c[kind]
    BY <2>3 DEF TextKinds
  <2>8. Bounded(q.out, q.c.content_block_index)
    <3>1. /\ e \in StreamEvent /\ e.index = p.c.content_block_index
          /\ q.c.content_block_index \in Nat
      BY <2>1, <2>2, EventsAre DEF BlockEvent, Kinds, TextKinds, Conv
    <3> HIDE DEF e
    <3>2. Bounded(Append(p.out, e), q.c.content_block_index)
      BY <1>1, <2>1, <2>2, <3>1, BoundedFurther DEF Sound
    <3>3. QED
      BY <2>1, <3>2
  <2>9. Grown(q.c)
    <3>1. q.c.content_block_index >= p.c.content_block_index
      BY <2>1, <2>2
    <3>2. QED
      BY <1>1, <2>2, <3>1, GrownFurther DEF Sound
  <2>10. QED
    BY <2>1, <2>4, <2>5, <2>6, <2>7, <2>8, <2>9 DEF Sound, Onward
<1>4. QED
  BY <1>2, <1>3

\* ... and writing to the one that is open.
LEMMA DeltaSound ==
    ASSUME NEW live, NEW m, NEW u \in Nat \cup {None}, NEW t \in Nat, NEW p,
           Sound(live, m, p, u, t), NEW kind \in TextKinds, p.c[kind],
           NEW q, q = Delta(p, kind)
    PROVE  /\ Sound(live, m, q, u, t + 1) /\ Onward(p.c, q.c)
           /\ \A k \in TextKinds : q.c[k] = p.c[k]
<1> DEFINE i == p.c.content_block_index
           e == BlockEvent("delta", kind, i)
<1>1. p \in Pairs /\ p.c \in Conv /\ p.out \in Seq(StreamEvent)
  BY PairOf DEF Sound
<1>2. /\ q \in Pairs
      /\ q.out = Append(p.out, e)
      /\ q.c.output_tokens =
            IF p.c.output_tokens_from_upstream THEN p.c.output_tokens
                                               ELSE p.c.output_tokens + 1
      /\ q.c.output_tokens_from_upstream = p.c.output_tokens_from_upstream
      /\ SameCalls(p.c, q.c) /\ SameMessage(p.c, q.c) /\ SameTexts(p.c, q.c)
  BY <1>1, DeltaEffect
<1>3. i \in Nat /\ q.c \in Conv /\ q.c.content_block_index = i
  BY <1>1, <1>2, PairOf DEF Conv, SameTexts
<1>4. Books(q.c)
  <2>1. ~(q.c.text /\ q.c.thinking) /\ q.c.content_block_index >= i
    BY <1>2, <1>3 DEF Sound, Books, SameTexts
  <2>2. QED
    BY <1>1, <1>2, <1>3, <2>1, BooksStay DEF Sound, Onward
<1>5. ASSUME live
      PROVE  Runs(m, q, u, t + 1)
  <2>1. Runs(m, p, u, t)
    BY <1>5 DEF Sound
  <2>2. PICK b : Leads(m, p.out, ClientWith("open", b)) /\ SameBlocks(p.c, b)
    BY <2>1 DEF Runs
  <2>3. b[i] = Open(kind) /\ i \in DOMAIN b
    BY <1>3, <2>2 DEF SameBlocks, TextKinds, InText
  <2>4. e.type = "delta" /\ e.index = i /\ e.kind = kind /\ e \in StreamEvent
    BY <1>3, EventsAre DEF BlockEvent, Kinds, TextKinds
  <2>5. Announced(b, e)
    BY <2>3, <2>4, Zenon DEF Announced, Open
  <2>6. /\ Expected(ClientWith("open", b), e)
        /\ After(ClientWith("open", b), e) = ClientWith("open", b)
    BY <2>4, <2>5 DEF Expected, After, ClientWith
  <2>7. SameBlocks(q.c, b)
    BY <1>2, <2>2, BlocksStay DEF SameCalls
  <2>8. Tally(q.c, u, t + 1)
    BY <1>1, <1>2, <2>1 DEF Runs, Tally
  <2> HIDE DEF e
  <2>9. Leads(m, q.out, ClientWith("open", b)) /\ NoResult(q.out)
    BY <1>1, <1>2, <2>1, <2>2, <2>4, <2>6, RunsFurther DEF Runs
  <2>10. QED
    BY <2>7, <2>8, <2>9 DEF Runs
<1>6. q.c.message_started
  BY <1>2 DEF Sound, SameMessage
<1>7. \A k \in TextKinds : q.c[k] = p.c[k]
  BY <1>2 DEF SameTexts, TextKinds
<1>8. Bounded(q.out, q.c.content_block_index)
  <2>1. e \in StreamEvent /\ e.index = i
    BY <1>3, EventsAre DEF BlockEvent, Kinds, TextKinds
  <2> HIDE DEF e
  <2>2. Bounded(Append(p.out, e), q.c.content_block_index)
    BY <1>1, <1>3, <2>1, BoundedFurther DEF Sound
  <2>3. QED
    BY <1>2, <2>2
<1>9. Grown(q.c)
  <2>1. q.c.content_block_index >= i
    BY <1>3
  <2>2. QED
    BY <1>1, <1>3, <2>1, GrownFurther DEF Sound
<1>10. QED
  BY <1>2, <1>4, <1>5, <1>6, <1>7, <1>8, <1>9 DEF Sound, Onward

LEMMA OnwardTwice ==
    ASSUME NEW c, NEW d, NEW e, Onward(c, d), Onward(d, e)
    PROVE  Onward(c, e)
BY DEF Onward, SameCalls, SameMessage

LEMMA ReasonSound ==
    ASSUME NEW live, NEW m, NEW u \in Nat \cup {None}, NEW t \in Nat, NEW p,
           Sound(live, m, p, u, t)
    PROVE  Sound(live, m, Reason(p), u, t + 1) /\ Onward(p.c, Reason(p).c)
<1> DEFINE q == IF p.c.thinking THEN p ELSE CloseBlock(p, "text")
           r == OpenBlock(q, "thinking")
<1>1. Sound(live, m, q, u, t) /\ Onward(p.c, q.c) /\ ~q.c.text
  <2>1. CASE p.c.thinking
    BY <2>1 DEF Onward, SameCalls, SameMessage, Sound, Books
  <2>2. CASE ~p.c.thinking
    BY <2>2, CloseSound DEF TextKinds
  <2>3. QED
    BY <2>1, <2>2
<1> HIDE DEF q
<1>2. Sound(live, m, r, u, t) /\ Onward(q.c, r.c) /\ r.c["thinking"]
  BY <1>1, OpenSound DEF TextKinds
<1> HIDE DEF r
<1>3. Sound(live, m, Delta(r, "thinking"), u, t + 1) /\ Onward(r.c, Delta(r, "thinking").c)
  BY <1>2, DeltaSound DEF TextKinds
<1>4. Reason(p) = Delta(r, "thinking")
  BY Zenon DEF Reason, q, r
<1>5. QED
  BY <1>1, <1>2, <1>3, <1>4, OnwardTwice

LEMMA SaySound ==
    ASSUME NEW live, NEW m, NEW u \in Nat \cup {None}, NEW t \in Nat, NEW p,
           Sound(live, m, p, u, t)
    PROVE  Sound(live, m, Say(p), u, t + 1) /\ Onward(p.c, Say(p).c)
<1> DEFINE q == CloseBlock(p, "thinking")
           r == OpenBlock(q, "text")
<1>1. Sound(live, m, q, u, t) /\ Onward(p.c, q.c) /\ ~q.c.thinking
  BY CloseSound DEF TextKinds
<1> HIDE DEF q
<1>2. Sound(live, m, r, u, t) /\ Onward(q.c, r.c) /\ r.c["text"]
  BY <1>1, OpenSound DEF TextKinds
<1> HIDE DEF r
<1>3. Sound(live, m, Delta(r, "text"), u, t + 1) /\ Onward(r.c, Delta(r, "text").c)
  BY <1>2, DeltaSound DEF TextKinds
<1>4. Say(p) = Delta(r, "text")
  BY Zenon DEF Say, q, r
<1>5. QED
  BY <1>1, <1>2, <1>3, <1>4, OnwardTwice

LEMMA CloseTextsSound ==
    ASSUME NEW live, NEW m, NEW u, NEW t, NEW p, Sound(live, m, p, u, t),
           NEW q, q = CloseBlock(CloseBlock(p, "thinking"), "text")
    PROVE  Sound(live, m, q, u, t) /\ Onward(p.c, q.c) /\ ~InText(q.c)
<1> DEFINE r == CloseBlock(p, "thinking")
<1>1. Sound(live, m, r, u, t) /\ Onward(p.c, r.c) /\ ~r.c.thinking
  BY CloseSound DEF TextKinds
<1> HIDE DEF r
<1>2. Sound(live, m, q, u, t) /\ Onward(r.c, q.c) /\ ~q.c.text /\ ~q.c.thinking
  BY <1>1, CloseSound DEF TextKinds, r
<1>3. QED
  BY <1>1, <1>2, OnwardTwice DEF InText

\* The texts of a line; a call closes their blocks.
LEMMA TextsSound ==
    ASSUME NEW live, NEW m, NEW u \in Nat \cup {None}, NEW t \in Nat, NEW p,
           Sound(live, m, p, u, t), NEW line, NEW q, q = Texts(p, line)
    PROVE  /\ Sound(live, m, q, u, t + (IF line.reasoning THEN 1 ELSE 0)
                               + (IF line.content THEN 1 ELSE 0))
           /\ Onward(p.c, q.c)
           /\ line.call # None => ~InText(q.c)
<1> DEFINE v == t + (IF line.reasoning THEN 1 ELSE 0)
           w == v + (IF line.content THEN 1 ELSE 0)
           r == IF line.reasoning THEN Reason(p) ELSE p
           s == IF line.content THEN Say(r) ELSE r
<1>0. Onward(p.c, p.c)
  BY DEF Onward, SameCalls, SameMessage
<1>1. Sound(live, m, r, u, v) /\ Onward(p.c, r.c) /\ v \in Nat
  <2>1. CASE line.reasoning
    BY <2>1, ReasonSound
  <2>2. CASE ~line.reasoning
    BY <1>0, <2>2
  <2>3. QED
    BY <2>1, <2>2
<1> HIDE DEF r, v
<1>2. Sound(live, m, s, u, w) /\ Onward(p.c, s.c)
  <2>1. CASE line.content
    BY <1>1, <2>1, SaySound, OnwardTwice
  <2>2. CASE ~line.content
    BY <1>1, <2>2
  <2>3. QED
    BY <2>1, <2>2
<1>3. q = IF line.call = None THEN s
          ELSE CloseBlock(CloseBlock(s, "thinking"), "text")
  BY Zenon DEF Texts, r
<1> HIDE DEF s, w
<1>4. Sound(live, m, q, u, w) /\ Onward(p.c, q.c) /\ (line.call # None => ~InText(q.c))
  BY <1>2, <1>3, CloseTextsSound, OnwardTwice
<1>5. QED
  BY <1>4 DEF v, w

\* message_start comes first.  m is the client when all events are read.
Agree(c, m) ==
    IF c.message_ended THEN m.phase = "stopped"
    ELSE \E b : /\ m = ClientWith(IF c.message_started THEN "open" ELSE "new", b)
                /\ SameBlocks(c, b)

LEMMA StartSound ==
    ASSUME NEW live, NEW m, NEW u, NEW t, NEW p \in Pairs, p.out = << >>,
           Books(p.c), Grown(p.c),
           live => ~p.c.message_ended /\ Agree(p.c, m) /\ Tally(p.c, u, t),
           NEW q, q = StartMessage(p)
    PROVE  /\ Sound(live, m, q, u, t) /\ SameCalls(p.c, q.c)
           /\ q.c.message_ended = p.c.message_ended
<1>1. p.c \in Conv /\ p.out \in Seq(StreamEvent) /\ Leads(m, p.out, m)
  BY PairOf, LeadsNowhere
<1>2. NoResult(<< >>) /\ Bounded(<< >>, p.c.content_block_index)
  BY DEF NoResult, Bounded
<1>3. CASE p.c.message_started
  <2>1. q = p
    BY <1>3 DEF StartMessage
  <2>2. ASSUME live
        PROVE  Runs(m, p, u, t)
    <3>1. PICK b : m = ClientWith("open", b) /\ SameBlocks(p.c, b)
      BY <1>3, <2>2 DEF Agree
    <3>2. QED
      BY <1>1, <1>2, <2>2, <3>1 DEF Runs
  <2>3. QED
    BY <1>2, <1>3, <2>1, <2>2 DEF Sound, SameCalls
<1>4. CASE ~p.c.message_started
  <2> DEFINE e == Event("message_start")
  <2>1. /\ q \in Pairs /\ q.out = Append(p.out, e)
        /\ q.c.message_started /\ q.c.message_ended = p.c.message_ended
        /\ SameCalls(p.c, q.c) /\ SameCounts(p.c, q.c) /\ SameTexts(p.c, q.c)
    BY <1>4, StartEffect
  <2>2. Books(q.c)
    BY <2>1 DEF Books, SameCalls, SameTexts
  <2>3. e.type = "message_start" /\ e \in StreamEvent
    BY EventsAre DEF Event
  <2>4. NoResult(q.out) /\ Bounded(q.out, q.c.content_block_index)
    <3>1. q.out = << e >>
      BY <1>1, <2>1
    <3>2. QED
      BY <2>3, <3>1 DEF NoResult, Bounded
  <2>5. ASSUME live
        PROVE  Runs(m, q, u, t)
    <3>1. PICK b : m = ClientWith("new", b) /\ SameBlocks(p.c, b)
      BY <1>4, <2>5 DEF Agree
    <3>2. Reads(m, e, ClientWith("open", b))
      BY <2>3, <3>1 DEF Reads, Expected, After, ClientWith
    <3> HIDE DEF e
    <3>3. Leads(m, q.out, ClientWith("open", b))
      BY <1>1, <2>1, <2>3, <3>2, LeadsFurther
    <3>4. SameBlocks(q.c, b)
      BY <2>1, <3>1, BlocksStay DEF SameCalls
    <3>5. Tally(q.c, u, t)
      BY <2>1, <2>5 DEF Tally, SameCounts
    <3>6. QED
      BY <2>4, <3>3, <3>4, <3>5 DEF Runs
  <2>6. QED
    BY <2>1, <2>2, <2>4, <2>5 DEF Sound, Grown, SameTexts
<1>5. QED
  BY <1>3, <1>4

LEMMA CountSound ==
    ASSUME NEW live, NEW m, NEW u, NEW t, NEW p, Sound(live, m, p, u, t),
           NEW usage \in Nat \cup {None}, NEW q, q = Count(p, usage)
    PROVE  /\ Sound(live, m, q, IF usage = None THEN u ELSE usage, t)
           /\ Onward(p.c, q.c)
<1>1. CASE usage = None
  BY <1>1 DEF Count, Onward, SameCalls, SameMessage
<1>2. CASE usage # None
  <2>1. p \in Pairs /\ p.c \in Conv
    BY PairOf DEF Sound
  <2>2. /\ q \in Pairs /\ q.out = p.out
        /\ q.c.output_tokens = usage /\ q.c.output_tokens_from_upstream
        /\ SameCalls(p.c, q.c) /\ SameTexts(p.c, q.c) /\ SameMessage(p.c, q.c)
    BY <1>2, <2>1, CountEffect
  <2>3. Books(q.c)
    <3>1. q.c \in Conv /\ q.c.content_block_index >= p.c.content_block_index
      BY <2>1, <2>2, PairOf DEF SameTexts, Conv
    <3>2. ~(q.c.text /\ q.c.thinking)
      BY <2>2 DEF Sound, Books, SameTexts
    <3>3. QED
      BY <2>1, <2>2, <3>1, <3>2, BooksStay DEF Sound, Onward
  <2>4. ASSUME live
        PROVE  Runs(m, q, usage, t)
    <3>1. Runs(m, p, u, t)
      BY <2>4 DEF Sound
    <3>2. Tally(q.c, usage, t)
      BY <1>2, <2>2 DEF Tally
    <3>3. \A b : SameBlocks(p.c, b) => SameBlocks(q.c, b)
      BY <2>2, BlocksStay DEF SameCalls
    <3>4. QED
      BY <2>2, <3>1, <3>2, <3>3 DEF Runs
  <2>5. QED
    BY <1>2, <2>2, <2>3, <2>4 DEF Sound, Onward, SameMessage, SameTexts, Grown
<1>3. QED
  BY <1>1, <1>2

-----------------------------------------------------------------------------
(* Calls *)

\* The slots stay in an order, each of them once.
LEMMA OrderWithCall ==
    ASSUME NEW c \in Conv, NEW d, Books(c), NEW s,
           DOMAIN d.tool_blocks = DOMAIN c.tool_blocks \cup {s},
           d.tool_block_order = WithSlot(c.tool_block_order, s)
    PROVE  /\ \A x \in DOMAIN d.tool_blocks :
                 \E j \in DOMAIN d.tool_block_order : d.tool_block_order[j] = x
           /\ \A j \in DOMAIN d.tool_block_order :
                 d.tool_block_order[j] \in DOMAIN d.tool_blocks
           /\ \A j, k \in DOMAIN d.tool_block_order :
                 d.tool_block_order[j] = d.tool_block_order[k] => j = k
<1> DEFINE n == Len(c.tool_block_order)
<1>1. n \in Nat /\ DOMAIN c.tool_block_order = 1..n
  BY DEF Conv
<1>2. /\ \A x \in DOMAIN c.tool_blocks :
            \E j \in 1..n : c.tool_block_order[j] = x
      /\ \A j \in 1..n : c.tool_block_order[j] \in DOMAIN c.tool_blocks
      /\ \A j, k \in 1..n : c.tool_block_order[j] = c.tool_block_order[k] => j = k
  BY <1>1 DEF Books
<1>3. CASE s \in DOMAIN c.tool_blocks
  <2>1. \E j \in DOMAIN c.tool_block_order : c.tool_block_order[j] = s
    BY <1>1, <1>2, <1>3
  <2>2. d.tool_block_order = c.tool_block_order
    BY <2>1, Zenon DEF WithSlot
  <2>3. DOMAIN d.tool_blocks = DOMAIN c.tool_blocks
    BY <1>3
  <2>4. QED
    BY <1>1, <1>2, <2>2, <2>3
<1>4. CASE s \notin DOMAIN c.tool_blocks
  <2>1. ~\E j \in DOMAIN c.tool_block_order : c.tool_block_order[j] = s
    BY <1>1, <1>2, <1>4
  <2>2. d.tool_block_order = Append(c.tool_block_order, s)
    BY <2>1, Zenon DEF WithSlot
  <2>3. /\ DOMAIN d.tool_block_order = 1..(n + 1)
        /\ d.tool_block_order[n + 1] = s
        /\ \A j \in 1..n : d.tool_block_order[j] = c.tool_block_order[j]
    BY <2>2 DEF Conv
  <2> HIDE DEF n
  <2>4. /\ n + 1 \in 1..(n + 1)
        /\ \A j \in 1..n : j \in 1..(n + 1)
        /\ \A j \in 1..(n + 1) : j = n + 1 \/ j \in 1..n
    BY <1>1
  <2>5. ASSUME NEW x \in DOMAIN d.tool_blocks
        PROVE  \E j \in 1..(n + 1) : d.tool_block_order[j] = x
    <3>1. CASE x = s
      BY <2>3, <2>4, <3>1
    <3>2. CASE x # s
      <4>1. PICK j \in 1..n : c.tool_block_order[j] = x
        BY <1>2, <3>2
      <4>2. QED
        BY <2>3, <2>4, <4>1
    <3>3. QED
      BY <3>1, <3>2
  <2>6. \A j \in 1..(n + 1) : d.tool_block_order[j] \in DOMAIN d.tool_blocks
    BY <1>2, <2>3, <2>4
  <2>7. ASSUME NEW j \in 1..(n + 1), NEW k \in 1..(n + 1),
               d.tool_block_order[j] = d.tool_block_order[k]
        PROVE  j = k
    <3>1. CASE j = n + 1 /\ k # n + 1
      BY <1>2, <1>4, <2>3, <2>4, <2>7, <3>1
    <3>2. CASE j # n + 1 /\ k = n + 1
      BY <1>2, <1>4, <2>3, <2>4, <2>7, <3>2
    <3>3. CASE j # n + 1 /\ k # n + 1
      <4>1. j \in 1..n /\ k \in 1..n
        BY <2>4, <3>3
      <4>2. c.tool_block_order[j] = c.tool_block_order[k]
        BY <2>3, <2>7, <4>1
      <4>3. QED
        BY <1>2, <4>1, <4>2
    <3>4. QED
      BY <3>1, <3>2, <3>3
  <2>8. QED
    BY <2>3, <2>5, <2>6, <2>7
<1>5. QED
  BY <1>3, <1>4

\* A call has a block of its own, also where it takes over a slot.
LEMMA BooksWithCall ==
    ASSUME NEW c \in Conv, NEW d \in Conv, Books(c), NEW s \in Nat, NEW id,
           d.tool_blocks = WithCall(c, s, id, c.content_block_index),
           d.tool_block_order = WithSlot(c.tool_block_order, s),
           d.content_block_index = c.content_block_index + 1,
           ~InText(d), d.message_started
    PROVE  Books(d)
<1> DEFINE i == c.content_block_index
<1>1. i \in Nat /\ d.content_block_index = i + 1
  BY DEF Conv
<1>2. \A x \in DOMAIN c.tool_blocks :
         c.tool_blocks[x].block_index \in Nat /\ c.tool_blocks[x].block_index < i
  BY CallsAre DEF Books
<1>3. /\ DOMAIN d.tool_blocks = DOMAIN c.tool_blocks \cup {s}
      /\ d.tool_blocks[s].block_index = i
      /\ \A x \in DOMAIN c.tool_blocks : x # s => d.tool_blocks[x] = c.tool_blocks[x]
  BY DEF WithCall
<1>4. /\ \A x \in DOMAIN d.tool_blocks :
            \E j \in DOMAIN d.tool_block_order : d.tool_block_order[j] = x
      /\ \A j \in DOMAIN d.tool_block_order :
            d.tool_block_order[j] \in DOMAIN d.tool_blocks
      /\ \A j, k \in DOMAIN d.tool_block_order :
            d.tool_block_order[j] = d.tool_block_order[k] => j = k
  BY <1>3, OrderWithCall
<1> HIDE DEF i
<1>5. \A x \in DOMAIN d.tool_blocks :
         d.tool_blocks[x].block_index < d.content_block_index
  BY <1>1, <1>2, <1>3
<1>6. ASSUME NEW x \in DOMAIN d.tool_blocks, NEW y \in DOMAIN d.tool_blocks,
             d.tool_blocks[x].block_index = d.tool_blocks[y].block_index
      PROVE  x = y
  <2>1. CASE x = s /\ y # s
    BY <1>1, <1>2, <1>3, <1>6, <2>1
  <2>2. CASE x # s /\ y = s
    BY <1>1, <1>2, <1>3, <1>6, <2>2
  <2>3. CASE x # s /\ y # s
    BY <1>3, <1>6, <2>3 DEF Books
  <2>4. QED
    BY <2>1, <2>2, <2>3
<1>7. QED
  BY <1>4, <1>5, <1>6 DEF Books, InText

LEMMA BlocksWithCall ==
    ASSUME NEW c \in Conv, NEW d \in Conv, Books(c), NEW b, SameBlocks(c, b),
           ~InText(c), ~InText(d), NEW s,
           DOMAIN d.tool_blocks = DOMAIN c.tool_blocks \cup {s},
           d.tool_blocks[s].block_index = c.content_block_index,
           \A x \in DOMAIN c.tool_blocks :
              x # s => d.tool_blocks[x] = c.tool_blocks[x],
           d.content_block_index = c.content_block_index + 1,
           NEW e, e = BlockEvent("start", "tool_use", c.content_block_index)
    PROVE  /\ DOMAIN b = 0..(e.index - 1) /\ OnlyCallsOpen(b)
           /\ SameBlocks(d, WithBlock(b, e, TRUE))
<1> DEFINE i == c.content_block_index
           a == WithBlock(b, e, TRUE)
<1>1. i \in Nat /\ d.content_block_index = i + 1
  BY DEF Conv
<1>2. e.index = i /\ e.kind = "tool_use"
  BY DEF BlockEvent
<1>3. b \in [0..(i - 1) -> Message!Block]
  BY <1>1 DEF SameBlocks
<1>4. /\ a \in [0..i -> Message!Block]
      /\ a[i] = Open("tool_use") /\ \A j \in 0..(i - 1) : a[j] = b[j]
      /\ a[i].open /\ a[i].kind = "tool_use"
  <2>1. 0..(i - 1) \cup {i} = 0..i /\ i \notin 0..(i - 1)
    BY <1>1
  <2>2. Open("tool_use") \in Message!Block
    BY DEF Message!Block, Open, Kinds
  <2>3. a = [j \in 0..i |-> IF j = i THEN Open("tool_use") ELSE b[j]]
    BY <1>2, <1>3, <2>1 DEF WithBlock, Open
  <2> HIDE DEF a
  <2>4. QED
    BY <1>1, <1>3, <2>1, <2>2, <2>3 DEF Open
<1> HIDE DEF a
<1>5. \A x \in DOMAIN c.tool_blocks : c.tool_blocks[x].block_index \in 0..(i - 1)
  BY <1>1, CallsAre DEF Books
<1>6. /\ DOMAIN d.tool_blocks = DOMAIN c.tool_blocks \cup {s}
      /\ d.tool_blocks[s].block_index = i
      /\ \A x \in DOMAIN c.tool_blocks : x # s => d.tool_blocks[x] = c.tool_blocks[x]
  OBVIOUS
<1>7. \A x \in DOMAIN d.tool_blocks :
         a[d.tool_blocks[x].block_index] = Open("tool_use")
  BY <1>4, <1>5, <1>6 DEF SameBlocks
<1>8. \A j \in DOMAIN a : a[j].open <=> a[j].kind = "tool_use"
  <2>1. \A j \in 0..i : j = i \/ j \in 0..(i - 1)
    BY <1>1
  <2>2. QED
    BY <1>1, <1>3, <1>4, <2>1 DEF SameBlocks
<1>9. (i + 1) - 1 = i
  BY <1>1
<1> HIDE DEF i
<1>10. SameBlocks(d, a)
  BY <1>1, <1>4, <1>7, <1>8, <1>9 DEF SameBlocks, InText
<1>11. OnlyCallsOpen(b)
  BY CallsStayOpen
<1>12. QED
  BY <1>2, <1>3, <1>10, <1>11 DEF a

LEMMA SlotCases ==
    ASSUME NEW c, NEW f, NEW s \in Slots(c, f)
    PROVE  LET same == {x \in DOMAIN c.tool_blocks : c.tool_blocks[x].id = f.id}
           IN  /\ f.index # None => s = f.index
               /\ f.index = None /\ f.id # None =>
                     IF same = {} THEN s = c.next_tool_slot ELSE s \in same
               /\ f.index = None /\ f.id = None =>
                     s = IF c.last_tool_slot = None THEN 0 ELSE c.last_tool_slot
<1> DEFINE same == {x \in DOMAIN c.tool_blocks : c.tool_blocks[x].id = f.id}
<1>1. CASE f.index # None
  <2>1. s \in {f.index}
    BY <1>1, Zenon DEF Slots
  <2>2. QED
    BY <1>1, <2>1
<1>2. CASE f.index = None /\ f.id # None
  <2>1. s \in IF same = {} THEN {c.next_tool_slot} ELSE same
    BY <1>2, Zenon DEF Slots
  <2>2. QED
    BY <1>2, <2>1
<1>3. CASE f.index = None /\ f.id = None
  <2>1. s \in {IF c.last_tool_slot = None THEN 0 ELSE c.last_tool_slot}
    BY <1>3, Zenon DEF Slots
  <2>2. QED
    BY <1>3, <2>1
<1>4. QED
  BY <1>1, <1>2, <1>3

\* A fragment goes to the block of its call.
LEMMA WriteSound ==
    ASSUME NEW live, NEW m, NEW u, NEW t, NEW p, Sound(live, m, p, u, t),
           NEW s \in DOMAIN p.c.tool_blocks,
           NEW q, q = Emit(p, BlockEvent("delta", "tool_use",
                                         p.c.tool_blocks[s].block_index))
    PROVE  Sound(live, m, q, u, t) /\ q.c = p.c
<1> DEFINE j == p.c.tool_blocks[s].block_index
           e == BlockEvent("delta", "tool_use", j)
<1>1. p \in Pairs /\ p.c \in Conv /\ p.out \in Seq(StreamEvent)
      /\ p = [c |-> p.c, out |-> p.out]
  BY PairOf DEF Sound
<1>2. j \in Nat
  BY <1>1, CallsAre
<1>3. e.type = "delta" /\ e.index = j /\ e.kind = "tool_use" /\ e \in StreamEvent
  BY <1>2, EventsAre DEF BlockEvent, Kinds
<1>4. q \in Pairs /\ q.c = p.c /\ q.out = Append(p.out, e)
  <2> HIDE DEF e
  <2>1. q = Emit([c |-> p.c, out |-> p.out], e)
    BY <1>1, Zenon DEF e
  <2>2. QED
    BY <1>1, <1>3, <2>1, EmitEffect
<1>5. ASSUME live
      PROVE  Runs(m, q, u, t)
  <2>1. Runs(m, p, u, t)
    BY <1>5 DEF Sound
  <2>2. PICK b : Leads(m, p.out, ClientWith("open", b)) /\ SameBlocks(p.c, b)
    BY <2>1 DEF Runs
  <2>3. b[j] = Open("tool_use") /\ j \in DOMAIN b
    <3>1. p.c.content_block_index \in Nat /\ j < p.c.content_block_index
      BY <1>1 DEF Sound, Books, Conv
    <3>2. QED
      BY <1>2, <2>2, <3>1 DEF SameBlocks
  <2>4. Announced(b, e)
    BY <1>3, <2>3, Zenon DEF Announced, Open
  <2>5. /\ Expected(ClientWith("open", b), e)
        /\ After(ClientWith("open", b), e) = ClientWith("open", b)
    BY <1>3, <2>4 DEF Expected, After, ClientWith
  <2> HIDE DEF e
  <2>6. Leads(m, q.out, ClientWith("open", b)) /\ NoResult(q.out)
    BY <1>1, <1>3, <1>4, <2>1, <2>2, <2>5, RunsFurther DEF Runs
  <2>7. QED
    BY <1>4, <2>1, <2>2, <2>6 DEF Runs
<1>6. Bounded(q.out, q.c.content_block_index)
  <2>1. p.c.content_block_index \in Nat /\ j < p.c.content_block_index
    BY <1>1 DEF Sound, Books, Conv
  <2> HIDE DEF j, e
  <2>2. Bounded(Append(p.out, e), p.c.content_block_index)
    BY <1>1, <1>2, <1>3, <2>1, BoundedFurther DEF Sound
  <2>3. QED
    BY <1>4, <2>2
<1>7. QED
  BY <1>4, <1>5, <1>6 DEF Sound

LEMMA SlotsAre ==
    ASSUME NEW c \in Conv, NEW f \in Fragment, NEW s \in Slots(c, f)
    PROVE  s \in Nat
<1>1. /\ c.next_tool_slot \in Nat /\ c.last_tool_slot \in Nat \cup {None}
      /\ DOMAIN c.tool_blocks \in SUBSET Nat /\ f.index \in Nat \cup {None}
  BY CallsAre DEF Conv, Fragment
<1>2. QED
  BY <1>1, SlotCases

\* What a fragment makes of the slots.
LEMMA SlotEffect ==
    ASSUME NEW p \in Pairs, NEW f, NEW s \in Nat, NEW c, NEW q,
           c = [Numbered(p.c, f) EXCEPT !.last_tool_slot = s],
           q = [p EXCEPT !.c = c]
    PROVE  /\ q \in Pairs /\ q.c = c /\ q.out = p.out
           /\ c.last_tool_slot = s
           /\ c.next_tool_slot =
                 IF /\ f.index = None /\ f.id # None
                    /\ \A x \in DOMAIN p.c.tool_blocks : p.c.tool_blocks[x].id # f.id
                 THEN p.c.next_tool_slot + 1 ELSE p.c.next_tool_slot
           /\ c.tool_blocks = p.c.tool_blocks
           /\ c.tool_block_order = p.c.tool_block_order
           /\ SameTexts(p.c, c) /\ SameMessage(p.c, c) /\ SameCounts(p.c, c)
<1> DEFINE fresh == /\ f.index = None /\ f.id # None
                    /\ \A x \in DOMAIN p.c.tool_blocks : p.c.tool_blocks[x].id # f.id
           k == p.c.next_tool_slot
           n == IF fresh THEN k + 1 ELSE k
<1>1. p.c \in Conv /\ p.out \in Seq(StreamEvent) /\ k \in Nat
  BY PairOf DEF Conv
<1>2. c = SlotIs(p.c, n, s)
  <2>1. Numbered(p.c, f) = IF fresh THEN [p.c EXCEPT !.next_tool_slot = k + 1] ELSE p.c
    BY Zenon DEF Numbered
  <2> HIDE DEF fresh
  <2>2. ASSUME NEW d \in Conv
        PROVE  [d EXCEPT !.last_tool_slot = s]
                  = [d EXCEPT !.next_tool_slot = d.next_tool_slot, !.last_tool_slot = s]
    BY DEF Conv
  <2>3. CASE fresh
    <3>1. Numbered(p.c, f) = [p.c EXCEPT !.next_tool_slot = k + 1]
      BY <2>1, <2>3, Zenon
    <3>2. n = k + 1
      BY <2>3, Zenon
    <3> HIDE DEF n
    <3>3. QED
      BY <3>1, <3>2, Zenon DEF SlotIs
  <2>4. CASE ~fresh
    <3>1. Numbered(p.c, f) = p.c
      BY <2>1, <2>4, Zenon
    <3>2. n = k
      BY <2>4, Zenon
    <3>3. c = [p.c EXCEPT !.next_tool_slot = k, !.last_tool_slot = s]
      BY <1>1, <2>2, <3>1, Zenon
    <3> HIDE DEF n
    <3>4. QED
      BY <3>2, <3>3, Zenon DEF SlotIs
  <2>5. QED
    BY <2>3, <2>4
<1>3. n \in Nat
  BY <1>1
<1>4. q = [c |-> c, out |-> p.out]
  BY PairChanged, Zenon
<1> HIDE DEF n
<1>5. /\ c \in Conv /\ c.next_tool_slot = n /\ c.last_tool_slot = s
      /\ c.tool_blocks = p.c.tool_blocks
      /\ c.tool_block_order = p.c.tool_block_order
      /\ SameTexts(p.c, c) /\ SameMessage(p.c, c) /\ SameCounts(p.c, c)
  <2>1. LET d == SlotIs(p.c, n, s)
        IN  /\ d \in Conv /\ d.next_tool_slot = n /\ d.last_tool_slot = s
            /\ d.tool_blocks = p.c.tool_blocks
            /\ d.tool_block_order = p.c.tool_block_order
            /\ SameTexts(p.c, d) /\ SameMessage(p.c, d) /\ SameCounts(p.c, d)
    BY <1>1, <1>3, SlotState, Zenon
  <2>2. QED
    BY <1>2, <2>1
<1>6. q \in Pairs /\ q.c = c /\ q.out = p.out
  BY <1>1, <1>4, <1>5 DEF Pairs
<1>7. c.next_tool_slot = IF fresh THEN k + 1 ELSE k
  BY <1>5, Zenon DEF n
<1>8. QED
  BY <1>5, <1>6, <1>7

\* A fragment is a part of an open call or opens one.
LEMMA CallSound ==
    ASSUME NEW live, NEW m, NEW u, NEW t, NEW p, Sound(live, m, p, u, t), ~InText(p.c),
           dialect \in Dialects, NEW f \in dialect, NEW s \in Slots(p.c, f),
           NEW z, z = Call(p, f, s)
    PROVE  Sound(live, m, z, u, t) /\ z.c.message_ended = p.c.message_ended
<1> DEFINE c == [Numbered(p.c, f) EXCEPT !.last_tool_slot = s]
           q == [p EXCEPT !.c = c]
           r == IF IsNewCall(q.c, f, s) THEN OpenCall(q, f, s) ELSE q
           i == p.c.content_block_index
<1>1. /\ p \in Pairs /\ p.c \in Conv /\ p.out \in Seq(StreamEvent)
      /\ Books(p.c) /\ p.c.message_started /\ i \in Nat
  BY PairOf DEF Sound, Conv
<1>2. f \in Fragment /\ s \in Nat
  <2>1. f \in Fragment
    BY ConverterAssumption
  <2>2. QED
    BY <1>1, <2>1, SlotsAre
<1>3. z = Emit(r, BlockEvent("delta", "tool_use", r.c.tool_blocks[s].block_index))
  BY Zenon DEF Call
<1>4. /\ q \in Pairs /\ q.c = c /\ q.out = p.out
      /\ c.last_tool_slot = s
      /\ c.next_tool_slot =
            IF /\ f.index = None /\ f.id # None
               /\ \A x \in DOMAIN p.c.tool_blocks : p.c.tool_blocks[x].id # f.id
            THEN p.c.next_tool_slot + 1 ELSE p.c.next_tool_slot
      /\ c.tool_blocks = p.c.tool_blocks
      /\ c.tool_block_order = p.c.tool_block_order
      /\ SameTexts(p.c, c) /\ SameMessage(p.c, c) /\ SameCounts(p.c, c)
  BY <1>1, <1>2, SlotEffect
<1> HIDE DEF c, q
<1>5. /\ c \in Conv /\ c.content_block_index = i /\ ~InText(c)
      /\ c.message_started = p.c.message_started
      /\ c.message_ended = p.c.message_ended
      /\ Books(c)
  <2>1. c \in Conv
    BY <1>4, PairOf
  <2>2. QED
    BY <1>1, <1>4, <2>1 DEF SameTexts, SameMessage, InText, Books
<1>6. ASSUME live
      PROVE  \E b : /\ Leads(m, p.out, ClientWith("open", b)) /\ SameBlocks(p.c, b)
                    /\ SameBlocks(c, b) /\ NoResult(p.out) /\ Tally(c, u, t)
  <2>1. Runs(m, p, u, t)
    BY <1>6 DEF Sound
  <2>2. \A b : SameBlocks(p.c, b) => SameBlocks(c, b)
    BY <1>4, BlocksStay
  <2>3. Tally(c, u, t)
    BY <1>4, <2>1 DEF Runs, Tally, SameCounts
  <2>4. QED
    BY <2>1, <2>2, <2>3 DEF Runs
<1>7. CASE ~IsNewCall(q.c, f, s)
  <2>1. s \in DOMAIN q.c.tool_blocks /\ r = q
    BY <1>7 DEF IsNewCall
  <2>2. Sound(live, m, q, u, t)
    BY <1>1, <1>4, <1>5, <1>6 DEF Sound, Runs, Grown
  <2> HIDE DEF r
  <2>3. Sound(live, m, z, u, t) /\ z.c = q.c
    BY <1>3, <2>1, <2>2, WriteSound
  <2>4. QED
    BY <1>4, <1>5, <2>3
<1>8. CASE IsNewCall(q.c, f, s)
  <2> DEFINE e == BlockEvent("start", "tool_use", i)
  <2>1. r = OpenCall(q, f, s)
    BY <1>8
  <2> HIDE DEF r
  <2>2. /\ r \in Pairs
        /\ r.out = Append(p.out, e)
        /\ r.c.content_block_index = i + 1
        /\ r.c.text = c.text /\ r.c.thinking = c.thinking
        /\ r.c.tool_block_order = WithSlot(c.tool_block_order, s)
        /\ \E id : r.c.tool_blocks = WithCall(c, s, id, i)
        /\ SameMessage(c, r.c) /\ SameCounts(c, r.c)
    <3>1. q \in Pairs
      BY <1>4
    <3>2. CallOpened(q, f, s, r)
      BY <1>2, <2>1, <3>1, OpenCallEffect, Zenon
    <3>3. QED
      BY <1>4, <1>5, <3>2 DEF CallOpened
  <2>3. PICK id : r.c.tool_blocks = WithCall(c, s, id, i)
    BY <2>2
  <2>4. r.c \in Conv /\ ~InText(r.c) /\ r.c.message_started
        /\ r.c.message_ended = p.c.message_ended
    BY <1>1, <1>5, <2>2, PairOf DEF InText, SameMessage
  <2>5. Books(r.c)
    <3>1. /\ r.c.tool_blocks = WithCall(c, s, id, c.content_block_index)
          /\ r.c.content_block_index = c.content_block_index + 1
          /\ r.c.tool_block_order = WithSlot(c.tool_block_order, s)
      BY <1>5, <2>2, <2>3
    <3>2. QED
      BY <1>2, <1>5, <2>4, <3>1, BooksWithCall, Zenon
  <2>6. ASSUME live
        PROVE  Runs(m, r, u, t)
    <3>1. PICK b : /\ Leads(m, p.out, ClientWith("open", b)) /\ SameBlocks(c, b)
                   /\ NoResult(p.out) /\ Tally(c, u, t)
      BY <1>6, <2>6
    <3> DEFINE a == WithBlock(b, e, TRUE)
    <3>2. DOMAIN b = 0..(e.index - 1) /\ OnlyCallsOpen(b) /\ SameBlocks(r.c, a)
      <4>1. /\ DOMAIN r.c.tool_blocks = DOMAIN c.tool_blocks \cup {s}
            /\ r.c.tool_blocks[s].block_index = i
            /\ \A x \in DOMAIN c.tool_blocks :
                  x # s => r.c.tool_blocks[x] = c.tool_blocks[x]
        BY <2>3 DEF WithCall
      <4>2. /\ r.c.content_block_index = c.content_block_index + 1
            /\ e = BlockEvent("start", "tool_use", c.content_block_index)
            /\ r.c.tool_blocks[s].block_index = c.content_block_index
        BY <1>5, <2>2, <4>1
      <4>3. QED
        BY <1>5, <2>4, <3>1, <4>1, <4>2, BlocksWithCall
    <3>3. e.type = "start" /\ e \in StreamEvent
      BY <1>1, EventsAre DEF BlockEvent, Kinds
    <3>4. /\ Expected(ClientWith("open", b), e)
          /\ After(ClientWith("open", b), e) = ClientWith("open", a)
      BY <3>2, <3>3 DEF Expected, After, ClientWith
    <3> HIDE DEF e, a
    <3>5. Leads(m, r.out, ClientWith("open", a)) /\ NoResult(r.out)
      BY <1>1, <2>2, <3>1, <3>3, <3>4, RunsFurther
    <3>6. Tally(r.c, u, t)
      BY <2>2, <3>1 DEF Tally, SameCounts
    <3>7. QED
      BY <3>2, <3>5, <3>6 DEF Runs
  <2>7. Bounded(r.out, r.c.content_block_index)
    <3>1. e \in StreamEvent /\ e.index = i /\ i + 1 \in Nat /\ i <= i + 1
      BY <1>1, EventsAre DEF BlockEvent, Kinds
    <3> HIDE DEF e
    <3>2. Bounded(p.out, i)
      BY DEF Sound
    <3> HIDE DEF i
    <3>3. Bounded(Append(p.out, e), i + 1)
      BY <1>1, <3>1, <3>2, BoundedFurther
    <3>4. QED
      BY <2>2, <3>3
  <2>8. Sound(live, m, r, u, t)
    <3>1. Grown(r.c)
      <4>1. r.c.content_block_index >= p.c.content_block_index
        BY <1>1, <2>2
      <4>2. QED
        BY <1>1, <2>4, <4>1, GrownFurther DEF Sound
    <3>2. QED
      BY <2>2, <2>4, <2>5, <2>6, <2>7, <3>1 DEF Sound
  <2>9. s \in DOMAIN r.c.tool_blocks
    BY <2>3 DEF WithCall
  <2>10. Sound(live, m, z, u, t) /\ z.c = r.c
    BY <1>3, <2>8, <2>9, WriteSound
  <2>11. QED
    BY <2>4, <2>10
<1>9. QED
  BY <1>7, <1>8

-----------------------------------------------------------------------------
(* The end of the message *)

\* The blocks b with those of the first n calls closed.
CallsClosed(c, b, n) ==
    [i \in DOMAIN b |->
        IF \E j \in 1..n : c.tool_blocks[c.tool_block_order[j]].block_index = i
        THEN [kind |-> "tool_use", open |-> FALSE] ELSE b[i]]

LEMMA CallClosed ==
    ASSUME NEW c \in Conv, Books(c), NEW b, SameBlocks(c, b), ~InText(c),
           NEW n \in 1..Len(c.tool_block_order),
           NEW e, e = Stops(c)[n]
    PROVE  /\ Announced(CallsClosed(c, b, n - 1), e)
           /\ WithBlock(CallsClosed(c, b, n - 1), e, FALSE) = CallsClosed(c, b, n)
<1> DEFINE at(j) == c.tool_blocks[c.tool_block_order[j]].block_index
           Stopped == [kind |-> "tool_use", open |-> FALSE]
           i == c.content_block_index
           a == CallsClosed(c, b, n - 1)
<1>1. /\ DOMAIN c.tool_block_order = 1..Len(c.tool_block_order)
      /\ Len(c.tool_block_order) \in Nat /\ i \in Nat /\ n \in Nat
  BY DEF Conv
<1>2. /\ \A j \in 1..Len(c.tool_block_order) :
            c.tool_block_order[j] \in DOMAIN c.tool_blocks
      /\ \A j, k \in 1..Len(c.tool_block_order) : at(j) = at(k) => j = k
  <2>1. /\ \A j \in DOMAIN c.tool_block_order :
              c.tool_block_order[j] \in DOMAIN c.tool_blocks
        /\ \A j, k \in DOMAIN c.tool_block_order :
              c.tool_block_order[j] = c.tool_block_order[k] => j = k
        /\ \A s, t \in DOMAIN c.tool_blocks :
              c.tool_blocks[s].block_index = c.tool_blocks[t].block_index => s = t
    BY Zenon DEF Books
  <2>2. QED
    BY <1>1, <2>1
<1>3. e = BlockEvent("stop", "tool_use", at(n))
  BY <1>1 DEF Stops
<1>4. e.index = at(n) /\ e.kind = "tool_use"
  BY <1>3 DEF BlockEvent
<1>5. /\ at(n) \in Nat /\ at(n) < i /\ b[at(n)] = Open("tool_use")
      /\ DOMAIN b = 0..(i - 1)
  BY <1>1, <1>2, CallsAre DEF Books, SameBlocks
<1>6. at(n) \in DOMAIN b
  BY <1>1, <1>5
<1>7. \A j \in 1..(n - 1) : at(j) # at(n)
  BY <1>1, <1>2
<1>8. /\ \A j \in 1..n : j = n \/ j \in 1..(n - 1)
      /\ n \in 1..n /\ \A j \in 1..(n - 1) : j \in 1..n
  BY <1>1
<1>9. DOMAIN a = DOMAIN b /\ a[at(n)] = Open("tool_use")
  BY <1>6, <1>7, <1>5 DEF CallsClosed
<1>10. Announced(a, e)
  BY <1>4, <1>6, <1>9, Zenon DEF Announced, Open
<1>11. ASSUME NEW k \in DOMAIN b
       PROVE  (\E j \in 1..n : at(j) = k) <=> k = at(n) \/ \E j \in 1..(n - 1) : at(j) = k
  BY <1>8
<1>12. WithBlock(a, e, FALSE)
          = [k \in DOMAIN b |-> IF k = at(n) THEN Stopped ELSE a[k]]
  <2> HIDE DEF a
  <2>1. DOMAIN b \cup {at(n)} = DOMAIN b
    BY <1>6
  <2> HIDE DEF at
  <2>2. QED
    BY <1>4, <1>9, <2>1, Zenon DEF WithBlock
<1>13. ASSUME NEW k \in DOMAIN b
       PROVE  (IF k = at(n) THEN Stopped ELSE a[k]) = CallsClosed(c, b, n)[k]
  <2>1. /\ a[k] = IF \E j \in 1..(n - 1) : at(j) = k THEN Stopped ELSE b[k]
        /\ CallsClosed(c, b, n)[k] = IF \E j \in 1..n : at(j) = k THEN Stopped ELSE b[k]
    BY Zenon DEF CallsClosed
  <2> HIDE DEF at, Stopped, a
  <2>2. QED
    BY <1>11, <2>1
<1>14. CallsClosed(c, b, n) = [k \in DOMAIN b |-> CallsClosed(c, b, n)[k]]
  BY DEF CallsClosed
<1> HIDE DEF a, at, Stopped
<1>15. WithBlock(a, e, FALSE) = CallsClosed(c, b, n)
  BY <1>12, <1>13, <1>14
<1>16. QED
  BY <1>10, <1>15 DEF a

\* Open are the blocks of the calls that the books have forgotten.
LeftOpen(c, b) ==
    \A i \in DOMAIN b :
        b[i].open <=> /\ b[i].kind = "tool_use"
                      /\ \A s \in DOMAIN c.tool_blocks :
                            c.tool_blocks[s].block_index # i

\* The stops of the calls leave no block open that the books know.
LEMMA StopsLead ==
    ASSUME NEW c \in Conv, Books(c), NEW b, SameBlocks(c, b), ~InText(c)
    PROVE  \E a : /\ Leads(ClientWith("open", b), Stops(c), ClientWith("open", a))
                  /\ LeftOpen(c, a) /\ OnlyCallsOpen(a)
<1> DEFINE n == Len(c.tool_block_order)
           a == CallsClosed(c, b, n)
           run == [j \in 0..n |-> ClientWith("open", CallsClosed(c, b, j))]
<1>1. /\ n \in Nat /\ DOMAIN c.tool_block_order = 1..n
      /\ Len(Stops(c)) = n /\ Stops(c) \in Seq(StreamEvent)
      /\ \A j \in 1..n : Stops(c)[j].type = "stop"
  <2>1. n \in Nat /\ DOMAIN c.tool_block_order = 1..n
    BY DEF Conv
  <2>2. \A j \in DOMAIN c.tool_block_order :
           c.tool_block_order[j] \in DOMAIN c.tool_blocks
    BY DEF Books
  <2>3. Len(Stops(c)) = n /\ Stops(c) \in Seq(StreamEvent)
    BY <2>2, StopsAre
  <2>4. \A j \in 1..n : Stops(c)[j].type = "stop"
    BY <2>1 DEF Stops, BlockEvent
  <2>5. QED
    BY <2>1, <2>3, <2>4
<1> HIDE DEF n
<1>2. run[0] = ClientWith("open", b) /\ run[n] = ClientWith("open", a)
  <2>1. b = [i \in DOMAIN b |-> b[i]]
    BY DEF SameBlocks
  <2>2. CallsClosed(c, b, 0) = b
    BY <2>1 DEF CallsClosed
  <2>3. 0 \in 0..n /\ n \in 0..n
    BY <1>1
  <2>4. QED
    BY <2>2, <2>3
<1>3. ASSUME NEW j \in 1..n
      PROVE  Reads(run[j - 1], Stops(c)[j], run[j])
  <2> DEFINE d == CallsClosed(c, b, j - 1)
             e == Stops(c)[j]
  <2>1. j \in 0..n /\ j - 1 \in 0..n
    BY <1>1
  <2>2. run[j - 1] = ClientWith("open", d)
        /\ run[j] = ClientWith("open", CallsClosed(c, b, j))
    BY <2>1
  <2>3. Announced(d, e) /\ WithBlock(d, e, FALSE) = CallsClosed(c, b, j)
    BY CallClosed DEF n
  <2>4. e.type = "stop"
    BY <1>1
  <2> HIDE DEF d, e, run
  <2>5. /\ Expected(ClientWith("open", d), e)
        /\ After(ClientWith("open", d), e) = ClientWith("open", CallsClosed(c, b, j))
    BY <2>3, <2>4 DEF Expected, After, ClientWith
  <2>6. Reads(ClientWith("open", d), e, ClientWith("open", CallsClosed(c, b, j)))
    BY <2>5 DEF Reads, ClientWith
  <2>7. QED
    BY <2>2, <2>6 DEF e
<1>4. Leads(ClientWith("open", b), Stops(c), ClientWith("open", a))
  <2> HIDE DEF run
  <2>1. QED
    BY <1>1, <1>2, <1>3 DEF Leads
<1>5. ASSUME NEW i \in DOMAIN a
      PROVE  a[i].open <=> /\ a[i].kind = "tool_use"
                           /\ \A s \in DOMAIN c.tool_blocks :
                                 c.tool_blocks[s].block_index # i
  <2>1. i \in DOMAIN b
    BY DEF CallsClosed
  <2>2. CASE \E j \in 1..n : c.tool_blocks[c.tool_block_order[j]].block_index = i
    <3>1. a[i] = [kind |-> "tool_use", open |-> FALSE]
      BY <2>1, <2>2, Zenon DEF CallsClosed
    <3>2. \A j \in 1..n : c.tool_block_order[j] \in DOMAIN c.tool_blocks
      BY <1>1 DEF Books
    <3>3. \E s \in DOMAIN c.tool_blocks : c.tool_blocks[s].block_index = i
      BY <2>2, <3>2
    <3> HIDE DEF a
    <3>4. QED
      BY <3>1, <3>3
  <2>3. CASE ~\E j \in 1..n : c.tool_blocks[c.tool_block_order[j]].block_index = i
    <3>1. a[i] = b[i]
      BY <2>1, <2>3, Zenon DEF CallsClosed
    <3>2. \A s \in DOMAIN c.tool_blocks : \E j \in 1..n : c.tool_block_order[j] = s
      BY <1>1 DEF Books
    <3>3. \A s \in DOMAIN c.tool_blocks : c.tool_blocks[s].block_index # i
      BY <2>3, <3>2
    <3>4. b[i].open <=> b[i].kind = "tool_use"
      BY <2>1 DEF SameBlocks
    <3> HIDE DEF a
    <3>5. QED
      BY <3>1, <3>3, <3>4
  <2>4. QED
    BY <2>2, <2>3
<1> HIDE DEF a
<1>6. LeftOpen(c, a)
  BY <1>5 DEF LeftOpen
<1>7. OnlyCallsOpen(a)
  BY <1>5 DEF OnlyCallsOpen, Overlapping
<1>8. QED
  BY <1>4, <1>6, <1>7

\* A message_delta has the counts u and t, as in Tally, and the reason.
Reports(out, u, t, reason) ==
    \A j \in 1..Len(out) : out[j].type = "message_delta" =>
        /\ out[j].output_tokens = IF u = None THEN t ELSE u
        /\ out[j].stop_reason = StopReason(reason)

\* The last two events are message_delta and message_stop.
EndsWell(out) ==
    LET n == Len(out)
    IN  /\ n >= 2 /\ out[n].type = "message_stop"
        /\ \A j \in 1..n : out[j].type = "message_delta" <=> j = n - 1

LEMMA StopReasonIs ==
    /\ \A reason : StopReason(reason) \in {"max_tokens", "tool_use", "end_turn"}
    /\ StopReason("stop") = StopReason(None)
<1>1. ASSUME NEW reason
      PROVE  StopReason(reason) \in {"max_tokens", "tool_use", "end_turn"}
  <2>1. CASE reason = "length"
    BY <2>1, Zenon DEF StopReason
  <2>2. CASE reason # "length" /\ reason = "tool_calls"
    BY <2>2, Zenon DEF StopReason
  <2>3. CASE reason # "length" /\ reason # "tool_calls"
    BY <2>3, Zenon DEF StopReason
  <2>4. QED
    BY <2>1, <2>2, <2>3
<1>2. ASSUME NEW reason, reason # "length", reason # "tool_calls"
      PROVE  StopReason(reason) = "end_turn"
  BY <1>2, Zenon DEF StopReason
<1>3. None # "length" /\ None # "tool_calls" /\ "stop" # "length" /\ "stop" # "tool_calls"
  BY ConverterAssumption
<1>4. QED
  BY <1>1, <1>2, <1>3

\* The stops of the calls, after the other events.
LEMMA StopsFurther ==
    ASSUME NEW c \in Conv, Books(c), NEW out \in Seq(StreamEvent), NoResult(out),
           Bounded(out, c.content_block_index)
    PROVE  LET es == out \o Stops(c)
           IN  /\ es \in Seq(StreamEvent) /\ NoResult(es)
               /\ Bounded(es, c.content_block_index)
<1> DEFINE n == Len(out)
           k == Len(c.tool_block_order)
           es == out \o Stops(c)
<1>1. \A j \in DOMAIN c.tool_block_order : c.tool_block_order[j] \in DOMAIN c.tool_blocks
  BY DEF Books
<1>2. /\ Stops(c) \in Seq(StreamEvent) /\ Len(Stops(c)) = k /\ k \in Nat
      /\ DOMAIN c.tool_block_order = 1..k
      /\ \A j \in 1..k :
            Stops(c)[j] =
               BlockEvent("stop", "tool_use",
                          c.tool_blocks[c.tool_block_order[j]].block_index)
  BY <1>1, StopsAre DEF Conv
<1>3. /\ n \in Nat /\ es \in Seq(StreamEvent) /\ Len(es) = n + k
      /\ \A j \in 1..n : es[j] = out[j]
      /\ \A j \in 1..k : es[j + n] = Stops(c)[j]
  BY <1>2
<1> HIDE DEF k, n, es
<1>4. ASSUME NEW j \in 1..k
      PROVE  /\ Stops(c)[j].type = "stop"
             /\ Stops(c)[j].index <= c.content_block_index
  <2> DEFINE i == c.tool_blocks[c.tool_block_order[j]].block_index
  <2>1. c.tool_block_order[j] \in DOMAIN c.tool_blocks
    BY <1>1, <1>2
  <2>2. i \in Nat /\ i < c.content_block_index /\ c.content_block_index \in Nat
    BY <2>1, CallsAre DEF Books, Conv
  <2>3. Stops(c)[j].type = "stop" /\ Stops(c)[j].index = i
    BY <1>2 DEF BlockEvent
  <2> HIDE DEF i
  <2>4. QED
    BY <2>2, <2>3
<1>5. ASSUME NEW j \in 1..(n + k)
      PROVE  j \in 1..n \/ \E x \in 1..k : j = x + n
  <2>1. j \in 1..n \/ (j - n \in 1..k /\ j = (j - n) + n)
    BY <1>2, <1>3
  <2>2. QED
    BY <2>1
<1>6. ASSUME NEW j \in 1..n
      PROVE  /\ out[j].type # "message_delta"
             /\ out[j].type \in {"start", "stop", "delta"} =>
                   out[j].index <= c.content_block_index
  BY DEF NoResult, Bounded, n
<1>7. ASSUME NEW j \in 1..(n + k)
      PROVE  /\ es[j].type # "message_delta"
             /\ es[j].type \in {"start", "stop", "delta"} =>
                   es[j].index <= c.content_block_index
  <2>1. CASE j \in 1..n
    BY <1>3, <1>6, <2>1
  <2>2. CASE \E x \in 1..k : j = x + n
    BY <1>3, <1>4, <2>2
  <2>3. QED
    BY <1>5, <2>1, <2>2
<1>8. NoResult(es) /\ Bounded(es, c.content_block_index)
  BY <1>3, <1>7 DEF NoResult, Bounded
<1>9. QED
  BY <1>3, <1>8 DEF es

\* The two events that end a message.
LEMMA ResultFurther ==
    ASSUME NEW out \in Seq(StreamEvent), NoResult(out), NEW n \in Nat, Bounded(out, n),
           NEW u, NEW t, NEW reason, NEW tokens \in Nat,
           tokens = IF u = None THEN t ELSE u,
           NEW es, es = Append(Append(out, Result(reason, tokens)), Event("message_stop"))
    PROVE  /\ es \in Seq(StreamEvent) /\ Bounded(es, n)
           /\ Reports(es, u, t, reason) /\ EndsWell(es)
<1> DEFINE k == Len(out)
           e == Result(reason, tokens)
           f == Event("message_stop")
<1>1. /\ e \in StreamEvent /\ f \in StreamEvent
      /\ e.type = "message_delta" /\ f.type = "message_stop"
      /\ e.output_tokens = tokens /\ e.stop_reason = StopReason(reason)
  BY StopReasonIs DEF Result, Event, StreamEvent
<1> HIDE DEF e, f
<1>2. /\ k \in Nat /\ Append(out, e) \in Seq(StreamEvent) /\ es \in Seq(StreamEvent)
      /\ Len(es) = k + 2 /\ es[k + 1] = e /\ es[k + 2] = f
      /\ \A j \in 1..k : es[j] = out[j]
  BY <1>1 DEF e, f
<1>3. Bounded(es, n)
  <2>1. n <= n /\ es = Append(Append(out, e), f)
    BY DEF e, f
  <2>2. Bounded(Append(out, e), n)
    BY <1>1, <2>1, BoundedFurther
  <2>3. QED
    BY <1>1, <1>2, <2>1, <2>2, BoundedFurther
<1> HIDE DEF k
<1>4. \A j \in 1..(k + 2) : j \in 1..k \/ j = k + 1 \/ j = k + 2
  BY <1>2
<1>5. Reports(es, u, t, reason)
  BY <1>1, <1>2, <1>4 DEF Reports, NoResult, k
<1>6. EndsWell(es)
  <2>1. \A j \in 1..k : es[j].type # "message_delta" /\ j # (k + 2) - 1
    BY <1>2 DEF NoResult, k
  <2>2. (k + 2) - 1 = k + 1 /\ k + 2 # k + 1 /\ k + 2 >= 2
    BY <1>2
  <2>3. QED
    BY <1>1, <1>2, <1>4, <2>1, <2>2 DEF EndsWell
<1>7. QED
  BY <1>2, <1>3, <1>5, <1>6

LEMMA CloseOpenEffect ==
    ASSUME NEW p, NEW q \in Pairs,
           q = CloseBlock(CloseBlock(p, "thinking"), "text")
    PROVE  CloseOpenBlocks(p) = [c |-> q.c, out |-> q.out \o Stops(q.c)]
<1> DEFINE es == [j \in DOMAIN q.c.tool_block_order |->
                     BlockEvent("stop", "tool_use",
                                q.c.tool_blocks[q.c.tool_block_order[j]].block_index)]
<1>1. CloseOpenBlocks(p) = [q EXCEPT !.out = @ \o es]
  BY Zenon DEF CloseOpenBlocks
<1>2. es = Stops(q.c)
  BY DEF Stops
<1>3. q \in [c: {q.c}, out: {q.out}]
  BY PairOf
<1> HIDE DEF es
<1>4. \A x : [q EXCEPT !.out = x] = [c |-> q.c, out |-> x]
  BY <1>3
<1>5. [q EXCEPT !.out = @ \o es] = [c |-> q.c, out |-> q.out \o es]
  BY <1>4, Zenon
<1>6. QED
  BY <1>1, <1>2, <1>5

\* A line is handled: the client m will agree with the converter.
Whole(m, r) ==
    /\ r \in Pairs /\ Books(r.c) /\ Grown(r.c)
    /\ Bounded(r.out, r.c.content_block_index)
    /\ \E n : /\ Leads(m, r.out, n) /\ Agree(r.c, n)
              /\ m.phase # "stopped" /\ r.c.message_ended =>
                    LeftOpen(r.c, n.blocks)

\* What the message is ended with, or goes on with.
Final(r, u, t, reason) ==
    IF r.c.message_ended THEN Reports(r.out, u, t, reason) /\ EndsWell(r.out)
                         ELSE NoResult(r.out) /\ Tally(r.c, u, t)

LEMMA EndSound ==
    ASSUME NEW m, NEW u \in Nat \cup {None}, NEW t \in Nat, NEW p,
           Sound(TRUE, m, p, u, t), ~p.c.message_ended,
           NEW reason, NEW q, q = EndMessage(p, reason)
    PROVE  Whole(m, q) /\ Final(q, u, t, reason) /\ q.c.message_ended
<1> DEFINE p0 == [p EXCEPT !.c.message_ended = TRUE]
           p1 == CloseBlock(CloseBlock(p0, "thinking"), "text")
           e == Result(reason, p.c.output_tokens)
           f == Event("message_stop")
           i == p1.c.content_block_index
           es == p1.out \o Stops(p1.c)
<1>1. p \in Pairs /\ p.c \in Conv /\ p.out \in Seq(StreamEvent)
  BY PairOf DEF Sound
<1>2. Sound(TRUE, m, p0, u, t) /\ p0.c.message_ended
  <2>1. p0 = [c |-> Ended(p.c), out |-> p.out]
    BY <1>1, PairChanged
  <2>2. /\ p0.c \in Conv /\ p0.out = p.out /\ p0 \in Pairs
        /\ p0.c.message_ended /\ p0.c.message_started = p.c.message_started
        /\ SameCalls(p.c, p0.c) /\ SameCounts(p.c, p0.c) /\ SameTexts(p.c, p0.c)
    <3>1. p0.c = Ended(p.c) /\ p0.out = p.out
      BY <2>1
    <3>2. p0.c \in Conv
      BY <1>1, <3>1, EndedState
    <3>3. p0 \in Pairs
      BY <1>1, <2>1, <3>1, <3>2 DEF Pairs
    <3> HIDE DEF p0
    <3>4. QED
      BY <1>1, <3>1, <3>2, <3>3, EndedState
  <2> HIDE DEF p0
  <2>3. Books(p0.c)
    BY <2>2 DEF Sound, Books, SameCalls, SameTexts, InText
  <2>4. Runs(m, p0, u, t)
    <3>1. \A b : SameBlocks(p.c, b) => SameBlocks(p0.c, b)
      BY <2>2, BlocksStay DEF SameCalls
    <3>2. Tally(p.c, u, t) => Tally(p0.c, u, t)
      BY <2>2 DEF Tally, SameCounts
    <3>3. QED
      BY <2>2, <3>1, <3>2 DEF Sound, Runs
  <2>5. QED
    BY <2>2, <2>3, <2>4 DEF Sound, SameTexts, Grown
<1> HIDE DEF p0
<1>3. Sound(TRUE, m, p1, u, t) /\ Onward(p0.c, p1.c) /\ ~InText(p1.c)
  BY <1>2, CloseTextsSound
<1>4. q = Emit(Emit(CloseOpenBlocks(p0), e), f)
  BY Zenon DEF EndMessage, p0
<1>5. /\ p1 \in Pairs /\ p1.c \in Conv /\ p1.out \in Seq(StreamEvent)
      /\ Books(p1.c) /\ p1.c.message_started /\ p1.c.message_ended
      /\ Runs(m, p1, u, t) /\ Bounded(p1.out, i) /\ i \in Nat /\ Grown(p1.c)
  BY <1>2, <1>3, PairOf DEF Sound, Onward, SameMessage, Conv
<1>6. CloseOpenBlocks(p0) = [c |-> p1.c, out |-> es]
  BY <1>5, CloseOpenEffect
<1> HIDE DEF p1
<1>7. es \in Seq(StreamEvent) /\ NoResult(es) /\ Bounded(es, i)
  BY <1>5, StopsFurther DEF Runs
<1>8. \E a : /\ Leads(m, es, ClientWith("open", a))
            /\ LeftOpen(p1.c, a) /\ OnlyCallsOpen(a)
  <2>1. PICK b : Leads(m, p1.out, ClientWith("open", b)) /\ SameBlocks(p1.c, b)
    BY <1>5 DEF Runs
  <2>2. PICK a : /\ Leads(ClientWith("open", b), Stops(p1.c), ClientWith("open", a))
                 /\ LeftOpen(p1.c, a) /\ OnlyCallsOpen(a)
    BY <1>3, <1>5, <2>1, StopsLead
  <2>3. Stops(p1.c) \in Seq(StreamEvent)
    <3>1. \A j \in DOMAIN p1.c.tool_block_order :
             p1.c.tool_block_order[j] \in DOMAIN p1.c.tool_blocks
      BY <1>5 DEF Books
    <3>2. QED
      BY <1>5, <3>1, StopsAre
  <2>4. Leads(m, es, ClientWith("open", a))
    BY <1>5, <2>1, <2>2, <2>3, LeadsOn
  <2>5. QED
    BY <2>2, <2>4
<1> HIDE DEF es
<1>9. /\ e \in StreamEvent /\ f \in StreamEvent
      /\ e.type = "message_delta" /\ f.type = "message_stop"
      /\ p.c.output_tokens \in Nat
  BY <1>1, StopReasonIs DEF Result, Event, StreamEvent, Conv
<1>10. p.c.output_tokens = IF u = None THEN t ELSE u
  BY DEF Sound, Runs, Tally
<1>11. q \in Pairs /\ q.c = p1.c /\ q.out = Append(Append(es, e), f)
  <2>1. q = Emit(Emit([c |-> p1.c, out |-> es], e), f)
    BY <1>4, <1>6
  <2> HIDE DEF f, e
  <2>2. /\ p1.c \in Conv /\ es \in Seq(StreamEvent)
        /\ e \in StreamEvent /\ f \in StreamEvent
    BY <1>5, <1>7, <1>9
  <2>3. LET r == Emit(Emit([c |-> p1.c, out |-> es], e), f)
        IN  r \in Pairs /\ r.c = p1.c /\ r.out = Append(Append(es, e), f)
    BY <2>2, EmitTwiceEffect
  <2>4. QED
    BY <2>1, <2>3
<1>12. Bounded(q.out, i) /\ Reports(q.out, u, t, reason) /\ EndsWell(q.out)
  <2> DEFINE k == p.c.output_tokens
  <2>1. q.out = Append(Append(es, Result(reason, k)), Event("message_stop"))
    BY <1>11
  <2>2. k \in Nat /\ k = (IF u = None THEN t ELSE u) /\ i \in Nat
    BY <1>5, <1>9, <1>10
  <2> HIDE DEF k, i, e, f
  <2>3. QED
    BY <1>7, <2>1, <2>2, ResultFurther
<1>13. \E a : Leads(m, q.out, ClientWith("stopped", a)) /\ LeftOpen(p1.c, a)
  <2>1. PICK a : /\ Leads(m, es, ClientWith("open", a))
                 /\ LeftOpen(p1.c, a) /\ OnlyCallsOpen(a)
    BY <1>8
  <2> HIDE DEF e, f
  <2>2. /\ Expected(ClientWith("open", a), e)
        /\ After(ClientWith("open", a), e) = ClientWith("ending", a)
    BY <1>9, <2>1 DEF Expected, After, ClientWith
  <2>3. Reads(ClientWith("open", a), e, ClientWith("ending", a))
    BY <2>2 DEF Reads, ClientWith
  <2>4. Leads(m, Append(es, e), ClientWith("ending", a))
    BY <1>7, <1>9, <2>1, <2>3, LeadsFurther
  <2>5. /\ Expected(ClientWith("ending", a), f)
        /\ After(ClientWith("ending", a), f) = ClientWith("stopped", a)
    BY <1>9 DEF Expected, After, ClientWith
  <2>6. Reads(ClientWith("ending", a), f, ClientWith("stopped", a))
    BY <2>5 DEF Reads, ClientWith
  <2>7. Append(es, e) \in Seq(StreamEvent)
    BY <1>7, <1>9
  <2>8. Leads(m, Append(Append(es, e), f), ClientWith("stopped", a))
    BY <1>9, <2>4, <2>6, <2>7, LeadsFurther
  <2>9. QED
    BY <1>11, <2>1, <2>8
<1>14. QED
  BY <1>5, <1>11, <1>12, <1>13 DEF Whole, Final, Agree, ClientWith

\* The message is live as long as the converter has not ended it.
LEMMA FinishSound ==
    ASSUME NEW m, NEW u \in Nat \cup {None}, NEW t \in Nat, NEW p,
           Sound(~p.c.message_ended, m, p, u, t),
           p.c.message_ended => m.phase = "stopped",
           NEW line, NEW q, q = Finish(p, line)
    PROVE  /\ Whole(m, q)
           /\ ~p.c.message_ended => Final(q, u, t, line.finish)
           /\ ~p.c.message_ended => (q.c.message_ended <=> line.finish # None)
<1>1. /\ p \in Pairs /\ p.c \in Conv /\ p.out \in Seq(StreamEvent)
      /\ Books(p.c) /\ p.c.message_started
      /\ Bounded(p.out, p.c.content_block_index) /\ Grown(p.c)
  BY PairOf DEF Sound
<1>2. CASE p.c.message_ended
  <2>1. q = p
    BY <1>2 DEF Finish, EndMessage
  <2>2. Leads(m, p.out, m) /\ Agree(p.c, m)
    BY <1>1, <1>2, LeadsStopped DEF Agree
  <2>3. QED
    BY <1>1, <1>2, <2>1, <2>2 DEF Whole
<1>3. CASE ~p.c.message_ended /\ line.finish = None
  <2>1. q = p
    BY <1>3 DEF Finish
  <2>2. Runs(m, p, u, t)
    BY <1>3 DEF Sound
  <2>3. \E n : Leads(m, p.out, n) /\ Agree(p.c, n)
    BY <1>1, <1>3, <2>2 DEF Runs, Agree
  <2>4. QED
    BY <1>1, <1>3, <2>1, <2>2, <2>3 DEF Whole, Final, Runs
<1>4. CASE ~p.c.message_ended /\ line.finish # None
  <2>1. q = EndMessage(p, line.finish)
    BY <1>4, Zenon DEF Finish
  <2>2. Sound(TRUE, m, p, u, t)
    BY <1>4 DEF Sound
  <2>3. QED
    BY <1>4, <2>1, <2>2, EndSound
<1>5. QED
  BY <1>2, <1>3, <1>4

\* A line of the upstream, as the stream has it and the history hears it.
IsLine(line) ==
    /\ line.call \in dialect \cup {None, Empty}
    /\ line.usage \in Nat \cup {None}
    /\ line.finish \in Reasons \cup {None}

Usage(line, u) == IF line.usage = None THEN u ELSE line.usage

TextsOf(line, t) ==
    t + (IF line.reasoning THEN 1 ELSE 0) + (IF line.content THEN 1 ELSE 0)

\* Between two lines, a client that has read all the events is in state m.
Between(m, u, t) ==
    /\ dialect \in Dialects /\ conv \in Conv /\ Books(conv)
    /\ Agree(conv, m)
    /\ ~conv.message_ended => Tally(conv, u, t)

LEMMA LineSound ==
    ASSUME NEW m, NEW u \in Nat \cup {None}, NEW t \in Nat, Between(m, u, t),
           NEW line, IsLine(line),
           NEW r \in Processed(Now, line)
    PROVE  /\ Whole(m, r)
           /\ ~conv.message_ended =>
                 /\ Final(r, Usage(line, u), TextsOf(line, t), line.finish)
                 /\ r.c.message_ended <=> line.finish # None
           /\ conv.message_ended => r.c.message_ended
<1> DEFINE live == ~conv.message_ended
           p == StartMessage(Now)
           q == Count(p, line.usage)
           s == Texts(q, line)
           v == Usage(line, u)
           w == TextsOf(line, t)
<1>1. /\ Now \in Pairs /\ Now.c = conv /\ Now.out = << >>
      /\ conv.message_ended \in BOOLEAN /\ Grown(conv)
  <2>1. << >> \in Seq(StreamEvent) /\ conv \in Conv
    BY DEF Between
  <2>2. QED
    BY <2>1 DEF Now, Pairs, Conv, Grown
<1>2. /\ Sound(live, m, p, u, t) /\ SameCalls(conv, p.c)
      /\ p.c.message_ended = conv.message_ended
  BY <1>1, StartSound DEF Between
<1> HIDE DEF p
<1>3. Sound(live, m, q, v, t) /\ Onward(p.c, q.c) /\ v \in Nat \cup {None}
  <2> DEFINE x == line.usage
  <2>1. x \in Nat \cup {None}
    BY DEF IsLine
  <2>2. Sound(live, m, Count(p, x), IF x = None THEN u ELSE x, t)
        /\ Onward(p.c, Count(p, x).c)
    <3> HIDE DEF x
    <3>1. QED
      BY <1>2, <2>1, CountSound
  <2>3. v = IF x = None THEN u ELSE x
    BY DEF Usage
  <2>4. QED
    BY <2>1, <2>2, <2>3
<1> HIDE DEF q, v
<1>4. /\ Sound(live, m, s, v, w) /\ Onward(q.c, s.c) /\ w \in Nat
      /\ line.call # None => ~InText(s.c)
  BY <1>3, TextsSound DEF TextsOf
<1> HIDE DEF s, w
<1>5. /\ SameCalls(conv, s.c) /\ s.c.message_ended = conv.message_ended
      /\ s.c \in Conv
  BY <1>2, <1>3, <1>4, PairOf DEF Onward, SameCalls, SameMessage, Sound
<1>6. conv.message_ended => m.phase = "stopped"
  BY DEF Between, Agree
<1>7. ASSUME NEW z, Sound(live, m, z, v, w), z.c.message_ended = s.c.message_ended,
             r = Finish(z, line)
      PROVE  /\ Whole(m, r)
             /\ ~conv.message_ended =>
                   Final(r, v, w, line.finish) /\ (r.c.message_ended <=> line.finish # None)
             /\ conv.message_ended => r.c.message_ended
  <2>1. z.c.message_ended = conv.message_ended
    BY <1>5, <1>7
  <2>2. Sound(~z.c.message_ended, m, z, v, w)
    BY <1>7, <2>1
  <2>3. conv.message_ended => r = z
    BY <1>7, <2>1 DEF Finish, EndMessage
  <2>4. /\ Whole(m, r)
        /\ ~z.c.message_ended => Final(r, v, w, line.finish)
        /\ ~z.c.message_ended => (r.c.message_ended <=> line.finish # None)
    BY <1>3, <1>4, <1>6, <1>7, <2>1, <2>2, FinishSound
  <2>5. QED
    BY <2>1, <2>3, <2>4
<1>8. r \in IF line.call \in {None, Empty} THEN {Finish(s, line)}
            ELSE {Finish(Call(s, line.call, x), line) : x \in Slots(s.c, line.call)}
  BY Zenon DEF Processed, p, q, s
<1>9. CASE line.call \in {None, Empty}
  <2>1. r = Finish(s, line)
    BY <1>8, <1>9
  <2>2. QED
    BY <1>4, <1>7, <2>1 DEF v, w
<1>10. CASE line.call \notin {None, Empty}
  <2>1. PICK x \in Slots(s.c, line.call) : r = Finish(Call(s, line.call, x), line)
    BY <1>8, <1>10
  <2> DEFINE z == Call(s, line.call, x)
             f == line.call
  <2>2. dialect \in Dialects /\ f \in dialect /\ ~InText(s.c)
    BY <1>4, <1>10 DEF Between, IsLine
  <2> HIDE DEF f
  <2>3. Sound(live, m, z, v, w) /\ z.c.message_ended = s.c.message_ended
    BY <1>4, <2>1, <2>2, CallSound DEF f
  <2> HIDE DEF z
  <2>4. QED
    BY <1>7, <2>1, <2>3 DEF v, w, z
<1>11. QED
  BY <1>9, <1>10

\* The stream is closed after the events of p, which say nothing new.
LEMMA CloseStreamSound ==
    ASSUME NEW m, NEW u \in Nat \cup {None}, NEW t \in Nat, Between(m, u, t),
           NEW p \in Pairs, p.c = conv, Leads(m, p.out, m), NoResult(p.out),
           Bounded(p.out, conv.content_block_index),
           NEW q, q = CloseStream(p) \/ q = p
    PROVE  /\ Whole(m, q)
           /\ ~conv.message_ended => Final(q, u, t, None)
           /\ conv.message_ended => q.c.message_ended
<1>1. p.out \in Seq(StreamEvent) /\ conv \in Conv /\ Books(conv) /\ Grown(conv)
  BY PairOf DEF Between, Grown, Conv
<1>2. CASE q = p
  BY <1>1, <1>2 DEF Whole, Final, Between, Agree
<1>3. CASE q # p
  <2>1. q = EndMessage(p, "stop") /\ conv.message_started
    BY <1>3 DEF CloseStream
  <2>2. ~conv.message_ended
    BY <1>3, <2>1 DEF EndMessage
  <2>3. Runs(m, p, u, t)
    BY <2>1, <2>2 DEF Between, Agree, Runs
  <2>4. Sound(TRUE, m, p, u, t)
    BY <1>1, <2>1, <2>3 DEF Sound
  <2>5. Whole(m, q) /\ Final(q, u, t, "stop") /\ q.c.message_ended
    BY <2>1, <2>2, <2>4, EndSound
  <2>6. Final(q, u, t, None)
    BY <2>5, StopReasonIs DEF Final, Reports
  <2>7. QED
    BY <2>2, <2>5, <2>6
<1>4. QED
  BY <1>2, <1>3

\* An error, or nothing, says nothing new.
LEMMA ErrorSound ==
    ASSUME NEW m, NEW u, NEW t, Between(m, u, t),
           NEW p, p = Now \/ p = Emit(Now, Event("error"))
    PROVE  /\ p \in Pairs /\ p.c = conv /\ Leads(m, p.out, m) /\ NoResult(p.out)
           /\ Bounded(p.out, conv.content_block_index)
<1>1. /\ Now = [c |-> conv, out |-> << >>] /\ << >> \in Seq(StreamEvent)
      /\ conv \in Conv
  BY DEF Now, Between
<1>2. CASE p = Now
  BY <1>1, <1>2, LeadsNowhere DEF Pairs, NoResult, Bounded
<1>3. CASE p = Emit(Now, Event("error"))
  <2> DEFINE e == Event("error")
  <2>1. e \in StreamEvent /\ e.type = "error"
    BY EventsAre DEF Event
  <2> HIDE DEF e
  <2>2. p = Emit([c |-> conv, out |-> << >>], e)
    BY <1>1, <1>3 DEF e
  <2>3. ASSUME NEW es \in Seq(StreamEvent), p = Emit([c |-> conv, out |-> es], e)
        PROVE  p \in Pairs /\ p.c = conv /\ p.out = Append(es, e)
    BY <1>1, <2>1, <2>3, EmitEffect
  <2>4. p \in Pairs /\ p.c = conv /\ p.out = << e >>
    <3>1. p \in Pairs /\ p.c = conv /\ p.out = Append(<< >>, e)
      BY <1>1, <2>2, <2>3
    <3>2. QED
      BY <3>1
  <2>5. Reads(m, e, m)
    BY <2>1 DEF Reads, Expected, After
  <2>6. Leads(m, p.out, m)
    BY <2>4, <2>5, LeadsByOne
  <2>7. NoResult(p.out) /\ Bounded(p.out, conv.content_block_index)
    BY <2>1, <2>4 DEF NoResult, Bounded
  <2>8. QED
    BY <2>4, <2>6, <2>7
<1>4. QED
  BY <1>2, <1>3

-----------------------------------------------------------------------------
(* The invariant *)

\* The client has blocks of the indices given out so far.
ClientFits ==
    /\ phase \in {"new", "open", "ending", "stopped"}
    /\ blocks \in [DOMAIN blocks -> Message!Block]
    /\ DOMAIN blocks \subseteq 0..conv.content_block_index

\* A client that reads what is left agrees with the converter.
Ahead ==
    \E m : /\ Leads(Client, events, m) /\ Between(m, heard.usage, heard.texts)
           /\ phase # "stopped" /\ conv.message_ended => LeftOpen(conv, m.blocks)

\* The client has yet to read how the message ends.
ToBeEnded ==
    IF phase = "ending" THEN Len(events) = 1 /\ events[1].type = "message_stop"
                        ELSE EndsWell(events)

\* The message ends with what was heard.
HeardRight ==
    IF conv.message_ended
    THEN phase # "stopped" =>
            /\ Reports(events, heard.usage, heard.texts, heard.finish)
            /\ ToBeEnded
    ELSE NoResult(events) /\ heard.finish = None /\ phase # "ending"

IInv ==
    /\ lines \in 0..MaxLines
    /\ upstream \in {"streaming", "finished", "closed"}
    /\ heard \in [usage: Nat \cup {None}, texts: Nat, finish: Reasons \cup {None}]
    /\ events \in Seq(StreamEvent)
    /\ Bounded(events, conv.content_block_index)
    /\ ClientFits
    /\ Ahead
    /\ HeardRight

LEMMA ReadsNothing ==
    ASSUME NEW m, NEW n, Leads(m, << >>, n)
    PROVE  n = m
BY DEF Leads

LEMMA InitSound == Init => IInv
<1> SUFFICES ASSUME Init PROVE IInv
  OBVIOUS
<1>1. /\ conv = New /\ events = << >> /\ dialect \in Dialects /\ lines = 0
      /\ upstream = "streaming" /\ phase = "new" /\ blocks = << >>
      /\ heard = [usage |-> None, texts |-> 0, finish |-> None]
  BY DEF Init, Message!Init
<1>2. /\ conv.message_started = FALSE /\ conv.message_ended = FALSE
      /\ conv.content_block_index = 0 /\ conv.text = FALSE /\ conv.thinking = FALSE
      /\ conv.tool_blocks = << >> /\ conv.tool_block_order = << >>
      /\ conv.next_tool_slot = 0 /\ conv.last_tool_slot = None
      /\ conv.output_tokens = 0 /\ conv.output_tokens_from_upstream = FALSE
  BY <1>1 DEF New
<1>3. DOMAIN << >> = {} /\ \A S : << >> \in [{} -> S] /\ << >> \in Seq(S)
  OBVIOUS
<1>4. conv \in Conv
  <2>1. << >> \in CallMaps
    BY <1>3 DEF CallMaps
  <2>2. QED
    BY <1>1, <1>3, <2>1 DEF New, Conv
<1>5. Books(conv)
  BY <1>2, <1>3 DEF Books, InText
<1>6. SameBlocks(conv, blocks)
  <2>1. 0..(0 - 1) = {}
    OBVIOUS
  <2>2. QED
    BY <1>1, <1>2, <1>3, <2>1 DEF SameBlocks, InText
<1>7. Between(Client, heard.usage, heard.texts)
  <2>1. Agree(conv, Client)
    BY <1>1, <1>2, <1>6 DEF Agree, Client
  <2>2. Tally(conv, heard.usage, heard.texts)
    BY <1>1, <1>2 DEF Tally
  <2>3. QED
    BY <1>1, <1>4, <1>5, <2>1, <2>2 DEF Between
<1>8. Ahead
  BY <1>1, <1>2, <1>7, LeadsNowhere DEF Ahead
<1>9. HeardRight
  BY <1>1, <1>2 DEF HeardRight, NoResult
<1>10. ClientFits
  BY <1>1, <1>3 DEF ClientFits
<1>11. Bounded(events, conv.content_block_index) /\ events \in Seq(StreamEvent)
  BY <1>1 DEF Bounded
<1>12. lines \in 0..MaxLines /\ upstream \in {"streaming", "finished", "closed"}
  BY <1>1, ConverterAssumption
<1>13. QED
  BY <1>1, <1>8, <1>9, <1>10, <1>11, <1>12 DEF IInv

\* When the client has read all the events, it agrees with the converter.
LEMMA AskedSound ==
    ASSUME IInv, events = << >>
    PROVE  /\ Between(Client, heard.usage, heard.texts)
           /\ heard.usage \in Nat \cup {None} /\ heard.texts \in Nat
           /\ conv.message_ended => phase = "stopped"
           /\ ~conv.message_ended => heard.finish = None /\ phase # "ending"
<1>1. PICK m : Leads(Client, << >>, m) /\ Between(m, heard.usage, heard.texts)
  BY DEF IInv, Ahead
<1>2. m = Client
  BY <1>1, ReadsNothing
<1>3. conv.message_ended => phase = "stopped"
  BY <1>1, <1>2 DEF Between, Agree, Client, ClientWith
<1>4. QED
  BY <1>1, <1>2, <1>3 DEF IInv, HeardRight

\* The converter answers.
LEMMA AnswerSound ==
    ASSUME IInv, events = << >>, NEW r, Whole(Client, r),
           conv' = r.c, events' = r.out, UNCHANGED <<dialect, client>>,
           lines' \in 0..MaxLines, upstream' \in {"streaming", "finished", "closed"},
           heard' \in [usage: Nat \cup {None}, texts: Nat, finish: Reasons \cup {None}],
           ~conv.message_ended =>
              /\ Final(r, heard'.usage, heard'.texts, heard'.finish)
              /\ r.c.message_ended \/ heard'.finish = None,
           conv.message_ended => r.c.message_ended
    PROVE  IInv'
<1>1. /\ r \in Pairs /\ Books(r.c) /\ Grown(r.c)
      /\ Bounded(r.out, r.c.content_block_index)
      /\ r.c \in Conv /\ r.out \in Seq(StreamEvent)
  BY PairOf DEF Whole
<1>2. phase' = phase /\ blocks' = blocks /\ dialect' = dialect
  BY DEF client
<1>3. dialect \in Dialects /\ (conv.message_ended => phase = "stopped")
      /\ conv.content_block_index \in Nat /\ r.c.content_block_index \in Nat
  BY <1>1, AskedSound DEF Between, Conv
<1>4. events' \in Seq(StreamEvent) /\ Bounded(events', conv'.content_block_index)
  BY <1>1
<1>5. ClientFits'
  <2>1. 0..conv.content_block_index \subseteq 0..r.c.content_block_index
    BY <1>1, <1>3 DEF Grown
  <2>2. QED
    BY <1>2, <2>1 DEF IInv, ClientFits
<1>6. Ahead'
  <2>1. PICK n : /\ Leads(Client, r.out, n) /\ Agree(r.c, n)
                 /\ Client.phase # "stopped" /\ r.c.message_ended =>
                       LeftOpen(r.c, n.blocks)
    BY DEF Whole
  <2>2. Client' = Client /\ Client.phase = phase
    BY <1>2 DEF Client, ClientWith
  <2>3. ~r.c.message_ended => Tally(r.c, heard'.usage, heard'.texts)
    BY DEF Final
  <2>4. Between(n, heard.usage, heard.texts)'
    BY <1>1, <1>2, <1>3, <2>1, <2>3 DEF Between
  <2>5. QED
    BY <1>2, <2>1, <2>2, <2>4 DEF Ahead
<1>7. HeardRight'
  <2>1. ~conv.message_ended => phase # "ending"
    BY AskedSound
  <2>2. QED
    BY <1>2, <1>3, <2>1 DEF HeardRight, Final, ToBeEnded
<1>8. QED
  BY <1>4, <1>5, <1>6, <1>7 DEF IInv

LEMMA DataSound == IInv /\ Data => IInv'
<1> SUFFICES ASSUME IInv, Data PROVE IInv'
  OBVIOUS
<1>1. /\ events = << >> /\ lines < MaxLines /\ lines' = lines + 1
      /\ UNCHANGED <<dialect, client>>
  BY DEF Data, Asked
<1>2. PICK line \in Line(dialect) :
         /\ \E p \in Processed(Now, line) :
               Becomes(p) /\ written' = Write(p, line.call)
         /\ upstream' = IF line.finish # None THEN "finished" ELSE upstream
         /\ heard' = Hear(line)
  BY DEF Data
<1>3. PICK r \in Processed(Now, line) : conv' = r.c /\ events' = r.out
  BY <1>2 DEF Becomes
<1> DEFINE u == heard.usage
           t == heard.texts
<1>4. /\ Between(Client, u, t) /\ u \in Nat \cup {None} /\ t \in Nat
      /\ ~conv.message_ended => heard.finish = None
  BY <1>1, AskedSound
<1>5. lines \in Nat /\ MaxLines \in Nat /\ lines' \in 0..MaxLines
  BY <1>1, ConverterAssumption DEF IInv
<1>6. IsLine(line)
  <2>1. line \in [reasoning: BOOLEAN, content: BOOLEAN, call: dialect \cup {None, Empty},
                  finish: Reasons \cup {None}, usage: {None}]
        \/ line \in [reasoning: {FALSE}, content: BOOLEAN, call: {None},
                     finish: Reasons \cup {None}, usage: {10 + lines}]
    BY DEF Line
  <2>2. 10 + lines \in Nat
    BY <1>5
  <2>3. QED
    BY <2>1, <2>2 DEF IsLine
<1>7. /\ Whole(Client, r)
      /\ ~conv.message_ended =>
            /\ Final(r, Usage(line, u), TextsOf(line, t), line.finish)
            /\ r.c.message_ended <=> line.finish # None
      /\ conv.message_ended => r.c.message_ended
  <2> HIDE DEF u, t
  <2>1. QED
    BY <1>2, <1>3, <1>4, <1>6, LineSound
<1>8. CASE conv.message_ended
  <2>1. heard' = heard
    BY <1>2, <1>8 DEF Hear
  <2>2. heard' \in [usage: Nat \cup {None}, texts: Nat, finish: Reasons \cup {None}]
    BY <2>1 DEF IInv
  <2>3. upstream' \in {"streaming", "finished", "closed"}
    BY <1>2 DEF IInv
  <2>4. QED
    BY <1>1, <1>3, <1>5, <1>7, <1>8, <2>2, <2>3, AnswerSound
<1>9. CASE ~conv.message_ended
  <2>1. heard' = [usage |-> Usage(line, u), texts |-> TextsOf(line, t),
                  finish |-> line.finish]
    BY <1>2, <1>9 DEF Hear, Usage, TextsOf
  <2>2. Usage(line, u) \in Nat \cup {None} /\ TextsOf(line, t) \in Nat
        /\ line.finish \in Reasons \cup {None}
    BY <1>4, <1>6 DEF Usage, TextsOf, IsLine
  <2>3. heard' \in [usage: Nat \cup {None}, texts: Nat, finish: Reasons \cup {None}]
    BY <2>1, <2>2
  <2>4. upstream' \in {"streaming", "finished", "closed"}
    BY <1>2 DEF IInv
  <2>5. /\ heard'.usage = Usage(line, u) /\ heard'.texts = TextsOf(line, t)
        /\ heard'.finish = line.finish
    BY <2>1
  <2>6. /\ Final(r, heard'.usage, heard'.texts, heard'.finish)
        /\ r.c.message_ended \/ heard'.finish = None
    BY <1>7, <1>9, <2>5
  <2>7. QED
    BY <1>1, <1>3, <1>5, <1>7, <1>9, <2>3, <2>4, <2>6, AnswerSound
<1>10. QED
  BY <1>8, <1>9

\* The stream says nothing new, and is closed or not.
LEMMA CloseSoundly ==
    ASSUME IInv, events = << >>, NEW p, p = Now \/ p = Emit(Now, Event("error")),
           NEW q, q = CloseStream(p) \/ q = p,
           conv' = q.c, events' = q.out, UNCHANGED <<dialect, client, heard>>,
           lines < MaxLines, lines' = lines + 1,
           upstream' \in {"streaming", "finished", "closed"}
    PROVE  IInv'
<1> DEFINE u == heard.usage
           t == heard.texts
<1>1. /\ Between(Client, u, t) /\ u \in Nat \cup {None} /\ t \in Nat
      /\ ~conv.message_ended => heard.finish = None
  BY AskedSound
<1>2. lines' \in 0..MaxLines
  BY ConverterAssumption DEF IInv
<1>3. heard' = heard /\ UNCHANGED <<dialect, client>>
  OBVIOUS
<1>4. heard' \in [usage: Nat \cup {None}, texts: Nat, finish: Reasons \cup {None}]
  BY <1>3 DEF IInv
<1>5. /\ Whole(Client, q)
      /\ ~conv.message_ended => Final(q, u, t, None)
      /\ conv.message_ended => q.c.message_ended
  <2> HIDE DEF u, t
  <2>1. /\ p \in Pairs /\ p.c = conv /\ Leads(Client, p.out, Client) /\ NoResult(p.out)
        /\ Bounded(p.out, conv.content_block_index)
    BY <1>1, ErrorSound
  <2>2. QED
    BY <1>1, <2>1, CloseStreamSound
<1>6. ~conv.message_ended =>
         /\ Final(q, heard'.usage, heard'.texts, heard'.finish)
         /\ q.c.message_ended \/ heard'.finish = None
  BY <1>1, <1>3, <1>5
<1>7. QED
  BY <1>2, <1>3, <1>4, <1>5, <1>6, AnswerSound

\* What the client does with an event that it expects.
LEMMA ClientReads ==
    ASSUME IInv, Deliver
    PROVE  \E m : /\ Reads(Client, Head(events), Client')
                  /\ Leads(Client', Tail(events), m)
                  /\ Between(m, heard.usage, heard.texts)
                  /\ phase # "stopped" /\ conv.message_ended =>
                        LeftOpen(conv, m.blocks)
<1> DEFINE e == Head(events)
<1>1. events \in Seq(StreamEvent) /\ events # << >>
  BY DEF IInv, Deliver
<1>2. PICK m : /\ Leads(Client, events, m) /\ Between(m, heard.usage, heard.texts)
               /\ phase # "stopped" /\ conv.message_ended => LeftOpen(conv, m.blocks)
  BY DEF IInv, Ahead
<1>3. PICK k : Reads(Client, e, k) /\ Leads(k, Tail(events), m)
  BY <1>1, <1>2, LeadsAway
<1>4. k = Client'
  <2>1. IF phase = "stopped" THEN UNCHANGED client ELSE Understood(e)
    BY DEF Deliver
  <2>2. Client = ClientWith(phase, blocks) /\ Client' = ClientWith(phase', blocks')
    BY DEF Client
  <2> HIDE DEF e
  <2>3. CASE phase = "stopped"
    BY <1>3, <2>1, <2>2, <2>3 DEF Reads, ClientWith, client
  <2>4. CASE phase # "stopped"
    <3>1. k = After(Client, e) /\ Understood(e)
      BY <1>3, <2>1, <2>2, <2>4 DEF Reads, ClientWith
    <3>2. Client.phase = phase /\ Client.blocks = blocks
      BY <2>2 DEF ClientWith
    <3>3. CASE e.type = "message_start"
      <4>1. k = ClientWith("open", blocks) /\ phase' = "open" /\ blocks' = blocks
        BY <3>1, <3>2, <3>3 DEF After, Understood
      <4>2. QED
        BY <2>2, <4>1
    <3>4. CASE e.type = "message_delta"
      <4>1. k = ClientWith("ending", blocks) /\ phase' = "ending" /\ blocks' = blocks
        BY <3>1, <3>2, <3>4 DEF After, Understood
      <4>2. QED
        BY <2>2, <4>1
    <3>5. CASE e.type = "message_stop"
      <4>1. k = ClientWith("stopped", blocks) /\ phase' = "stopped" /\ blocks' = blocks
        BY <3>1, <3>2, <3>5 DEF After, Understood
      <4>2. QED
        BY <2>2, <4>1
    <3>6. CASE e.type = "start"
      <4>1. /\ k = ClientWith(phase, WithBlock(blocks, e, TRUE))
            /\ blocks' = WithBlock(blocks, e, TRUE) /\ phase' = phase
        BY <3>1, <3>2, <3>6, Zenon DEF After, Understood, WithBlock
      <4>2. QED
        BY <2>2, <4>1
    <3>7. CASE e.type = "stop"
      <4>1. /\ k = ClientWith(phase, WithBlock(blocks, e, FALSE))
            /\ blocks' = WithBlock(blocks, e, FALSE) /\ phase' = phase
        BY <3>1, <3>2, <3>7, Zenon DEF After, Understood, WithBlock
      <4>2. QED
        BY <2>2, <4>1
    <3>8. CASE e.type \notin {"message_start", "message_delta", "message_stop",
                              "start", "stop"}
      <4>1. k = Client /\ phase' = phase /\ blocks' = blocks
        BY <3>1, <3>8, Zenon DEF After, Understood
      <4>2. QED
        BY <2>2, <4>1
    <3>9. QED
      BY <3>3, <3>4, <3>5, <3>6, <3>7, <3>8
  <2>5. QED
    BY <2>3, <2>4
<1>5. QED
  BY <1>2, <1>3, <1>4

\* The blocks of a client that reads an event about one.
LEMMA WithBlockFits ==
    ASSUME ClientFits, conv.content_block_index \in Nat,
           NEW e \in StreamEvent, e.type \in {"start", "stop", "delta"},
           e.index <= conv.content_block_index, NEW open \in BOOLEAN,
           NEW b, b = WithBlock(blocks, e, open)
    PROVE  /\ b \in [DOMAIN b -> Message!Block]
           /\ DOMAIN b \subseteq 0..conv.content_block_index
<1>1. e.kind \in Kinds /\ e.index \in Nat
  BY DEF StreamEvent
<1>2. [kind |-> e.kind, open |-> open] \in Message!Block
  BY <1>1 DEF Message!Block
<1>3. e.index \in 0..conv.content_block_index
  BY <1>1
<1> DEFINE z == [kind |-> e.kind, open |-> open]
<1>4. b = [i \in DOMAIN blocks \cup {e.index} |-> IF i = e.index THEN z ELSE blocks[i]]
  BY DEF WithBlock
<1>5. blocks \in [DOMAIN blocks -> Message!Block]
      /\ DOMAIN blocks \subseteq 0..conv.content_block_index
  BY DEF ClientFits
<1> HIDE DEF z
<1>6. DOMAIN b = DOMAIN blocks \cup {e.index}
  BY <1>4
<1>7. \A i \in DOMAIN b : b[i] \in Message!Block
  BY <1>2, <1>4, <1>5 DEF z
<1>8. b = [i \in DOMAIN b |-> b[i]]
  BY <1>4
<1>9. QED
  BY <1>3, <1>5, <1>6, <1>7, <1>8

\* The client comes to the end of the message by the last two events.
LEMMA EndingComes ==
    ASSUME IInv, Deliver
    PROVE  /\ NoResult(events) /\ phase # "ending" => phase' # "ending"
           /\ phase # "stopped" /\ phase' # "stopped" /\ ToBeEnded => ToBeEnded'
<1> DEFINE e == Head(events)
           n == Len(events)
<1>1. /\ events \in Seq(StreamEvent) /\ events # << >> /\ events' = Tail(events)
      /\ IF phase = "stopped" THEN UNCHANGED client ELSE Understood(e)
  BY DEF IInv, Deliver
<1>2. /\ n \in Nat \ {0} /\ Len(events') = n - 1
      /\ \A j \in 1..(n - 1) : events'[j] = events[j + 1] /\ j + 1 \in 1..n
      /\ e = events[1] /\ 1 \in 1..n
  BY <1>1
<1> HIDE DEF e, n
<1>3. /\ e.type = "message_delta" => phase' \in {"ending", phase}
      /\ e.type = "message_stop" => phase' \in {"stopped", phase}
      /\ e.type # "message_delta" => phase' # "ending" \/ phase = "ending"
  <2>1. CASE phase = "stopped"
    BY <1>1, <2>1 DEF client
  <2>2. CASE phase # "stopped" /\ e.type = "message_start"
    BY <1>1, <2>2 DEF Understood
  <2>3. CASE phase # "stopped" /\ e.type = "message_delta"
    BY <1>1, <2>3 DEF Understood
  <2>4. CASE phase # "stopped" /\ e.type = "message_stop"
    BY <1>1, <2>4 DEF Understood
  <2>5. CASE /\ phase # "stopped"
             /\ e.type \notin {"message_start", "message_delta", "message_stop"}
    <3>1. phase' = phase
      <4>1. CASE e.type = "start"
        BY <1>1, <2>5, <4>1, Zenon DEF Understood
      <4>2. CASE e.type = "stop"
        BY <1>1, <2>5, <4>2, Zenon DEF Understood
      <4>3. CASE e.type \notin {"message_start", "message_delta", "message_stop",
                                "start", "stop"}
        BY <1>1, <2>5, <4>3, Zenon DEF Understood
      <4>4. QED
        BY <2>5, <4>1, <4>2, <4>3
    <3>2. QED
      BY <2>5, <3>1
  <2>6. QED
    BY <2>1, <2>2, <2>3, <2>4, <2>5
<1>4. NoResult(events) /\ phase # "ending" => phase' # "ending"
  BY <1>2, <1>3 DEF NoResult, n
<1>5. ASSUME phase # "stopped", phase' # "stopped", ToBeEnded
      PROVE  ToBeEnded'
  <2>1. phase # "stopped" /\ Understood(e)
    BY <1>1, <1>5
  <2>2. phase # "ending"
    <3>1. CASE phase = "ending"
      <4>1. e.type = "message_stop"
        BY <1>2, <1>5, <3>1 DEF ToBeEnded
      <4>2. phase' = "stopped"
        BY <2>1, <4>1 DEF Understood
      <4>3. QED
        BY <1>5, <4>2
    <3>2. QED
      BY <3>1
  <2>3. /\ n >= 2 /\ events[n].type = "message_stop"
        /\ \A j \in 1..n : events[j].type = "message_delta" <=> j = n - 1
    BY <1>5, <2>2 DEF ToBeEnded, EndsWell, n
  <2>4. CASE e.type = "message_delta"
    <3>1. n = 2 /\ phase' = "ending"
      <4>1. 1 = n - 1
        BY <1>2, <2>3, <2>4
      <4>2. phase' = "ending"
        BY <2>1, <2>4 DEF Understood
      <4>3. QED
        BY <1>2, <4>1, <4>2
    <3>2. Len(events') = 1 /\ events'[1] = events[2]
      BY <1>2, <3>1
    <3>3. QED
      BY <2>3, <3>1, <3>2 DEF ToBeEnded
  <2>5. CASE e.type # "message_delta"
    <3>1. phase' # "ending" /\ 1 # n - 1
      BY <1>2, <1>3, <2>2, <2>3, <2>5
    <3>2. /\ n - 1 >= 2 /\ n - 1 \in 1..(n - 1) /\ (n - 1) + 1 = n
          /\ \A j \in 1..(n - 1) : j + 1 = n - 1 <=> j = (n - 1) - 1
      BY <1>2, <2>3, <3>1
    <3>3. events'[n - 1] = events[n]
      BY <1>2, <3>2
    <3>4. \A j \in 1..(n - 1) :
             events'[j].type = "message_delta" <=> j = (n - 1) - 1
      BY <1>2, <2>3, <3>2
    <3>5. EndsWell(events')
      BY <1>2, <2>3, <3>2, <3>3, <3>4 DEF EndsWell
    <3>6. QED
      BY <3>1, <3>5 DEF ToBeEnded
  <2>6. QED
    BY <2>4, <2>5
<1>6. QED
  BY <1>4, <1>5

LEMMA DeliverSound == IInv /\ Deliver => IInv'
<1> SUFFICES ASSUME IInv, Deliver PROVE IInv'
  OBVIOUS
<1> DEFINE e == Head(events)
           n == Len(events)
<1>1. /\ events \in Seq(StreamEvent) /\ events # << >> /\ events' = Tail(events)
      /\ UNCHANGED <<conv, dialect, lines, upstream, heard>>
      /\ IF phase = "stopped" THEN UNCHANGED client ELSE Understood(e)
  BY DEF IInv, Deliver
<1>2. /\ n \in Nat \ {0} /\ Len(Tail(events)) = n - 1
      /\ \A j \in 1..(n - 1) : Tail(events)[j] = events[j + 1] /\ j + 1 \in 1..n
      /\ e = events[1] /\ e \in StreamEvent /\ Tail(events) \in Seq(StreamEvent)
      /\ 1 \in 1..n
  BY <1>1
<1>3. PICK m : /\ Reads(Client, e, Client')
               /\ Leads(Client', Tail(events), m)
               /\ Between(m, heard.usage, heard.texts)
               /\ phase # "stopped" /\ conv.message_ended =>
                     LeftOpen(conv, m.blocks)
  BY ClientReads
<1>4. Bounded(events', conv'.content_block_index)
  <2> HIDE DEF n
  <2>1. \A j \in 1..(n - 1) :
           Tail(events)[j].type \in {"start", "stop", "delta"} =>
              Tail(events)[j].index <= conv.content_block_index
    BY <1>2 DEF IInv, Bounded, n
  <2>2. QED
    BY <1>1, <1>2, <2>1 DEF Bounded
<1>5. e.type \in {"start", "stop", "delta"} => e.index <= conv.content_block_index
  BY <1>2 DEF IInv, Bounded
<1>6. NoResult(events) => NoResult(events')
  BY <1>1, <1>2 DEF NoResult
<1>7. Reports(events, heard.usage, heard.texts, heard.finish) =>
         Reports(events', heard'.usage, heard'.texts, heard'.finish)
  BY <1>1, <1>2 DEF Reports
<1> HIDE DEF e, n
<1>8. phase # "stopped" => Understood(e) /\ e \in StreamEvent
  BY <1>1, <1>2
<1>9. ClientFits' /\ (phase = "stopped" => phase' = "stopped")
  <2>1. ClientFits /\ conv.content_block_index \in Nat /\ conv' = conv
    BY <1>1, <1>3 DEF IInv, Between, Conv
  <2>2. CASE phase = "stopped" \/ UNCHANGED client
    <3>1. UNCHANGED client
      BY <1>1, <2>2
    <3>2. QED
      BY <2>1, <3>1 DEF ClientFits, client
  <2>3. CASE phase # "stopped" /\ ~UNCHANGED client
    <3>1. Client' = After(Client, e) /\ Client.phase = phase /\ Client.blocks = blocks
          /\ Client'.phase = phase' /\ Client'.blocks = blocks'
      BY <1>3, <2>3 DEF Reads, Client, ClientWith
    <3>2. Understood(e) /\ e \in StreamEvent
      BY <1>8, <2>3
    <3>3. CASE e.type \in {"message_start", "message_delta", "message_stop"}
      <4>1. phase' \in {"open", "ending", "stopped"} /\ blocks' = blocks
        <5>1. CASE e.type = "message_start"
          BY <3>2, <5>1 DEF Understood
        <5>2. CASE e.type = "message_delta"
          BY <3>2, <5>2 DEF Understood
        <5>3. CASE e.type = "message_stop"
          BY <3>2, <5>3 DEF Understood
        <5>4. QED
          BY <3>3, <5>1, <5>2, <5>3
      <4>2. QED
        BY <2>1, <2>3, <4>1 DEF ClientFits
    <3>4. CASE e.type \in {"start", "stop"}
      <4>1. phase' = phase /\ \E open \in BOOLEAN : blocks' = WithBlock(blocks, e, open)
        <5>1. CASE e.type = "start"
          BY <3>2, <5>1, Zenon DEF Understood, WithBlock
        <5>2. CASE e.type = "stop"
          BY <3>2, <5>2, Zenon DEF Understood, WithBlock
        <5>3. QED
          BY <3>4, <5>1, <5>2
      <4>2. PICK open \in BOOLEAN : blocks' = WithBlock(blocks, e, open)
        BY <4>1
      <4>3. /\ blocks' \in [DOMAIN blocks' -> Message!Block]
            /\ DOMAIN blocks' \subseteq 0..conv.content_block_index
        BY <1>5, <2>1, <3>2, <3>4, <4>2, WithBlockFits
      <4>4. QED
        BY <2>1, <2>3, <4>1, <4>3 DEF ClientFits
    <3>5. CASE e.type \notin {"message_start", "message_delta", "message_stop",
                              "start", "stop"}
      <4>1. phase' = phase /\ blocks' = blocks
        BY <3>2, <3>5, Zenon DEF Understood
      <4>2. QED
        BY <2>3, <4>1 DEF client
    <3>6. QED
      BY <3>3, <3>4, <3>5
  <2>4. QED
    BY <2>2, <2>3
<1>10. Ahead'
  <2>1. Between(m, heard.usage, heard.texts)'
    BY <1>1, <1>3 DEF Between
  <2>2. Leads(Client', events', m)
    BY <1>1, <1>3
  <2>3. QED
    BY <1>1, <1>3, <1>9, <2>1, <2>2 DEF Ahead
<1>11. HeardRight'
  <2>1. CASE ~conv.message_ended
    <3>1. phase' # "ending"
      BY <2>1, EndingComes DEF IInv, HeardRight
    <3>2. QED
      BY <1>1, <1>6, <2>1, <3>1 DEF IInv, HeardRight
  <2>2. CASE conv.message_ended
    <3>1. phase' # "stopped" => ToBeEnded'
      BY <1>9, <2>2, EndingComes DEF IInv, HeardRight
    <3>2. QED
      BY <1>1, <1>7, <1>9, <2>2, <3>1 DEF IInv, HeardRight
  <2>3. QED
    BY <2>1, <2>2
<1>12. QED
  BY <1>1, <1>2, <1>4, <1>9, <1>10, <1>11 DEF IInv

LEMMA StepSound == IInv /\ [Next]_vars => IInv'
<1> SUFFICES ASSUME IInv, [Next]_vars PROVE IInv'
  OBVIOUS
<1>1. CASE Data
  BY <1>1, DataSound
<1>2. ASSUME Done \/ Overflow \/ Broken
      PROVE  IInv'
  <2>1. /\ events = << >> /\ lines < MaxLines /\ lines' = lines + 1
        /\ UNCHANGED <<dialect, client, heard>>
        /\ upstream' \in {"streaming", "finished", "closed"}
    BY <1>2 DEF Done, Overflow, Broken, Asked, IInv
  <2>2. PICK p, q : /\ p = Now \/ p = Emit(Now, Event("error"))
                    /\ q = CloseStream(p) \/ q = p
                    /\ conv' = q.c /\ events' = q.out
    BY <1>2, Zenon DEF Done, Overflow, Broken, Becomes
  <2>3. QED
    BY <2>1, <2>2, CloseSoundly
<1>3. ASSUME Close \/ UNCHANGED vars
      PROVE  IInv'
  <2>1. /\ UNCHANGED <<conv, events, dialect, lines, phase, blocks, heard>>
        /\ upstream' \in {"streaming", "finished", "closed"}
    BY <1>3 DEF Close, vars, client, IInv
  <2>2. Ahead'
    BY <2>1 DEF IInv, Ahead, Client, Between
  <2>3. ClientFits' /\ HeardRight'
    BY <2>1 DEF IInv, ClientFits, HeardRight, ToBeEnded
  <2>4. QED
    BY <2>1, <2>2, <2>3 DEF IInv
<1>4. CASE Deliver
  BY <1>4, DeliverSound
<1>5. QED
  BY <1>1, <1>2, <1>3, <1>4 DEF Next

\* The converter runs ahead of a client that will agree with it.
THEOREM Invariance == Spec => []IInv
BY InitSound, StepSound, PTL DEF Spec

\* Of the two text blocks at most one is open, and each event of a block is
\* for an index that has been given out.
THEOREM TypeCorrect == Spec => []TypeOK
<1>1. ASSUME IInv PROVE TypeOK
  <2>1. conv \in Conv /\ Books(conv) /\ dialect \in Dialects
    BY <1>1 DEF IInv, Ahead, Between
  <2>2. conv \in
         [message_started: BOOLEAN, message_ended: BOOLEAN,
          content_block_index: Nat, text: BOOLEAN, thinking: BOOLEAN,
          tool_blocks: {conv.tool_blocks}, tool_block_order: Seq(Nat),
          next_tool_slot: Nat, last_tool_slot: Nat \cup {None},
          output_tokens: Nat, output_tokens_from_upstream: BOOLEAN]
    BY <2>1 DEF Conv
  <2>3. conv.content_block_index \in Nat
    BY <2>2
  <2>4. \A i \in DOMAIN blocks :
           blocks[i] \in Message!Block /\ i <= conv.content_block_index
    BY <1>1, <2>3 DEF IInv, ClientFits
  <2>5. QED
    BY <1>1, <2>1, <2>2, <2>4 DEF TypeOK, Books, IInv, ClientFits
<1>2. QED
  BY <1>1, Invariance, PTL

\* The client expects each event that it reads.
LEMMA HeadExpected ==
    ASSUME IInv, events # << >>, phase # "stopped"
    PROVE  Expected(Client, Head(events)) /\ Head(events) \in StreamEvent
<1>1. events \in Seq(StreamEvent)
  BY DEF IInv
<1>2. PICK m : Leads(Client, events, m)
  BY DEF IInv, Ahead
<1>3. PICK k : Reads(Client, Head(events), k)
  BY <1>1, <1>2, LeadsAway
<1>4. QED
  BY <1>1, <1>3 DEF Reads, Client, ClientWith

\* Each piece of content goes to an open block of its kind.
THEOREM DeltasReachOpenBlocks == Spec => []DeltasFit
<1>1. ASSUME IInv PROVE DeltasFit
  <2> SUFFICES ASSUME events # << >>, phase # "stopped", Head(events).type = "delta"
               PROVE  /\ Head(events).index \in DOMAIN blocks
                      /\ blocks[Head(events).index]
                            = [kind |-> Head(events).kind, open |-> TRUE]
    BY DEF DeltasFit
  <2> DEFINE e == Head(events)
  <2>1. Expected(Client, e) /\ e.type = "delta"
    BY <1>1, HeadExpected
  <2>2. Client.blocks = blocks
    BY DEF Client, ClientWith
  <2> HIDE DEF e
  <2>3. Announced(blocks, e)
    BY <2>1, <2>2 DEF Expected
  <2>4. QED
    BY <2>3, Zenon DEF Announced, e
<1>2. QED
  BY <1>1, Invariance, PTL

\* The message ends with the last count of the upstream, or with that of the
\* texts, and with the upstream's reason.
THEOREM UsageIsReported == Spec => []UsageReported
<1>1. ASSUME IInv PROVE UsageReported
  <2> SUFFICES ASSUME events # << >>, phase # "stopped",
                      Head(events).type = "message_delta"
               PROVE  /\ Head(events).output_tokens =
                            IF heard.usage # None THEN heard.usage ELSE heard.texts
                      /\ Head(events).stop_reason = StopReason(heard.finish)
    BY DEF UsageReported
  <2>1. events \in Seq(StreamEvent) /\ HeardRight
    BY <1>1 DEF IInv
  <2>2. 1 \in 1..Len(events) /\ Head(events) = events[1]
    BY <2>1
  <2>3. Reports(events, heard.usage, heard.texts, heard.finish)
    BY <2>1, <2>2 DEF HeardRight, NoResult
  <2>4. QED
    BY <2>2, <2>3 DEF Reports
<1>2. QED
  BY <1>1, Invariance, PTL

\* A step of the client is a step of a message.
LEMMA ReadsAMessage ==
    ASSUME IInv, Deliver, ~UNCHANGED client
    PROVE  Message!Next
<1> DEFINE e == Head(events)
<1>1. /\ phase # "stopped" /\ events # << >> /\ Understood(e)
  BY DEF Deliver
<1>2. Expected(Client, e) /\ e \in StreamEvent /\ Client.phase = phase
      /\ Client.blocks = blocks
  BY <1>1, HeadExpected DEF Client, ClientWith
<1>3. blocks \in [DOMAIN blocks -> Message!Block]
  BY DEF IInv, ClientFits
<1> HIDE DEF e
<1>4. CASE e.type = "message_start"
  <2>1. phase = "new" /\ phase' = "open" /\ blocks' = blocks
    BY <1>1, <1>2, <1>4 DEF Expected, Understood
  <2>2. QED
    BY <2>1 DEF Message!Next, Message!MessageStart
<1>5. CASE e.type = "message_delta"
  <2>1. /\ phase = "open" /\ phase' = "ending" /\ blocks' = blocks
        /\ OnlyCallsOpen(blocks)
    BY <1>1, <1>2, <1>5 DEF Expected, Understood
  <2>2. Message!OnlyOverlapping
    BY <2>1 DEF OnlyCallsOpen, Message!OnlyOverlapping, Message!Indices
  <2>3. QED
    BY <2>1, <2>2 DEF Message!Next, Message!MessageDelta
<1>6. CASE e.type = "message_stop"
  <2>1. phase = "ending" /\ phase' = "stopped" /\ blocks' = blocks
    BY <1>1, <1>2, <1>6 DEF Expected, Understood
  <2>2. QED
    BY <2>1 DEF Message!Next, Message!MessageStop
<1>7. CASE e.type = "start"
  <2> DEFINE at == e.index
  <2>1. /\ phase = "open" /\ phase' = phase /\ DOMAIN blocks = 0..(at - 1)
        /\ blocks' = [i \in DOMAIN blocks \cup {at} |->
                         IF i = at THEN [kind |-> e.kind, open |-> TRUE] ELSE blocks[i]]
    <3>1. phase = "open" /\ DOMAIN blocks = 0..(at - 1)
      BY <1>2, <1>7 DEF Expected
    <3>2. QED
      BY <1>1, <1>7, <3>1, Zenon DEF Understood
  <2>2. at \in Nat /\ e.kind \in Kinds
    BY <1>2, <1>7 DEF StreamEvent
  <2> HIDE DEF at
  <2>3. 0..(at - 1) \cup {at} = 0..at
    BY <2>2
  <2>4. Cardinality(DOMAIN blocks) = at
    BY <2>1, <2>2, FS_Interval
  <2>5. blocks' = [i \in 0..at |->
                      IF i = at THEN [kind |-> e.kind, open |-> TRUE] ELSE blocks[i]]
    BY <2>1, <2>3
  <2>6. Message!BlockStart
    <3>1. \E k \in Kinds :
             blocks' = [i \in 0..at |-> IF i = at THEN [kind |-> k, open |-> TRUE]
                                               ELSE blocks[i]]
      BY <2>2, <2>5, Zenon
    <3>2. phase = "open" /\ phase' = phase /\ DOMAIN blocks = 0..(at - 1)
      BY <2>1
    <3>3. Message!Cardinality(DOMAIN blocks) = at
      <4>1. Message!Cardinality(DOMAIN blocks) = Cardinality(DOMAIN blocks)
        BY DEF Message!Cardinality, Cardinality
      <4>2. QED
        BY <2>4, <4>1
    <3>4. Message!OnlyOverlapping
      <4>1. OnlyCallsOpen(blocks)
        BY <1>2, <1>7 DEF Expected
      <4>2. QED
        BY <4>1 DEF OnlyCallsOpen, Message!OnlyOverlapping, Message!Indices
    <3>5. QED
      BY <3>1, <3>2, <3>3, <3>4, Zenon DEF Message!BlockStart
  <2>7. QED
    BY <2>6 DEF Message!Next
<1>8. CASE e.type = "stop"
  <2> DEFINE n == e.index
  <2>1. /\ phase = "open" /\ phase' = phase /\ Announced(blocks, e)
        /\ blocks' = [i \in DOMAIN blocks \cup {n} |->
                         IF i = n THEN [kind |-> e.kind, open |-> FALSE] ELSE blocks[i]]
    <3>1. phase = "open" /\ Announced(blocks, e)
      BY <1>2, <1>8 DEF Expected
    <3>2. QED
      BY <1>1, <1>8, <3>1, Zenon DEF Understood
  <2>2. n \in DOMAIN blocks /\ blocks[n] = [kind |-> e.kind, open |-> TRUE]
    BY <2>1, Zenon DEF Announced
  <2> DEFINE x == e.kind
  <2> HIDE DEF n, x
  <2>3. n \in Message!Indices
    <3>1. n \in DOMAIN blocks /\ blocks[n].open
      BY <2>2
    <3>2. QED
      BY <3>1, Zenon DEF Message!Indices
  <2>4. [blocks[n] EXCEPT !.open = FALSE] = [kind |-> x, open |-> FALSE]
    <3>1. \A b : [[kind |-> x, open |-> TRUE] EXCEPT !.open = b]
                     = [kind |-> x, open |-> b]
      OBVIOUS
    <3>2. blocks[n] = [kind |-> x, open |-> TRUE]
      BY <2>2, Zenon DEF x
    <3>3. QED
      BY <3>1, <3>2, Zenon
  <2>5. DOMAIN blocks \cup {n} = DOMAIN blocks
    BY <2>2
  <2>6. blocks' = [i \in DOMAIN blocks |->
                      IF i = n THEN [kind |-> x, open |-> FALSE] ELSE blocks[i]]
    BY <2>1, <2>5 DEF x, n
  <2>7. blocks' = [blocks EXCEPT ![n].open = FALSE]
    BY <1>3, <2>2, <2>4, <2>6
  <2>8. Message!BlockStop
    BY <2>1, <2>3, <2>7 DEF Message!BlockStop
  <2>9. QED
    BY <2>8 DEF Message!Next
<1>9. CASE e.type \notin {"message_start", "message_delta", "message_stop",
                          "start", "stop"}
  <2>1. phase' = phase /\ blocks' = blocks
    BY <1>1, <1>9, Zenon DEF Understood
  <2>2. QED
    BY <2>1 DEF client
<1>10. QED
  BY <1>4, <1>5, <1>6, <1>7, <1>8, <1>9

\* A block is left open by the end of the message if and only if it is of a
\* call whose slot another call has taken over.
THEOREM OnlyTakenOverAreLeft == Spec => []OnlyTakenOverStayOpen
<1>1. ASSUME IInv PROVE OnlyTakenOverStayOpen
  <2> SUFFICES ASSUME phase = "ending" PROVE LeftOpen(conv, blocks)
    BY Zenon DEF OnlyTakenOverStayOpen, LeftOpen
  <2>1. /\ conv.message_ended
        /\ Len(events) = 1 /\ events[1].type = "message_stop"
    BY <1>1 DEF IInv, HeardRight, ToBeEnded
  <2>2. PICK m : Leads(Client, events, m) /\ LeftOpen(conv, m.blocks)
    BY <1>1, <2>1 DEF IInv, Ahead
  <2>3. Reads(Client, events[1], m)
    <3>1. 1 \in 1..1 /\ 1 - 1 = 0
      OBVIOUS
    <3>2. QED
      BY <2>1, <2>2, <3>1 DEF Leads
  <2>4. m = ClientWith("stopped", blocks)
    BY <2>1, <2>3 DEF Reads, After, Client, ClientWith
  <2>5. QED
    BY <2>2, <2>4 DEF ClientWith
<1>2. QED
  BY <1>1, Invariance, PTL

\* Whatever fragments the upstream sends, in whatever order with reasoning
\* and text, and wherever it ends or breaks, the client reads the beginning
\* of a message up to message_stop: texts one at a time, calls beside them.
THEOREM ClientsSeeAMessage == Spec => WellFormed
<1>1. Init => Message!Init
  BY DEF Init
<1>2. ASSUME IInv, [Next]_vars
      PROVE  [Message!Next]_(Message!vars)
  <2>1. CASE UNCHANGED client
    BY <2>1 DEF client, Message!vars
  <2>2. CASE ~UNCHANGED client
    <3>1. Deliver
      BY <1>2, <2>2 DEF Next, Data, Done, Overflow, Broken, Close, vars, client
    <3>2. QED
      BY <1>2, <2>2, <3>1, ReadsAMessage
  <2>3. QED
    BY <2>1, <2>2
<1>3. QED
  BY <1>1, <1>2, Invariance, PTL DEF Spec, WellFormed, Message!Spec

=============================================================================
