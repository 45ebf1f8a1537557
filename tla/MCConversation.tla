---------------------------- MODULE MCConversation ----------------------------
(***************************************************************************)
(* Conversation for TLC: three turns of the user, each of which mixes the  *)
(* results of up to two calls with blocks of every kind, and two answers   *)
(* of different upstreams.                                                 *)
(***************************************************************************)
EXTENDS Conversation

CONSTANTS hello, c1, c2

Image == [type |-> "image"]
Document == [type |-> "document"]

Around(before, after) == [before |-> before, after |-> after]

MCExtras ==
    {Around(<< >>, << >>), Around(<<Text(hello)>>, << >>),
     Around(<< >>, <<Text(hello), Text(hello)>>),
     Around(<<Image, Document>>, <<Text(hello)>>)}

MCSystems == {<<Document, Text(hello)>>}

MCReturns ==
    {[content |-> String(<<Text(hello)>>), is_error |-> FALSE],
     [content |-> Parts(<<Text(hello)>>), is_error |-> TRUE],
     [content |-> Parts(<<Image, Text(hello)>>), is_error |-> TRUE]}

MCNatives ==
    {<<Thinking, Text(hello), ToolUse(c1, "empty"), Text(Empty), ToolUse(c2, "fields")>>,
     <<Thinking>>,
     <<Text(hello), Thinking, Text(hello)>>}

=============================================================================
