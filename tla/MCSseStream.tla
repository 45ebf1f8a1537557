----------------------------- MODULE MCSseStream -----------------------------
(***************************************************************************)
(* SseStream for TLC: an Anthropic stream, whose messages all have a type, *)
(* an OpenAI one, whose messages have none, one that mixes both, as an     *)
(* `event: error` of a gateway in front of an OpenAI upstream does, and    *)
(* one with an invalid byte before a character of three bytes.             *)
(***************************************************************************)
EXTENDS SseStream

M(type, inner, text) == [type |-> type, inner |-> inner, text |-> text]

Anthropic == <<M("start", "thinking", << >>), M("delta", "thinking_delta", <<3>>),
               M("delta", "text", << >>), M("start", "text", << >>)>>
OpenAI == <<M(None, "text", <<4>>), M(None, "text", <<2, 1>>),
            M(None, "[DONE]", << >>)>>
Mixed == <<M("start", "text", << >>), M(None, "text", << >>),
           M(None, "text", << >>)>>
Invalid == <<M(None, "text", <<0>>), M(None, "text", <<3, 3>>),
             M(None, "[DONE]", << >>)>>

MCStreams == {Anthropic, OpenAI, Mixed, Invalid}

=============================================================================
