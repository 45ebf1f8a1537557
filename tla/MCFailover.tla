----------------------------- MODULE MCFailover -----------------------------
(***************************************************************************)
(* Failover for TLC: a configuration with two providers that speak OpenAI  *)
(* and one that speaks Anthropic, and a gateway that reports a provider of *)
(* its own, the configured ones with models they do not list, or nothing.  *)
(***************************************************************************)
EXTENDS Failover, TLC

CONSTANTS oa, ob, an, auto, m1, m2, m3

MCNames == {oa, ob, an, auto}
MCModels == {m1, m2, m3}

Entry(name, style, ms) ==
    [name |-> name, style |-> style, models |-> ms, enabled |-> TRUE]

MCConfig ==
    <<Entry(oa, "OpenaiV1", {m1}), Entry(an, "Anthropic", {m1, m3}),
      Entry(ob, "OpenaiDirect", {m1})>>

MCSnapshots ==
    {<< >>, auto :> {m1, m2}, (auto :> {m2}) @@ (an :> {m2}),
     (auto :> {m3}) @@ (oa :> {m3})}

=============================================================================
