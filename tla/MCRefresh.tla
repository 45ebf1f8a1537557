------------------------------ MODULE MCRefresh ------------------------------
(***************************************************************************)
(* Refresh for TLC.  The gateway moves a model from a provider of its own  *)
(* to one of the configuration, adds one without an owner, sends junk, and *)
(* sends more than the limit.                                              *)
(***************************************************************************)
EXTENDS Refresh

CONSTANTS default, conf, auto, junk, m1, m2

MCNames == {default, conf, auto}
MCModels == {m1, m2}
MCConfig ==
    <<[name |-> conf, style |-> "Anthropic", models |-> {m1},
       enabled |-> TRUE]>>

Of(m, p) == [id |-> m, owner |-> p]

Before == {Of(m1, auto)}
After == {Of(m1, conf), Of(m2, junk), Of(junk, auto)}
Huge == {Of(m1, auto), Of(m2, auto), Of(m1, conf), Of(m2, conf)}

Ok(report) == [status |-> "ok", report |-> report]
Not(status) == [status |-> status, report |-> {}]

MCGateways ==
    {Ok(Before), Ok(After), Ok(Huge), Not("failing"), Not("refusing")}

=============================================================================
