----------------------------- MODULE MCRegistry -----------------------------
(***************************************************************************)
(* A small instance of Registry for TLC: two configured providers that     *)
(* share a model, a disabled one, and two names only the gateway knows.    *)
(* A snapshot gives the gateway's names any groups at all, and may claim   *)
(* the configured names and models too.                                    *)
(***************************************************************************)
EXTENDS Registry, TLC

CONSTANTS s1, s2, off, a, b, m1, m2, m3

MCNames == {s1, s2, off, a, b}
MCModels == {m1, m2, m3}
MCNamespaced == {m3}

MCConfig ==
    << [name |-> s1, style |-> "OpenaiV1", models |-> {m1}, enabled |-> TRUE],
       [name |-> off, style |-> "OpenaiV1", models |-> {m2},
        enabled |-> FALSE],
       [name |-> s2, style |-> "Anthropic", models |-> {m1},
        enabled |-> TRUE] >>

\* The groups with no models are absent.
Present(f) == [p \in {q \in DOMAIN f : f[q] # {}} |-> f[p]]

MCSnapshots ==
    {Present((a :> ga) @@ (b :> gb) @@ (off :> go) @@ (s1 :> gs)) :
        ga \in SUBSET {m1, m2, m3}, gb \in SUBSET {m2, m3},
        go \in {{}, {m2}}, gs \in {{}, {m1, m3}}}

=============================================================================
