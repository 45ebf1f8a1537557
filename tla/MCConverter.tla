----------------------------- MODULE MCConverter -----------------------------
(***************************************************************************)
(* Converter for TLC.  The dialects are those of the backends that the     *)
(* comments and tests of conversion.rs name: an index with every fragment  *)
(* and an id with the first, some or none of them; ids only; and two in    *)
(* which calls meet: numbers given to some fragments, a number used again. *)
(***************************************************************************)
EXTENDS Converter

CONSTANTS a, b

F(index, id) == [index |-> index, id |-> id]

Indexed == {F(0, a), F(0, None), F(1, None)}
IdsOnly == {F(None, a), F(None, b), F(None, None)}
Mixed   == {F(0, a), F(0, None), F(None, b)}
Reused  == {F(0, a), F(0, b)}

MCDialects == {Indexed, IdsOnly, Mixed, Reused}

=============================================================================
