------------------------------ MODULE MCExports ------------------------------
(* Exports, with the commands on the config file, for TLC. *)
EXTENDS Exports, TLC

\* The commands are alike, and so are the providers.
MCSymmetry == Permutations(Processes) \cup Permutations(Providers)

=============================================================================
