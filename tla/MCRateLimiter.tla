---------------------------- MODULE MCRateLimiter ----------------------------
(***************************************************************************)
(* RateLimiter for TLC: more clients than the map may track, and a clock   *)
(* that runs through several windows.                                      *)
(***************************************************************************)
EXTENDS RateLimiter, TLC

Symmetry == Permutations(IPs)

=============================================================================
