----------------------------- MODULE MCLifecycle ------------------------------
(* Lifecycle for TLC, with every build and configuration. *)
EXTENDS Lifecycle

=============================================================================
