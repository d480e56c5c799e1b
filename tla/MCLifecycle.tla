----------------------------- MODULE MCLifecycle -----------------------------
(***************************************************************************)
(* Lifecycle, with and without TLS, with and without the upstream process; *)
(* it has no constants, and nothing of it is bounded.                      *)
(***************************************************************************)
EXTENDS Lifecycle

=============================================================================
