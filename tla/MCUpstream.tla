----------------------------- MODULE MCUpstream -----------------------------
(***************************************************************************)
(* Upstream needs no bounds: it has no constants.                          *)
(***************************************************************************)
EXTENDS Upstream

=============================================================================
