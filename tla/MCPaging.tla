------------------------------ MODULE MCPaging ------------------------------
(***************************************************************************)
(* A small table for Paging: no limit, one the server cannot serve, a      *)
(* short one and one above the longest page.                               *)
(***************************************************************************)
EXTENDS Paging

MCLimits == {0, -1, 1, 4}

=============================================================================
