----------------------------- MODULE MCUsersApi -----------------------------
(***************************************************************************)
(* A small instance of UsersApi.                                           *)
(***************************************************************************)
EXTENDS UsersApi, TLC

CONSTANTS c1, c2    \* clients

TwoClients == {c1, c2}
TwoSymmetry == Permutations(TwoClients)

\* What the handlers call.
ApiOps == {"Create", "DeleteByID", "UpdateByID", "GetByID", "GetByColumns", "DeleteByIDs",
           "GetByCondition", "GetByIDs", "GetByLastID"}

=============================================================================
