----------------------------- MODULE MCUsersDao -----------------------------
(***************************************************************************)
(* Small instances of UsersDao.                                            *)
(***************************************************************************)
EXTENDS UsersDao, TLC

CONSTANTS c1, c2    \* clients

TwoClients == {c1, c2}
TwoSymmetry == Permutations(TwoClients)

\* Every method but DeleteByIDs and GetByLastID: with one row the first does what DeleteByID
\* does, the second what GetByColumns does when it has counted.
AllOps == (Single \cup Many \cup Queries \cup Creates) \ {"DeleteByIDs", "GetByLastID"}

CreateOps == {"GetByID", "Create"}

=============================================================================
