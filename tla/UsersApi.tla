------------------------------ MODULE UsersApi ------------------------------
(***************************************************************************)
(* The users API: the handlers of src/internal/handler/users.go over the   *)
(* dao.  A handler binds the request, calls one method of the dao in the   *)
(* request's goroutine and turns its outcome into the code of the reply.   *)
(*                                                                         *)
(* A request that cannot be bound is refused and changes nothing, so it is *)
(* not a step here.  Who is let through to the handlers is in FrontDoor.   *)
(***************************************************************************)
EXTENDS UsersDao

VARIABLE doomed   \* Clients -> the rows its request is to delete: those of its ids
                  \* that had been handed out when it was made

apiVars == <<vars, doomed>>

ApiTypeOK == TypeOK /\ doomed \in [Clients -> SUBSET Ids]

ApiInit == Init /\ doomed = [c \in Clients |-> {}]

-----------------------------------------------------------------------------
(***************************************************************************)
(* The handlers                                                            *)
(***************************************************************************)
Ask(c, o, I) ==
  /\ o \in Ops
  /\ Invoke(c, o, I)
  /\ doomed' = [doomed EXCEPT ![c] = IF o \in Deletes THEN I \cap 1..top ELSE {}]

Create(c) == Ask(c, "Create", {})

DeleteByID(c) == \E i \in Ids : Ask(c, "DeleteByID", {i})

\* The id of the path takes the place of one in the body.
UpdateByID(c) == \E i \in Ids : Ask(c, "UpdateByID", {i})

GetByID(c) == \E i \in Ids : Ask(c, "GetByID", {i})

\* The conditions of the query select any rows.
List(c) == \E I \in SUBSET Ids : Ask(c, "GetByColumns", I)

DeleteByIDs(c) == \E I \in SUBSET Ids : Ask(c, "DeleteByIDs", I)

GetByCondition(c) == \E I \in SUBSET Ids : Ask(c, "GetByCondition", I)

ListByIDs(c) == \E I \in SUBSET Ids : Ask(c, "GetByIDs", I)

\* The rows before an id, or the last ones.
ListByLastID(c) ==
  \E last \in 1..(MaxId + 1) : Ask(c, "GetByLastID", {i \in Ids : i < last})

Handle(c) ==
  \/ Create(c) \/ DeleteByID(c) \/ UpdateByID(c) \/ GetByID(c) \/ List(c)
  \/ DeleteByIDs(c) \/ GetByCondition(c) \/ ListByIDs(c) \/ ListByLastID(c)

-----------------------------------------------------------------------------
(***************************************************************************)
(* The replies                                                             *)
(***************************************************************************)

\* Mutated form: every error of a lookup is reported as a missing row.
HidingErrorCode(o, e) ==
  IF o \in {"GetByID", "GetByCondition"} THEN "NotFound" ELSE "InternalServerError"

\* The handlers that look for one row tell a missing row from a failure; the
\* others take every error of the dao for one of the server.
ErrorCode(o, e) ==
  IF o \in {"GetByID", "GetByCondition"} /\ e = "notFound"
  THEN "NotFound" ELSE "InternalServerError"

\* The reply to the request for which method o returns error e.
Code(o, e) == IF e = "nil" THEN "Success" ELSE ErrorCode(o, e)

\* The dao works on, and the handler of a method that returns replies.
Work ==
  /\ \/ \E c \in Clients : Cancel(c) \/ Step(c)
     \/ \E i \in Ids : Expire(i)
     \/ ExternalWrite
  /\ doomed' = [c \in Clients |-> IF pc'[c] = "idle" THEN {} ELSE doomed[c]]

ApiNext == Work \/ \E c \in Clients : Handle(c)

ApiSpec == ApiInit /\ [][ApiNext]_apiVars

-----------------------------------------------------------------------------
(***************************************************************************)
(* Properties                                                              *)
(***************************************************************************)

\* A reply can be taken at its word, whatever fails, hangs up or races: a deletion
\* is confirmed when the rows are gone and nobody has brought them back; a lookup
\* succeeds with the row it was asked for, and reports "not found" only for an
\* absence somebody has seen, never for a failure in disguise; and no method calls
\* it a failure of the server that a row does not exist.
RepliesAreTrue ==
  [][\A c \in Clients : pc[c] # "idle" /\ pc'[c] = "idle" =>
       LET code == Code(op[c], err'[c])
       IN  /\ code = "Success" =>
                /\ \A i \in doomed[c] : db'[i] = Absent
                /\ op[c] = "GetByID" => \A i \in ids[c] : read'[c][i] \in Versions
           /\ code = "NotFound" =>
                \A i \in ids[c] : read'[c][i] = Absent
           /\ code = "InternalServerError" => err'[c] = "failed"]_apiVars

=============================================================================
