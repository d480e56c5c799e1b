----------------------------- MODULE StaleTable -----------------------------
(***************************************************************************)
(* What the users dao promises its callers of the table behind its cache:  *)
(* old rows may be in circulation, but only rows the table has held, and a *)
(* row that has gone out of circulation comes back only if it is written   *)
(* again.  How rows circulate, through cache entries or through loads that *)
(* are shared, is left to UsersDao.                                        *)
(***************************************************************************)
CONSTANTS
  Ids,      \* the ids of rows
  Clients,  \* goroutines calling the dao
  Unread    \* nothing is said of a row

VARIABLES
  db,       \* Ids -> the committed row
  known,    \* Ids -> the rows a reader may yet be told
  told      \* Clients -> what the last call has said of every row

vars == <<db, known, told>>

Nothing == [i \in Ids |-> Unread]

Init ==
  /\ known = [i \in Ids |-> {db[i]}]
  /\ told = [c \in Clients |-> Nothing]

\* The committed row is always in circulation; others leave it in any order.
Circulate ==
  \A i \in Ids : db'[i] \in known'[i] /\ known'[i] \subseteq known[i] \cup {db'[i]}

\* A call that returns speaks of rows in circulation, or of none; one that begins
\* makes its caller forget what the last one said.
Tell(c) ==
  \/ told'[c] = told[c]
  \/ \A i \in Ids : told'[c][i] \in known[i] \cup {Unread}

Next == Circulate /\ \A c \in Clients : Tell(c)

Spec == Init /\ [][Next]_vars

=============================================================================
