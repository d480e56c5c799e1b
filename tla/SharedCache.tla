---------------------------- MODULE SharedCache ----------------------------
(***************************************************************************)
(* What a shared HTTP cache promises the clients in front of it and the    *)
(* application behind: a request is given an answer the application has    *)
(* given to a request it suits as well, whole and within its lifetime, or  *)
(* it is passed on.  Which answers are kept, for how long and under which  *)
(* keys they are looked up is left to ProxyCache.                          *)
(***************************************************************************)
EXTENDS Integers

CONSTANTS
  Clients,         \* those who have one request at a time
  Calls,           \* the requests they may send
  Answers(_),      \* Answers(d): what the application may answer to request d
  Shareable(_),    \* Shareable(a): a may be given to others than its client
  Copy(_),         \* Copy(a): what others are given of a
  Lifetime(_),     \* how long a may be given to others
  Suits(_, _, _),  \* Suits(d, e, a): a, which answered e, answers d as well
  Has(_, _),       \* Has(d, a): whoever sends d has said that it has a
  Nothing          \* no answer

VARIABLES
  clock,
  kept,    \* the answers that may be given to others
  stage,   \* Clients -> what has become of the request
  asked,   \* Clients -> the request
  answer   \* Clients -> what was found for it, or is offered for keeping

vars == <<clock, kept, stage, asked, answer>>

Over == {"idle", "replayed", "not modified", "passed on"}

Init ==
  /\ clock = 0
  /\ kept = {}
  /\ stage = [c \in Clients |-> "idle"]
  /\ asked \in [Clients -> Calls]
  /\ answer = [c \in Clients |-> Nothing]

Becomes(c, s, a) ==
  /\ stage' = [stage EXCEPT ![c] = s]
  /\ answer' = [answer EXCEPT ![c] = a]

Ask(c) ==
  /\ stage[c] \in Over
  /\ \E d \in Calls : asked' = [asked EXCEPT ![c] = d]
  /\ Becomes(c, "asked", Nothing)
  /\ UNCHANGED <<clock, kept>>

Find(c) ==
  /\ stage[c] = "asked"
  /\ \E k \in kept :
       /\ Suits(asked[c], k.call, k.answer)
       /\ clock <= k.done + Lifetime(k.answer) + k.late
       /\ Becomes(c, "found", k)
  /\ UNCHANGED <<clock, kept, asked>>

\* The client gets the copy, or is told that it has the answer.
Reply(c) ==
  /\ stage[c] = "found"
  /\ \/ Becomes(c, "replayed", answer[c])
     \/ Has(asked[c], answer[c].answer) /\ Becomes(c, "not modified", answer[c])
  /\ UNCHANGED <<clock, kept, asked>>

\* The application's answer goes to the client alone.
PassOn(c) ==
  /\ stage[c] = "asked"
  /\ Becomes(c, "passed on", Nothing)
  /\ UNCHANGED <<clock, kept, asked>>

\* It goes to the client, and others may have it from now on.
Offer(c) ==
  /\ stage[c] = "asked"
  /\ \E a \in Answers(asked[c]) :
       /\ Shareable(a)
       /\ Becomes(c, "offering",
            [call |-> asked[c], answer |-> a, copy |-> Copy(a), done |-> clock, late |-> 0])
  /\ UNCHANGED <<clock, kept, asked>>

\* The offer is taken or not, and may push others out.  If that took its time, it may be
\* given to others that much longer.
Keep(c) ==
  /\ stage[c] = "offering"
  /\ \E late \in 0..(clock - answer[c].done) :
       kept' \subseteq kept \cup {[answer[c] EXCEPT !.late = late]}
  /\ Becomes(c, "passed on", Nothing)
  /\ UNCHANGED <<clock, asked>>

Forget == kept' \subseteq kept /\ UNCHANGED <<clock, stage, asked, answer>>

Tick == clock' = clock + 1 /\ UNCHANGED <<kept, stage, asked, answer>>

Next ==
  \/ \E c \in Clients : Ask(c) \/ Find(c) \/ Reply(c) \/ PassOn(c) \/ Offer(c) \/ Keep(c)
  \/ Forget
  \/ Tick

Spec == Init /\ [][Next]_vars

=============================================================================
