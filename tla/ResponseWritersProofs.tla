----------------------- MODULE ResponseWritersProofs -----------------------
(***************************************************************************)
(* Theorems about ResponseWriters, for any files, answers and bodies of    *)
(* any length: what the writers of a response have told each other agrees  *)
(* with what the client has got, whoever answered.                         *)
(***************************************************************************)
EXTENDS ResponseWriters, SequenceTheorems, TLAPS

(***************************************************************************)
(* The inductive invariant.  Sound: the writers agree with each other and  *)
(* with what has gone to the client.  Unanswered: nothing has, hints       *)
(* apart.  Carries: the answer a is on its way, with to come of its body.  *)
(* Faithful: an entry is the answer it was made from.                      *)
(***************************************************************************)
Sound(v) ==
  /\ v \in WriterType
  /\ v.header = NoFile /\ ~v.leaked
  /\ v.bytesWritten = Len(v.body)
  /\ IF v.written THEN v.statusCode = v.status ELSE v.body = <<>>
  /\ v.body \in Seq({Chunk}) \/ Len(v.body) = 1

Unanswered(v) == Sound(v) /\ ~v.written /\ ~v.sendingFile

\* The status the client has, or gets with the next write; a redirect of http.ServeFile
\* has no body and waits for it.
Pending(v) == IF v.written THEN v.status ELSE v.ginStatus

Redirecting(v) == ~v.written => v.ginStatus = Moved

Carries(v, a, toCome) ==
  IF a.file = NoFile
  THEN /\ ~v.sendingFile /\ (sendfile => v.headerWritten)
       /\ a.status = Pending(v)
       /\ v.body \in Seq({Chunk}) /\ v.body \o toCome = a.body
  ELSE /\ v.sendingFile /\ v.headerWritten /\ sendfile
       /\ Redirecting(v) /\ <<Pending(v), v.body>> = FileResult(a.file)

Faithful(e) ==
  /\ e.of \in Answers
  /\ e.status = e.of.status /\ e.file = e.of.file /\ e.body = e.of.body
  /\ e.of.file # NoFile => sendfile

CopyInv ==
  /\ copy.status = meant.status /\ copy.file = meant.file
  /\ copy.body \in Seq({Chunk}) /\ copy.body \o rest = meant.body

IInv ==
  /\ TypeOK
  /\ Sound(w)
  /\ entry # NoEntry => Faithful(entry)
  /\ pc = "hit" => entry # NoEntry
  /\ pc \in {"hit", "miss", "informed"} => Unanswered(w)
  /\ pc \in {"body", "aborted", "handled", "served"} =>
       meant \in Answers /\ (meant.file # NoFile => sendfile)
  /\ pc = "body" => Carries(w, meant, rest) /\ CopyInv
  /\ pc = "handled" => Carries(w, meant, <<>>)
  /\ pc \in {"served", "recovered", "hijacked"} => w.written
  /\ GetsPromised

-----------------------------------------------------------------------------
(***************************************************************************)
(* What the writers do                                                     *)
(***************************************************************************)

\* A body of the application's pieces and one more of them.
LEMMA Appended ==
  ASSUME NEW s \in Seq({Chunk}), NEW t \in Seq({Chunk})
  PROVE  s \o t \in Seq({Chunk}) /\ Len(s \o t) = Len(s) + Len(t)
BY LenProperties, ConcatProperties

LEMMA PiecesType == Seq({Chunk}) \subseteq Seq(Pieces)
BY DEF Pieces

LEMMA OnePiece ==
  ASSUME NEW x \in Pieces
  PROVE  <<x>> \in Seq(Pieces) /\ Len(<<x>>) = 1
OBVIOUS

\* gin's writer passes the header on once.
LEMMA WriteHeaderNow ==
  ASSUME NEW v, Sound(v), v.written \/ v.ginStatus # 0
  PROVE  LET r == GinWriteHeaderNow(v) IN
           /\ Sound(r) /\ r.written
           /\ r.status = IF v.written THEN v.status ELSE v.ginStatus
           /\ r.body = v.body /\ r.sendingFile = v.sendingFile
           /\ r.headerWritten = v.headerWritten /\ r.ginStatus = v.ginStatus
<1> DEFINE r == GinWriteHeaderNow(v)
<1>1. CASE v.written
  BY <1>1 DEF GinWriteHeaderNow, Sound
<1>2. CASE ~v.written
  <2>1. r = [v EXCEPT !.written = TRUE, !.statusCode = v.ginStatus, !.status = v.ginStatus,
                      !.leaked = FALSE]
    BY <1>2 DEF GinWriteHeaderNow, RecorderWriteHeader, Sound, WriterType
  <2>2. r \in WriterType
    BY <1>2, <2>1 DEF Sound, WriterType
  <2>3. QED
    BY <1>2, <2>1, <2>2 DEF Sound, WriterType
<1>3. QED
  BY <1>1, <1>2

LEMMA WriteHeaderGin ==
  ASSUME NEW v, Sound(v), NEW status \in Nat
  PROVE  LET r == GinWriteHeader(v, status) IN
           /\ Sound(r) /\ r.written = v.written /\ r.status = v.status /\ r.body = v.body
           /\ r.ginStatus = IF v.written THEN v.ginStatus ELSE status
           /\ r.sendingFile = v.sendingFile /\ r.headerWritten = v.headerWritten
BY DEF GinWriteHeader, Sound, WriterType

\* What gin's writer is given to write follows what has been written.
LEMMA WriteGin ==
  ASSUME NEW v, Sound(v), v.written \/ v.ginStatus # 0, NEW pieces \in Seq(Pieces),
         v.body \o pieces \in Seq({Chunk}) \/ (v.body = <<>> /\ Len(pieces) = 1)
  PROVE  LET r == GinWrite(v, pieces) IN
           /\ Sound(r) /\ r.written
           /\ r.status = IF v.written THEN v.status ELSE v.ginStatus
           /\ r.body = v.body \o pieces /\ r.sendingFile = v.sendingFile
           /\ r.headerWritten = v.headerWritten
<1> DEFINE u == GinWriteHeaderNow(v)
           r == GinWrite(v, pieces)
<1>1. /\ Sound(u) /\ u.written /\ u.body = v.body
      /\ u.status = IF v.written THEN v.status ELSE v.ginStatus
      /\ u.sendingFile = v.sendingFile /\ u.headerWritten = v.headerWritten
  BY WriteHeaderNow
<1>2. r = [u EXCEPT !.bytesWritten = @ + Len(pieces), !.body = @ \o pieces]
  BY DEF GinWrite, RecorderWrite
<1> HIDE DEF u
<1>3. /\ u.body \o pieces \in Seq(Pieces)
      /\ Len(u.body \o pieces) = Len(u.body) + Len(pieces) /\ Len(pieces) \in Nat
  BY <1>1, ConcatProperties, LenProperties DEF Sound, WriterType
<1> DEFINE longer == u.body \o pieces
<1>4. u.bytesWritten + Len(pieces) = Len(longer) /\ Len(longer) \in Nat
  BY <1>1, <1>3, LenProperties DEF Sound
<1>5. longer \in Seq({Chunk}) \/ Len(longer) = 1
  <2>1. CASE v.body \o pieces \in Seq({Chunk})
    BY <1>1, <2>1
  <2>2. CASE v.body = <<>> /\ Len(pieces) = 1
    <3>1. Len(u.body) = 0
      BY <1>1, <2>2
    <3>2. QED
      BY <1>3, <2>2, <3>1
  <2>3. QED
    BY <2>1, <2>2
<1>6. longer \in Seq(Pieces)
  BY <1>3
<1>7. r = [u EXCEPT !.bytesWritten = Len(longer), !.body = longer]
  BY <1>2, <1>4
<1> HIDE DEF longer, r
<1>8. /\ r \in WriterType
      /\ r.bytesWritten = Len(longer) /\ r.body = longer /\ r.written /\ r.status = u.status
      /\ r.statusCode = u.statusCode /\ r.header = u.header /\ r.leaked = u.leaked
      /\ r.sendingFile = u.sendingFile /\ r.headerWritten = u.headerWritten
  BY <1>1, <1>4, <1>6, <1>7 DEF Sound, WriterType
<1>9. Sound(r)
  BY <1>1, <1>5, <1>8 DEF Sound
<1>10. QED
  BY <1>1, <1>8, <1>9 DEF longer, r

\* A file that is served, or the refusal of it, is all the client gets.
LEMMA FileServed ==
  ASSUME NEW v, Sound(v), ~v.written, NEW file
  PROVE  LET r == ServeFile(v, file) IN
           /\ Sound(r) /\ Redirecting(r) /\ <<Pending(r), r.body>> = FileResult(file)
           /\ r.sendingFile = v.sendingFile /\ r.headerWritten = v.headerWritten
<1> DEFINE r == ServeFile(v, file)
<1>1. ASSUME NEW status \in Nat \ {0}, NEW pieces \in Seq(Pieces), Len(pieces) = 1,
             r = GinWrite(GinWriteHeader(v, status), pieces)
      PROVE  /\ Sound(r) /\ Redirecting(r) /\ <<Pending(r), r.body>> = <<status, pieces>>
             /\ r.sendingFile = v.sendingFile /\ r.headerWritten = v.headerWritten
  <2> DEFINE u == GinWriteHeader(v, status)
  <2>1. /\ Sound(u) /\ ~u.written /\ u.ginStatus = status /\ u.body = <<>>
        /\ u.sendingFile = v.sendingFile /\ u.headerWritten = v.headerWritten
    BY WriteHeaderGin DEF Sound
  <2> HIDE DEF u
  <2>2. u.body \o pieces = pieces
    BY <2>1, ConcatEmptySeq
  <2>3. r = GinWrite(u, pieces)
    BY <1>1 DEF u
  <2> HIDE DEF r
  <2>4. /\ Sound(r) /\ r.written /\ r.status = status /\ r.body = pieces
        /\ r.sendingFile = v.sendingFile /\ r.headerWritten = v.headerWritten
    BY <1>1, <2>1, <2>2, <2>3, WriteGin
  <2>5. QED
    BY <2>4 DEF Pending, Redirecting
<1>2. CASE path = "dotdot"
  <2>1. r = GinWrite(GinWriteHeader(v, BadRequest), <<InvalidPath>>)
    BY <1>2 DEF ServeFile
  <2>2. BadRequest \in Nat \ {0} /\ InvalidPath \in Pieces
    BY DEF BadRequest, Pieces
  <2> HIDE DEF r
  <2>3. QED
    BY <1>1, <1>2, <2>1, <2>2, OnePiece DEF FileResult, r
<1>3. CASE path # "dotdot" /\ path = "index"
  <2>1. r = GinWriteHeader(v, Moved) /\ Moved \in Nat
    BY <1>3 DEF ServeFile, Moved
  <2> HIDE DEF r
  <2>2. /\ Sound(r) /\ ~r.written /\ r.ginStatus = Moved /\ r.body = <<>>
        /\ r.sendingFile = v.sendingFile /\ r.headerWritten = v.headerWritten
    BY <2>1, WriteHeaderGin DEF Sound
  <2>3. QED
    BY <1>3, <2>2 DEF FileResult, Pending, Redirecting, r
<1>4. CASE path # "dotdot" /\ path # "index" /\ file \in disk
  <2>1. r = GinWrite(GinWriteHeader(v, Ok), <<Content>>)
    BY <1>4 DEF ServeFile
  <2>2. Ok \in Nat \ {0} /\ Content \in Pieces
    BY DEF Ok, Pieces
  <2> HIDE DEF r
  <2>3. QED
    BY <1>1, <1>4, <2>1, <2>2, OnePiece DEF FileResult, r
<1>5. CASE path # "dotdot" /\ path # "index" /\ file \notin disk
  <2>1. r = GinWrite(GinWriteHeader(v, NotFound), <<NoSuchFile>>)
    BY <1>5 DEF ServeFile
  <2>2. NotFound \in Nat \ {0} /\ NoSuchFile \in Pieces
    BY DEF NotFound, Pieces
  <2> HIDE DEF r
  <2>3. QED
    BY <1>1, <1>5, <2>1, <2>2, OnePiece DEF FileResult, r
<1>6. QED
  BY <1>2, <1>3, <1>4, <1>5

\* The headers of an answer leave the writers ready for its body.
LEMMA HeadersCopied ==
  ASSUME WritersAssumption, sendfile \in BOOLEAN, NEW v, Unanswered(v),
         NEW file \in Files \cup {NoFile}, file # NoFile => sendfile, NEW status \in Nat
  PROVE  LET r == CopyHeaders(v, file, status) IN
           /\ Sound(r)
           /\ IF file = NoFile
              THEN /\ ~r.sendingFile /\ (sendfile => r.headerWritten)
                   /\ ~r.written /\ r.ginStatus = status
              ELSE /\ r.sendingFile /\ r.headerWritten
                   /\ Redirecting(r) /\ <<Pending(r), r.body>> = FileResult(file)
<1> DEFINE named == IF file = NoFile THEN v ELSE [v EXCEPT !.header = file]
           u == [named EXCEPT !.header = NoFile, !.sendingFile = (named.header # NoFile),
                              !.headerWritten = TRUE]
           r == CopyHeaders(v, file, status)
<1>1. named \in WriterType /\ named.header = file
  BY DEF Unanswered, Sound, WriterType
<1>2. /\ Sound(u) /\ ~u.written /\ u.headerWritten
      /\ u.sendingFile <=> file # NoFile
  BY <1>1 DEF Unanswered, Sound, WriterType
<1>3. r = IF ~sendfile THEN GinWriteHeader(named, status)
          ELSE IF u.sendingFile THEN ServeFile(u, file) ELSE GinWriteHeader(u, status)
  BY <1>1 DEF CopyHeaders, SendfileWriteHeader
<1> HIDE DEF u, r
<1>4. CASE ~sendfile
  <2>1. file = NoFile /\ r = GinWriteHeader(v, status)
    BY <1>3, <1>4 DEF named
  <2>2. QED
    BY <1>4, <2>1, WriteHeaderGin DEF Unanswered, r
<1>5. CASE sendfile /\ file = NoFile
  <2>1. r = GinWriteHeader(u, status)
    BY <1>2, <1>3, <1>5
  <2>2. QED
    BY <1>2, <1>5, <2>1, WriteHeaderGin DEF r
<1>6. CASE sendfile /\ file # NoFile
  <2>1. r = ServeFile(u, file)
    BY <1>2, <1>3, <1>6
  <2>2. QED
    BY <1>2, <1>6, <2>1, FileServed DEF r
<1>7. QED
  BY <1>4, <1>5, <1>6

-----------------------------------------------------------------------------
(***************************************************************************)
(* An answer on its way                                                    *)
(***************************************************************************)

LEMMA AnswerFields ==
  ASSUME WritersAssumption, NEW a \in Answers
  PROVE  /\ a.status \in Nat /\ a.status >= 200 /\ a.file \in Files \cup {NoFile}
         /\ a.body \in Seq({Chunk})
<1>1. a \in AnswerType
  BY DEF WritersAssumption
<1>2. /\ a.status \in 200..999 /\ a.file \in Files \cup {NoFile}
      /\ a.body \in Seq({Chunk})
  BY <1>1 DEF AnswerType
<1>3. ASSUME NEW n \in 200..999 PROVE n \in Nat /\ n >= 200
  OBVIOUS
<1>4. a.status \in Nat /\ a.status >= 200
  BY <1>2, <1>3
<1>5. QED
  BY <1>2, <1>4

LEMMA HeadersCarry ==
  ASSUME WritersAssumption, sendfile \in BOOLEAN, NEW v, Unanswered(v),
         NEW a \in Answers, a.file # NoFile => sendfile
  PROVE  LET r == CopyHeaders(v, a.file, a.status) IN Sound(r) /\ Carries(r, a, a.body)
<1> DEFINE r == CopyHeaders(v, a.file, a.status)
<1>1. /\ Sound(r)
      /\ IF a.file = NoFile
         THEN ~r.sendingFile /\ (sendfile => r.headerWritten) /\ ~r.written /\ r.ginStatus = a.status
         ELSE /\ r.sendingFile /\ r.headerWritten
              /\ Redirecting(r) /\ <<Pending(r), r.body>> = FileResult(a.file)
  BY AnswerFields, HeadersCopied
<1> HIDE DEF r
<1>2. <<>> \o a.body = a.body /\ <<>> \in Seq({Chunk})
  BY AnswerFields, ConcatEmptySeq
<1>3. CASE a.file = NoFile
  BY <1>1, <1>2, <1>3 DEF Carries, Sound, Pending, r
<1>4. CASE a.file # NoFile
  BY <1>1, <1>4 DEF Carries, r
<1>5. QED
  BY <1>3, <1>4

\* Once the headers are copied, what follows is written through, or refused because
\* a file has taken its place.
LEMMA PiecesCarry ==
  ASSUME WritersAssumption, sendfile \in BOOLEAN, NEW v, Sound(v), NEW a \in Answers,
         NEW pieces \in Seq({Chunk}), NEW toCome \in Seq({Chunk}),
         Carries(v, a, pieces \o toCome)
  PROVE  LET r == SendfileWrite(v, pieces) IN
           Sound(r) /\ Carries(r, a, toCome) /\ (Refused(v) <=> a.file # NoFile)
<1>1. WithHeader(v) = v
  BY DEF WithHeader, Carries
<1>2. CASE a.file # NoFile
  BY <1>1, <1>2 DEF SendfileWrite, Refused, Carries
<1>3. CASE a.file = NoFile
  <2> DEFINE r == GinWrite(v, pieces)
  <2>1. SendfileWrite(v, pieces) = r /\ ~Refused(v)
    BY <1>1, <1>3 DEF SendfileWrite, Refused, Carries
  <2>2. v.body \o pieces \in Seq({Chunk}) /\ v.body \in Seq({Chunk})
    BY <1>3, Appended DEF Carries
  <2>3. v.written \/ v.ginStatus # 0
    BY <1>3, AnswerFields DEF Carries, Pending
  <2>4. /\ Sound(r) /\ r.written /\ r.status = IF v.written THEN v.status ELSE v.ginStatus
        /\ r.body = v.body \o pieces /\ r.sendingFile = v.sendingFile
        /\ r.headerWritten = v.headerWritten
    <3>1. pieces \in Seq(Pieces)
      BY PiecesType
    <3>2. QED
      BY <2>2, <2>3, <3>1, WriteGin
  <2>5. (v.body \o pieces) \o toCome = v.body \o (pieces \o toCome)
    <3>1. ASSUME NEW s \in Seq({Chunk}) PROVE (s \o pieces) \o toCome = s \o (pieces \o toCome)
      BY ConcatAssociative
    <3>2. QED
      BY <2>2, <3>1
  <2> HIDE DEF r
  <2>6. Carries(r, a, toCome)
    BY <1>3, <2>2, <2>4, <2>5 DEF Carries, Pending
  <2>7. QED
    BY <1>3, <2>1, <2>4, <2>6
<1>4. QED
  BY <1>2, <1>3

LEMMA FlushCarry ==
  ASSUME WritersAssumption, NEW v, Sound(v), NEW a \in Answers, NEW toCome, Carries(v, a, toCome)
  PROVE  LET r == GinWriteHeaderNow(v) IN
           Sound(r) /\ r.written /\ Carries(r, a, toCome)
<1> DEFINE r == GinWriteHeaderNow(v)
<1>1. v.written \/ v.ginStatus # 0
  BY AnswerFields DEF Carries, Pending, Redirecting, Moved
<1>2. /\ Sound(r) /\ r.written /\ r.status = IF v.written THEN v.status ELSE v.ginStatus
      /\ r.body = v.body /\ r.sendingFile = v.sendingFile /\ r.headerWritten = v.headerWritten
  BY <1>1, WriteHeaderNow
<1> HIDE DEF r
<1>3. Carries(r, a, toCome)
  BY <1>2 DEF Carries, Pending, Redirecting
<1>4. QED
  BY <1>2, <1>3 DEF r

-----------------------------------------------------------------------------
(***************************************************************************)
(* Invariance                                                              *)
(***************************************************************************)

LEMMA FreshIsUnanswered == Unanswered(Fresh)
BY DEF Unanswered, Sound, Fresh, WriterType, NotFound, Ok

LEMMA InitIInv == WritersAssumption /\ Init => IInv
<1> SUFFICES ASSUME WritersAssumption, Init PROVE IInv
  OBVIOUS
<1>1. Unanswered(w)
  BY FreshIsUnanswered DEF Init
<1>2. w \in WriterType /\ rest \in Seq({Chunk})
  BY <1>1 DEF Init, Unanswered, Sound
<1>3. TypeOK
  BY <1>2, Zenon DEF Init, TypeOK
<1>4. QED
  BY <1>1, <1>3 DEF Init, IInv, Unanswered, GetsPromised

\* A new request finds new writers and leaves the entry alone.
LEMMA ArriveStep == IInv /\ Arrive => IInv'
<1> SUFFICES ASSUME IInv, Arrive PROVE IInv'
  OBVIOUS
<1>1. Unanswered(w')
  BY FreshIsUnanswered DEF Arrive
<1>2. TypeOK'
  <2>1. w' \in WriterType /\ rest' \in Seq({Chunk}) /\ meant' = NoEntry
    BY <1>1 DEF Arrive, Unanswered, Sound
  <2>2. upgrade' \in BOOLEAN /\ cached' \in BOOLEAN /\ pc' \in {"hit", "miss"}
    BY DEF Arrive
  <2>3. QED
    BY <2>1, <2>2 DEF IInv, Arrive, TypeOK, config
<1>3. UNCHANGED <<sendfile, disk, entry>> /\ pc' \in {"hit", "miss"} /\ (pc' = "hit" => entry # NoEntry)
  BY DEF Arrive, config
<1>4. entry' # NoEntry => Faithful(entry)'
  BY <1>3 DEF IInv, Faithful
<1>5. Sound(w)' /\ Unanswered(w)'
  BY <1>1 DEF Unanswered, Sound
<1>6. QED
  BY <1>2, <1>3, <1>4, <1>5 DEF IInv, GetsPromised

\* A step within a request.
LEMMA TypeKept ==
  ASSUME IInv, UNCHANGED <<config, entry, cached, upgrade>>,
         pc' \in {"informed", "body", "handled", "aborted", "served", "recovered", "hijacked", "lost"},
         Sound(w'), rest' \in Seq({Chunk}), meant' \in Answers \cup {NoEntry}
  PROVE  TypeOK' /\ Sound(w)' /\ (entry' # NoEntry => Faithful(entry)')
<1>1. w' \in WriterType /\ Sound(w)'
  BY DEF Sound
<1>2. TypeOK'
  BY <1>1 DEF IInv, TypeOK, config
<1>3. entry' # NoEntry => Faithful(entry)'
  BY DEF IInv, Faithful, config
<1>4. QED
  BY <1>1, <1>2, <1>3

LEMMA ReplayStep == WritersAssumption /\ IInv /\ Replay => IInv'
<1> SUFFICES ASSUME WritersAssumption, IInv, Replay PROVE IInv'
  OBVIOUS
<1> DEFINE a == entry.of
           v == CopyHeaders(w, a.file, a.status)
<1>1. /\ a \in Answers /\ (a.file # NoFile => sendfile) /\ Unanswered(w)
      /\ entry.status = a.status /\ entry.file = a.file /\ entry.body = a.body
      /\ meant' = a /\ pc' = "handled" /\ UNCHANGED <<config, entry, cached, upgrade, rest>>
      /\ w' = IF a.body = <<>> THEN v ELSE SendfileWrite(v, a.body)
      /\ sendfile \in BOOLEAN /\ rest \in Seq({Chunk})
  BY DEF IInv, Faithful, Replay, TypeOK
<1>2. Sound(v) /\ Carries(v, a, a.body)
  BY <1>1, HeadersCarry
<1> HIDE DEF a, v
<1>3. a.body \in Seq({Chunk}) /\ <<>> \in Seq({Chunk}) /\ a.body \o <<>> = a.body
  BY <1>1, AnswerFields, ConcatEmptySeq
<1>4. Sound(w') /\ Carries(w', a, <<>>)
  <2>1. CASE a.body = <<>>
    BY <1>1, <1>2, <2>1
  <2>2. CASE a.body # <<>>
    <3>1. Carries(v, a, a.body \o <<>>)
      BY <1>2, <1>3
    <3>2. QED
      BY <1>1, <1>2, <1>3, <2>2, <3>1, PiecesCarry
  <2>3. QED
    BY <2>1, <2>2
<1>5. Carries(w, meant, <<>>)'
  BY <1>1, <1>4 DEF Carries, FileResult, Pending, Redirecting, config
<1>6. TypeOK' /\ Sound(w)' /\ (entry' # NoEntry => Faithful(entry)')
  BY <1>1, <1>4, TypeKept
<1>7. QED
  BY <1>1, <1>5, <1>6 DEF IInv, GetsPromised, config

LEMMA InformStep == WritersAssumption /\ IInv /\ Inform => IInv'
<1> SUFFICES ASSUME WritersAssumption, IInv, Inform PROVE IInv'
  OBVIOUS
<1>1. /\ Unanswered(w) /\ sendfile \in BOOLEAN /\ rest \in Seq({Chunk})
      /\ meant \in Answers \cup {NoEntry} /\ pc' = "informed"
      /\ w' = CopyHeaders(w, NoFile, EarlyHints)
      /\ UNCHANGED <<config, entry, cached, upgrade, rest, meant>>
  BY DEF IInv, Inform, TypeOK
<1>2. Sound(w') /\ ~w'.sendingFile /\ ~w'.written
  BY <1>1, HeadersCopied DEF EarlyHints
<1>3. TypeOK' /\ Sound(w)' /\ (entry' # NoEntry => Faithful(entry)')
  BY <1>1, <1>2, TypeKept
<1>4. QED
  BY <1>1, <1>2, <1>3 DEF IInv, Unanswered, GetsPromised

LEMMA RespondStep == WritersAssumption /\ IInv /\ Respond => IInv'
<1> SUFFICES ASSUME WritersAssumption, IInv, Respond PROVE IInv'
  OBVIOUS
<1>1. PICK a \in Answers :
        /\ a.file # NoFile => sendfile
        /\ meant' = a /\ rest' = a.body
        /\ w' = CopyHeaders(w, a.file, a.status)
        /\ copy' = [status |-> a.status, file |-> a.file, body |-> <<>>]
  BY DEF Respond
<1>2. /\ Unanswered(w) /\ sendfile \in BOOLEAN
      /\ pc' = "body" /\ UNCHANGED <<config, entry, cached, upgrade>>
  BY DEF IInv, Respond, TypeOK
<1>3. Sound(w') /\ Carries(w', a, a.body)
  BY <1>1, <1>2, HeadersCarry
<1>4. a.body \in Seq({Chunk}) /\ <<>> \in Seq({Chunk}) /\ <<>> \o a.body = a.body
  BY AnswerFields, ConcatEmptySeq
<1>5. Carries(w, meant, rest)' /\ CopyInv'
  BY <1>1, <1>2, <1>3, <1>4 DEF Carries, FileResult, Pending, Redirecting, CopyInv, config
<1>6. TypeOK' /\ Sound(w)' /\ (entry' # NoEntry => Faithful(entry)')
  BY <1>1, <1>2, <1>3, <1>4, TypeKept
<1>7. QED
  BY <1>1, <1>2, <1>5, <1>6 DEF IInv, GetsPromised, config

LEMMA WriteStep == WritersAssumption /\ IInv /\ Write => IInv'
<1> SUFFICES ASSUME WritersAssumption, IInv, Write PROVE IInv'
  OBVIOUS
<1> DEFINE x == <<Head(rest)>>
<1>1. /\ Sound(w) /\ Carries(w, meant, rest) /\ CopyInv /\ sendfile \in BOOLEAN
      /\ meant \in Answers /\ (meant.file # NoFile => sendfile)
      /\ rest \in Seq({Chunk}) /\ rest # <<>> /\ w' = SendfileWrite(w, x)
      /\ copy' = [copy EXCEPT !.body = Append(@, Head(rest))] /\ rest' = Tail(rest)
      /\ pc' = IF Refused(w) THEN "aborted" ELSE "body"
      /\ UNCHANGED <<config, entry, cached, upgrade, meant>>
  BY DEF IInv, Write, TypeOK
<1>2. x \in Seq({Chunk}) /\ Tail(rest) \in Seq({Chunk}) /\ rest = x \o Tail(rest)
  BY <1>1
<1>3. copy'.status = copy.status /\ copy'.file = copy.file /\ copy'.body = copy.body \o x
  BY <1>1 DEF CopyInv
<1> HIDE DEF x
<1>4. Sound(w') /\ Carries(w', meant, rest')
  BY <1>1, <1>2, PiecesCarry
<1>5. Carries(w, meant, rest)'
  BY <1>1, <1>4 DEF Carries, FileResult, Pending, Redirecting, config
<1>6. CopyInv'
  <2>1. ASSUME NEW s \in Seq({Chunk}) PROVE (s \o x) \o Tail(rest) = s \o (x \o Tail(rest))
    BY <1>2, ConcatAssociative
  <2>2. copy.body \o x \in Seq({Chunk})
    BY <1>1, <1>2, Appended DEF CopyInv
  <2>3. (copy.body \o x) \o Tail(rest) = meant.body
    BY <1>1, <1>2, <2>1 DEF CopyInv
  <2>4. QED
    BY <1>1, <1>3, <2>2, <2>3 DEF CopyInv
<1>7. TypeOK' /\ Sound(w)' /\ (entry' # NoEntry => Faithful(entry)')
  BY <1>1, <1>2, <1>4, TypeKept
<1>8. QED
  BY <1>1, <1>5, <1>6, <1>7 DEF IInv, GetsPromised, config

LEMMA FlushStep == WritersAssumption /\ IInv /\ Flush => IInv'
<1> SUFFICES ASSUME WritersAssumption, IInv, Flush PROVE IInv'
  OBVIOUS
<1>1. /\ Sound(w) /\ Carries(w, meant, rest) /\ CopyInv /\ pc' = "body"
      /\ meant \in Answers /\ (meant.file # NoFile => sendfile) /\ rest \in Seq({Chunk})
      /\ w' = GinWriteHeaderNow(w)
      /\ UNCHANGED <<config, entry, cached, upgrade, copy, rest, meant>>
  BY DEF IInv, Flush, TypeOK
<1>2. Sound(w') /\ Carries(w', meant, rest)
  BY <1>1, FlushCarry
<1>3. Carries(w, meant, rest)' /\ CopyInv'
  BY <1>1, <1>2 DEF Carries, FileResult, Pending, Redirecting, CopyInv, config
<1>4. TypeOK' /\ Sound(w)' /\ (entry' # NoEntry => Faithful(entry)')
  BY <1>1, <1>2, TypeKept
<1>5. QED
  BY <1>1, <1>3, <1>4 DEF IInv, GetsPromised, config

LEMMA BreakStep == IInv /\ Break => IInv'
<1> SUFFICES ASSUME IInv, Break PROVE IInv'
  OBVIOUS
<1>1. TypeOK' /\ Sound(w)' /\ (entry' # NoEntry => Faithful(entry)')
  BY TypeKept DEF IInv, Break, TypeOK
<1>2. QED
  BY <1>1 DEF IInv, Break, GetsPromised, config

\* What is stored is the answer it was made from, because the transfer is complete.
LEMMA FinishStep == WritersAssumption /\ IInv /\ Finish => IInv'
<1> SUFFICES ASSUME WritersAssumption, IInv, Finish PROVE IInv'
  OBVIOUS
<1>1. /\ TypeOK /\ Sound(w) /\ Carries(w, meant, <<>>) /\ CopyInv /\ pc' = "handled"
      /\ meant \in Answers /\ (meant.file # NoFile => sendfile) /\ rest = <<>>
      /\ UNCHANGED <<config, cached, upgrade, w, copy, rest, meant>>
  BY DEF IInv, Finish
<1>2. copy.body = meant.body
  BY <1>1, ConcatEmptySeq DEF CopyInv
<1>3. Faithful(Stored)
  BY <1>1, <1>2 DEF Faithful, Stored, CopyInv
<1>4. entry' # NoEntry => Faithful(entry')
  BY <1>1, <1>3 DEF Finish, IInv
<1>5. TypeOK'
  BY <1>1, <1>4 DEF TypeOK, Faithful, config
<1>6. Carries(w, meant, <<>>)' /\ Sound(w)' /\ (entry' # NoEntry => Faithful(entry)')
  BY <1>1, <1>4 DEF Carries, FileResult, Pending, Redirecting, Sound, Faithful, config
<1>7. QED
  BY <1>1, <1>5, <1>6 DEF IInv, GetsPromised, config

LEMMA HijackStep == WritersAssumption /\ IInv /\ Hijack => IInv'
<1> SUFFICES ASSUME WritersAssumption, IInv, Hijack PROVE IInv'
  OBVIOUS
<1>1. /\ Unanswered(w) /\ rest \in Seq({Chunk}) /\ meant \in Answers \cup {NoEntry}
      /\ w' = [w EXCEPT !.written = TRUE, !.status = Switching, !.statusCode = Switching]
      /\ pc' = "hijacked" /\ UNCHANGED <<config, entry, cached, upgrade, copy, rest, meant>>
  BY DEF IInv, Hijack, TypeOK
<1>2. w' \in WriterType
  <2>1. Switching \in Nat \ {0}
    BY DEF Switching
  <2>2. QED
    BY <1>1, <2>1 DEF Unanswered, Sound, WriterType
<1>3. Sound(w') /\ w'.written
  BY <1>1, <1>2 DEF Unanswered, Sound, WriterType
<1>4. TypeOK' /\ Sound(w)' /\ (entry' # NoEntry => Faithful(entry)')
  BY <1>1, <1>3, TypeKept
<1>5. QED
  BY <1>1, <1>3, <1>4 DEF IInv, GetsPromised

\* gin completes what nobody has written, and only then adds a page of its own.
LEMMA CompleteStep == WritersAssumption /\ IInv /\ Complete => IInv'
<1> SUFFICES ASSUME WritersAssumption, IInv, Complete PROVE IInv'
  OBVIOUS
<1>1. /\ Sound(w) /\ Carries(w, meant, <<>>) /\ pc' = "served"
      /\ meant \in Answers /\ (meant.file # NoFile => sendfile) /\ rest \in Seq({Chunk})
      /\ w' = IF ~w.written /\ w.ginStatus = NotFound THEN GinWrite(w, <<NoRoute>>)
              ELSE GinWriteHeaderNow(w)
      /\ UNCHANGED <<config, entry, cached, upgrade, copy, rest, meant>>
  BY DEF IInv, Complete, TypeOK
<1>2. /\ meant.body \in Seq({Chunk})
      /\ meant.file = NoFile => w.body = meant.body
  BY <1>1, AnswerFields, ConcatEmptySeq DEF Carries
<1>3. Sound(w') /\ w'.written /\ <<w'.status, w'.body>> \in Promised(meant)
  <2>1. CASE ~w.written /\ w.ginStatus = NotFound
    <3>1. /\ meant.file = NoFile /\ meant.status = NotFound
          /\ w.body = <<>> /\ meant.body = <<>>
      <4>1. meant.file = NoFile
        BY <1>1, <2>1 DEF Carries, Redirecting, Moved, NotFound
      <4>2. QED
        BY <1>1, <1>2, <2>1, <4>1 DEF Carries, Pending, Sound
    <3> DEFINE page == <<NoRoute>>
    <3>2. page \in Seq(Pieces) /\ Len(page) = 1 /\ w.ginStatus # 0
      BY <2>1, OnePiece DEF Pieces, NotFound
    <3> HIDE DEF page
    <3>3. /\ Sound(GinWrite(w, page)) /\ GinWrite(w, page).written
          /\ GinWrite(w, page).status = NotFound /\ GinWrite(w, page).body = w.body \o page
      BY <1>1, <2>1, <3>1, <3>2, WriteGin
    <3>4. w.body \o page = page
      BY <3>1, <3>2, ConcatEmptySeq
    <3>5. w' = GinWrite(w, page)
      BY <1>1, <2>1 DEF page
    <3>6. QED
      BY <3>1, <3>3, <3>4, <3>5 DEF Promised, page
  <2>2. CASE w.written \/ w.ginStatus # NotFound
    <3>1. Sound(w') /\ w'.written /\ Carries(w', meant, <<>>)
      BY <1>1, <2>2, FlushCarry
    <3>2. CASE meant.file # NoFile
      BY <3>1, <3>2 DEF Carries, Pending, Promised
    <3>3. CASE meant.file = NoFile
      <4>1. w'.status = meant.status /\ w'.body = meant.body
        BY <3>1, <3>3, ConcatEmptySeq DEF Carries, Pending
      <4>2. <<meant.status, meant.body>> \in Promised(meant)
        BY <3>3 DEF Promised
      <4>3. QED
        BY <3>1, <4>1, <4>2
    <3>4. QED
      BY <3>2, <3>3
  <2>3. QED
    BY <2>1, <2>2
<1>4. TypeOK' /\ Sound(w)' /\ (entry' # NoEntry => Faithful(entry)')
  BY <1>1, <1>3, TypeKept
<1>5. GetsPromised'
  BY <1>1, <1>3 DEF GetsPromised, Promised, FileResult, config
<1>6. QED
  BY <1>1, <1>3, <1>4, <1>5 DEF IInv, config

LEMMA PanicStep == WritersAssumption /\ IInv /\ Panic => IInv'
<1> SUFFICES ASSUME WritersAssumption, IInv, Panic PROVE IInv'
  OBVIOUS
<1>1. /\ Sound(w) /\ rest \in Seq({Chunk}) /\ meant \in Answers \cup {NoEntry}
      /\ pc' \in {"lost", "recovered"} /\ UNCHANGED <<config, entry, cached, upgrade, copy, rest, meant>>
  BY DEF IInv, Panic, TypeOK
<1>2. Sound(w') /\ (pc' = "recovered" => w'.written)
  <2>1. CASE pc' = "lost" /\ UNCHANGED w
    BY <1>1, <2>1
  <2>2. CASE w' = GinWriteHeaderNow(GinWriteHeader(w, ServerError))
    <3> DEFINE v == GinWriteHeader(w, ServerError)
    <3>1. ServerError \in Nat /\ ServerError # 0
      BY DEF ServerError
    <3>2. Sound(v) /\ (v.written \/ v.ginStatus # 0)
      BY <1>1, <3>1, WriteHeaderGin
    <3> HIDE DEF v
    <3>3. Sound(GinWriteHeaderNow(v)) /\ GinWriteHeaderNow(v).written
      BY <3>2, WriteHeaderNow
    <3>4. QED
      BY <2>2, <3>3 DEF v
  <2>3. QED
    BY <2>1, <2>2 DEF Panic
<1>3. TypeOK' /\ Sound(w)' /\ (entry' # NoEntry => Faithful(entry)')
  BY <1>1, <1>2, TypeKept
<1>4. QED
  BY <1>1, <1>2, <1>3 DEF IInv, GetsPromised

LEMMA NextIInv == WritersAssumption /\ IInv /\ [Next]_vars => IInv'
<1> SUFFICES ASSUME WritersAssumption, IInv, [Next]_vars PROVE IInv'
  OBVIOUS
<1>1. CASE Next
  BY <1>1, ArriveStep, ReplayStep, InformStep, RespondStep, WriteStep, FlushStep, BreakStep,
     FinishStep, HijackStep, CompleteStep, PanicStep DEF Next
<1>2. CASE UNCHANGED vars
  BY <1>2 DEF vars, config, IInv, TypeOK, Sound, Faithful, Unanswered, Carries, FileResult, Pending,
     Redirecting, CopyInv, GetsPromised, Promised
<1>3. QED
  BY <1>1, <1>2

LEMMA Invariance == Spec => []IInv
<1>1. QED
  BY InitIInv, NextIInv, WritersAssumption, PTL DEF Spec

-----------------------------------------------------------------------------
(***************************************************************************)
(* Theorems                                                                *)
(***************************************************************************)

\* Every variable keeps its type, for any files, answers and bodies.
THEOREM TypeInvariant == Spec => []TypeOK
<1>1. IInv => TypeOK
  BY DEF IInv
<1>2. QED
  BY <1>1, Invariance, PTL

\* A response that is served to its end is the one the application meant, whoever
\* wrote it: the application, the cache, the sendfile writer or gin.
THEOREM GetsPromisedHolds == Spec => []GetsPromised
<1>1. IInv => GetsPromised
  BY DEF IInv
<1>2. QED
  BY <1>1, Invariance, PTL

\* A client is never given a file and a piece of a body, nor a file twice.
THEOREM NothingMixedHolds == Spec => []NothingMixed
<1>1. IInv => NothingMixed
  <2> SUFFICES ASSUME IInv PROVE NothingMixed
    OBVIOUS
  <2>1. w.body \in Seq(Pieces) /\ (w.body \in Seq({Chunk}) \/ Len(w.body) = 1)
    BY DEF IInv, Sound, WriterType
  <2>2. CASE w.body \in Seq({Chunk})
    BY <2>2 DEF NothingMixed
  <2>3. CASE Len(w.body) = 1
    BY <2>1, <2>3 DEF NothingMixed
  <2>4. QED
    BY <2>1, <2>2, <2>3
<1>2. QED
  BY <1>1, Invariance, PTL

\* The request log has the status and the length of what the client got.
THEOREM LogAddsUpHolds == Spec => []LogAddsUp
<1>1. IInv => LogAddsUp
  BY DEF IInv, Sound, LogAddsUp
<1>2. QED
  BY <1>1, Invariance, PTL

\* No client sees the path of a file.
THEOREM PathStaysInsideHolds == Spec => []PathStaysInside
<1>1. IInv => PathStaysInside
  BY DEF IInv, Sound, PathStaysInside
<1>2. QED
  BY <1>1, Invariance, PTL

=============================================================================
