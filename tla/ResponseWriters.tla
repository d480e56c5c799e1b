--------------------------- MODULE ResponseWriters ---------------------------
(***************************************************************************)
(* A response on its way to the client through the stack of writers:       *)
(*                                                                         *)
(*   reverse proxy -> CacheableResponse -> sendfileWriter -> gin's writer  *)
(*                 -> responseRecorder -> connection                       *)
(*                                                                         *)
(* Each of them keeps its own idea of the status and of whether the header *)
(* has been written, and each may answer in place of the one before it:    *)
(* the cache with an entry, the sendfile writer with a file, gin with a    *)
(* page of its own.  The writers of one response are one record, and a     *)
(* call of WriteHeader or Write is an operator on it that makes the calls  *)
(* the code makes further down.                                            *)
(***************************************************************************)
EXTENDS Integers, Sequences

CONSTANTS
  Files, NoFile,  \* the paths X-Sendfile may name, and the absence of the header
  Answers,        \* what the Rails application may answer (records, see AnswerType)
  NoEntry         \* nothing is stored

Ok == 200
Moved == 301
BadRequest == 400
NotFound == 404
EarlyHints == 103
Switching == 101
ServerError == 500

\* Pieces of a body: those of the application, a file's content, pages for errors.
Chunk == "chunk"
Content == "content"
NoSuchFile == "no such file"
InvalidPath == "invalid URL path"
NoRoute == "no route"
Pieces == {Chunk, Content, NoSuchFile, InvalidPath, NoRoute}

\* What http.ServeFile looks at in the path of a request: whether it has ".." in it, and
\* else whether it ends in /index.html.
Paths == {"plain", "index", "dotdot"}

\* A final status has three digits; those below 200 are hints, or switch the protocol.
AnswerType == [status : 200..999, file : Files \cup {NoFile}, body : Seq({Chunk}), public : BOOLEAN]

ASSUME WritersAssumption ==
  /\ NoFile \notin Files
  /\ Answers \subseteq AnswerType
  /\ NoEntry \notin [status : Nat, file : Files \cup {NoFile}, body : Seq({Chunk}), of : Answers]

VARIABLES
  sendfile, caching,  \* the configuration; never changes
  disk,               \* the files that exist; never changes
  path,               \* the path of the resource asked for; never changes
  entry,              \* what the cache has for the resource asked for
  pc,                 \* where the handling of the request is
  cached,             \* whether the answer is recorded for the cache
  upgrade,            \* whether it asks for another protocol
  w,                  \* the writers
  copy,               \* what CacheableResponse has recorded
  rest,               \* pieces of the answer that are still to come
  meant               \* history: the answer this response is made from

config == <<sendfile, caching, disk, path>>
vars == <<config, entry, pc, cached, upgrade, w, copy, rest, meant>>

-----------------------------------------------------------------------------
(***************************************************************************)
(* The writers, from the connection upwards                                *)
(***************************************************************************)

\* Mutated form: the recorder starts with no status.
ZeroFresh ==
  [header |-> NoFile, headerWritten |-> FALSE, sendingFile |-> FALSE,
   ginStatus |-> NotFound, written |-> FALSE, statusCode |-> 0, bytesWritten |-> 0,
   status |-> 0, leaked |-> FALSE, body |-> <<>>]

\* gin calls the handler of NoRoute with 404 already set.
Fresh ==
  [header |-> NoFile,                               \* X-Sendfile in the shared header
   headerWritten |-> FALSE, sendingFile |-> FALSE,  \* sendfileWriter
   ginStatus |-> NotFound, written |-> FALSE,       \* gin's writer
   statusCode |-> Ok, bytesWritten |-> 0,           \* responseRecorder
   status |-> 0, leaked |-> FALSE, body |-> <<>>]   \* the client

RecorderWriteHeader(v, status) ==
  [v EXCEPT !.statusCode = status, !.status = status, !.leaked = (v.header # NoFile)]

RecorderWrite(v, pieces) ==
  [v EXCEPT !.bytesWritten = @ + Len(pieces), !.body = @ \o pieces]

\* gin keeps the status back until something is written.
GinWriteHeader(v, status) == IF v.written THEN v ELSE [v EXCEPT !.ginStatus = status]

GinWriteHeaderNow(v) ==
  IF v.written THEN v ELSE RecorderWriteHeader([v EXCEPT !.written = TRUE], v.ginStatus)

GinWrite(v, pieces) == RecorderWrite(GinWriteHeaderNow(v), pieces)

\* Mutated form: what http.ServeFile does with the path of the request is not looked at.
BlindServeFile(v, file) ==
  IF file \in disk THEN GinWrite(GinWriteHeader(v, Ok), <<Content>>)
  ELSE GinWrite(GinWriteHeader(v, NotFound), <<NoSuchFile>>)

\* http.ServeFile refuses the one kind of path, and redirects the other to "./" without
\* writing a body.
ServeFile(v, file) ==
  IF path = "dotdot" THEN GinWrite(GinWriteHeader(v, BadRequest), <<InvalidPath>>)
  ELSE IF path = "index" THEN GinWriteHeader(v, Moved)
  ELSE IF file \in disk THEN GinWrite(GinWriteHeader(v, Ok), <<Content>>)
  ELSE GinWrite(GinWriteHeader(v, NotFound), <<NoSuchFile>>)

\* Mutated form: the header that names the file stays.
LeakySendfileWriteHeader(v, status) ==
  LET u == [v EXCEPT !.sendingFile = (v.header # NoFile), !.headerWritten = TRUE]
  IN  IF ~sendfile THEN GinWriteHeader(v, status)
      ELSE IF u.sendingFile THEN ServeFile(u, v.header) ELSE GinWriteHeader(u, status)

SendfileWriteHeader(v, status) ==
  LET u == [v EXCEPT !.header = NoFile, !.sendingFile = (v.header # NoFile),
                     !.headerWritten = TRUE]
  IN  IF ~sendfile THEN GinWriteHeader(v, status)
      ELSE IF u.sendingFile THEN ServeFile(u, v.header) ELSE GinWriteHeader(u, status)

\* The implicit WriteHeader of a Write.
WithHeader(v) == IF sendfile /\ ~v.headerWritten THEN SendfileWriteHeader(v, Ok) ELSE v

\* Mutated form: the body follows the file.
MixingSendfileWrite(v, pieces) == GinWrite(WithHeader(v), pieces)

SendfileWrite(v, pieces) ==
  IF WithHeader(v).sendingFile THEN WithHeader(v) ELSE GinWrite(WithHeader(v), pieces)

\* The error the caller of Write is given.
Refused(v) == WithHeader(v).sendingFile

\* copyHeaders: the headers are added to those of the writer below.  Without a cache
\* the proxy sets them there itself.
CopyHeaders(v, file, status) ==
  SendfileWriteHeader(IF file = NoFile THEN v ELSE [v EXCEPT !.header = file], status)

-----------------------------------------------------------------------------
NoCopy == [status |-> Ok, file |-> NoFile, body |-> <<>>]

WriterType ==
  [header : Files \cup {NoFile}, headerWritten : BOOLEAN, sendingFile : BOOLEAN,
   ginStatus : Nat, written : BOOLEAN, statusCode : Nat \ {0}, bytesWritten : Nat,
   status : Nat, leaked : BOOLEAN, body : Seq(Pieces)]

TypeOK ==
  /\ sendfile \in BOOLEAN /\ caching \in BOOLEAN /\ disk \subseteq Files /\ path \in Paths
  /\ entry = NoEntry \/ entry.of \in Answers
  /\ pc \in {"idle", "hit", "miss", "informed", "body", "handled", "aborted", "served",
             "recovered", "hijacked", "lost"}
  /\ cached \in BOOLEAN /\ upgrade \in BOOLEAN
  /\ w \in WriterType
  /\ meant = NoEntry \/ meant \in Answers
  /\ rest \in Seq({Chunk})

Init ==
  /\ sendfile \in BOOLEAN /\ caching \in BOOLEAN /\ disk \in SUBSET Files /\ path \in Paths
  /\ entry = NoEntry /\ pc = "idle" /\ cached = FALSE /\ upgrade = FALSE
  /\ w = Fresh /\ copy = NoCopy /\ rest = <<>> /\ meant = NoEntry

\* A request passes LogRequests and the router and reaches SendfileHandler.  The cache is
\* asked before the request is judged: a hit answers an upgrade, too, or a Range.
Arrive ==
  /\ pc \in {"idle", "served", "recovered", "hijacked", "lost"}
  /\ upgrade' \in BOOLEAN
  /\ cached' \in IF caching /\ ~upgrade' THEN BOOLEAN ELSE {FALSE}
  /\ w' = Fresh /\ copy' = NoCopy /\ rest' = <<>> /\ meant' = NoEntry
  /\ pc' \in IF caching /\ entry # NoEntry THEN {"hit", "miss"} ELSE {"miss"}
  /\ UNCHANGED <<config, entry>>

\* WriteCachedResponse; an error of the copy is ignored.
Replay ==
  /\ pc = "hit"
  /\ LET v == CopyHeaders(w, entry.file, entry.status)
     IN  w' = IF entry.body = <<>> THEN v ELSE SendfileWrite(v, entry.body)
  /\ meant' = entry.of /\ pc' = "handled"
  /\ UNCHANGED <<config, entry, cached, upgrade, copy, rest>>

\* Early hints are handed on by the reverse proxy like any status.
Inform ==
  /\ pc = "miss"
  /\ w' = CopyHeaders(w, NoFile, EarlyHints)
  /\ copy' = [copy EXCEPT !.status = EarlyHints]
  /\ pc' = "informed"
  /\ UNCHANGED <<config, entry, cached, upgrade, rest, meant>>

\* The application names files only if it has been sent X-Sendfile-Type.
Respond ==
  /\ pc \in {"miss", "informed"}
  /\ \E a \in Answers :
       /\ a.file # NoFile => sendfile
       /\ meant' = a /\ rest' = a.body
       /\ w' = CopyHeaders(w, a.file, a.status)
       /\ copy' = [status |-> a.status, file |-> a.file, body |-> <<>>]
  /\ pc' = "body"
  /\ UNCHANGED <<config, entry, cached, upgrade>>

\* The copy keeps a piece even if the writer below refuses it, but a refusal ends the
\* transfer.
Write ==
  /\ pc = "body" /\ rest # <<>>
  /\ w' = SendfileWrite(w, <<Head(rest)>>)
  /\ copy' = [copy EXCEPT !.body = Append(@, Head(rest))]
  /\ rest' = Tail(rest)
  /\ pc' = IF Refused(w) THEN "aborted" ELSE "body"
  /\ UNCHANGED <<config, entry, cached, upgrade, meant>>

Flush ==
  /\ pc = "body"
  /\ w' = GinWriteHeaderNow(w)
  /\ UNCHANGED <<config, entry, pc, cached, upgrade, copy, rest, meant>>

\* The connection to the application breaks.
Break ==
  /\ pc = "body" /\ pc' = "aborted"
  /\ UNCHANGED <<config, entry, cached, upgrade, w, copy, rest, meant>>

\* Mutated form: the headers are taken from the writer below.
StrippedStored == [status |-> copy.status, file |-> w.header, body |-> copy.body, of |-> meant]

\* The headers of the copy, X-Sendfile among them.
Stored == [status |-> copy.status, file |-> copy.file, body |-> copy.body, of |-> meant]

\* The transfer is complete; what may be kept is stored.
Finish ==
  /\ pc = "body" /\ rest = <<>>
  /\ entry' = IF cached /\ meant.public /\ copy.status \in 200..399 THEN Stored ELSE entry
  /\ pc' = "handled"
  /\ UNCHANGED <<config, cached, upgrade, w, copy, rest, meant>>

\* Mutated form: the recorder does not notice.
SilentHijack ==
  /\ pc = "miss" /\ upgrade
  /\ w' = [w EXCEPT !.written = TRUE, !.status = Switching]
  /\ pc' = "hijacked"
  /\ UNCHANGED <<config, entry, cached, upgrade, copy, rest, meant>>

\* The proxy takes over the connection and writes the 101 to it directly.
Hijack ==
  /\ pc = "miss" /\ upgrade
  /\ w' = [w EXCEPT !.written = TRUE, !.status = Switching, !.statusCode = Switching]
  /\ pc' = "hijacked"
  /\ UNCHANGED <<config, entry, cached, upgrade, copy, rest, meant>>

\* Back in gin: a 404 without a body is given one, every other status is written.
Complete ==
  /\ pc = "handled" /\ pc' = "served"
  /\ w' = IF ~w.written /\ w.ginStatus = NotFound THEN GinWrite(w, <<NoRoute>>)
          ELSE GinWriteHeaderNow(w)
  /\ UNCHANGED <<config, entry, cached, upgrade, copy, rest, meant>>

\* The panic of an aborted transfer passes, or a middleware turns it into a 500.
Panic ==
  /\ pc = "aborted"
  /\ \/ pc' = "lost" /\ UNCHANGED w
     \/ pc' = "recovered" /\ w' = GinWriteHeaderNow(GinWriteHeader(w, ServerError))
  /\ UNCHANGED <<config, entry, cached, upgrade, copy, rest, meant>>

Next ==
  \/ Arrive \/ Replay \/ Inform \/ Respond \/ Write \/ Flush \/ Break
  \/ Finish \/ Hijack \/ Complete \/ Panic

Spec == Init /\ [][Next]_vars

-----------------------------------------------------------------------------
(***************************************************************************)
(* Properties                                                              *)
(***************************************************************************)

\* What becomes of a file that is named: the client gets it, unless there is none or the
\* request is one that http.ServeFile does not serve files to.
FileResult(file) ==
  IF path = "dotdot" THEN <<BadRequest, <<InvalidPath>>>>
  ELSE IF path = "index" THEN <<Moved, <<>>>>
  ELSE IF file \in disk THEN <<Ok, <<Content>>>>
  ELSE <<NotFound, <<NoSuchFile>>>>

\* What a client gets from an answer: what becomes of the file it names, or its own
\* body; gin gives an empty 404 a page unless it has been flushed.
Promised(a) ==
  CASE a.file # NoFile -> {FileResult(a.file)}
    [] a.file = NoFile /\ a.status = NotFound /\ a.body = <<>> ->
         {<<NotFound, <<>>>>, <<NotFound, <<NoRoute>>>>}
    [] OTHER -> {<<a.status, a.body>>}

\* A response that is served to its end is the one the application meant, with the
\* file it named, whether it comes from the application or from the cache, whether or
\* not early hints have gone before it, and whatever the request asked for besides.
\* Two kinds of requests do not get the file that is named for them: those for a path
\* that ends in /index.html are redirected, and those with ".." in it are refused.
GetsPromised == pc = "served" => <<w.status, w.body>> \in Promised(meant)

\* At no moment, not even in a transfer that is broken off, has the client been given
\* a file and a piece of a body, or a file twice.
NothingMixed ==
  \A i, j \in DOMAIN w.body : i # j => w.body[i] = Chunk /\ w.body[j] = Chunk

\* The request log tells what the client got: the status, also of a hijacked
\* connection, and the length of the body, whoever has written it.
LogAddsUp ==
  pc \in {"served", "recovered", "hijacked"} => w.statusCode = w.status /\ w.bytesWritten = Len(w.body)

\* No client sees the path of a file, although the header that names it is copied
\* down the stack with all others, and is stored with the response.
PathStaysInside == ~w.leaked

=============================================================================
