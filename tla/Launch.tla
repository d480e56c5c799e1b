------------------------------- MODULE Launch -------------------------------
(***************************************************************************)
(* From the configuration to a running pair of proxy and Rails process:    *)
(* CreateServices registers the reverse proxy, then sets up the upstream   *)
(* supervisor, whose Start splits the command line and builds the          *)
(* process's environment.  The proxy and the process are told where to     *)
(* meet in two different places, each with defaults of its own, and the    *)
(* configuration is changed in between.                                    *)
(***************************************************************************)
EXTENDS Integers, Sequences

CONSTANTS
  Configs,    \* the configurations (records, see ConfigType)
  NoURL,      \* proxy.targetURL is empty
  Runes       \* the characters of command lines

\* A URL is abstracted to its port, NoPort when it names none.
NoPort == -1
HttpPort == 80
DefaultPort == 3000

Space == " "
Escape == "\\"
Single == "'"
Double == "\""

Words == Seq(Seq(Runes))

ConfigType ==
  [proxy : BOOLEAN,                                 \* proxy.enabled
   url : [port : Nat \cup {NoPort}, valid : BOOLEAN] \cup {NoURL},
   upstream : BOOLEAN,                              \* upstream.enabled
   targetPort : Int,
   socket : BOOLEAN,                                \* whether targetBindSocket is set
   command : Seq(Runes), args : Words,
   written : Words,     \* history: the words a shell reads in the command line,
   cut : BOOLEAN,       \* whether the end of a quote is missing,
   kept : Words,        \* the words without what the program is known to drop,
   lost : BOOLEAN,      \* and whether there is any of that
   envPort : Nat,       \* PORT in upstream.env, 0 when not set
   osPort : Nat]        \* PORT in the program's own environment, 0 when not set

ASSUME LaunchAssumption ==
  /\ Configs \subseteq ConfigType
  /\ {Space, Escape, Single, Double} \subseteq Runes
  /\ NoURL \notin [port : Nat \cup {NoPort}, valid : BOOLEAN]

-----------------------------------------------------------------------------
(***************************************************************************)
(* Where the proxy connects to                                             *)
(***************************************************************************)

UpstreamURL(c) ==
  [port |-> IF c.targetPort = 0 THEN DefaultPort ELSE c.targetPort, valid |-> c.targetPort >= 0]

\* registerReverseProxy: the URL that is configured, or one made up for the socket
\* or for the port of the process.
TargetURL(c) ==
  CASE c.url # NoURL -> c.url
    [] c.url = NoURL /\ c.socket -> [port |-> NoPort, valid |-> TRUE]
    [] c.url = NoURL /\ ~c.socket /\ c.upstream -> UpstreamURL(c)
    [] OTHER -> NoURL

UsesSocket(c) == c.socket /\ (c.upstream \/ c.url = NoURL)

Tcp(port) == [net |-> "tcp", port |-> port]
Socket == [net |-> "unix", port |-> NoPort]
Nowhere == [net |-> "none", port |-> NoPort]

\* createProxyTransport dials the socket, or what the URL says.
Dialled(c) ==
  IF UsesSocket(c) THEN Socket
  ELSE Tcp(IF TargetURL(c).port = NoPort THEN HttpPort ELSE TargetURL(c).port)

-----------------------------------------------------------------------------
(***************************************************************************)
(* What the process is told                                                *)
(***************************************************************************)

\* Mutated form: the URL of the proxy is not consulted.
FixedDeriveTargetPort(url) == DefaultPort

DeriveTargetPort(url) ==
  IF url # NoURL /\ url.valid /\ url.port # NoPort THEN url.port ELSE DefaultPort

\* buildEnv: PORT of the environment, overridden by targetPort unless there is a
\* socket, overridden by upstream.env.
PortEnv(c, targetPort) ==
  CASE c.envPort # 0 -> c.envPort
    [] c.envPort = 0 /\ ~c.socket /\ targetPort > 0 -> targetPort
    [] OTHER -> c.osPort

-----------------------------------------------------------------------------
(***************************************************************************)
(* splitCommandLine                                                        *)
(***************************************************************************)

Fresh == [words |-> <<>>, current |-> <<>>, single |-> FALSE, double |-> FALSE, escape |-> FALSE]

Keep(s, r) == [s EXCEPT !.current = Append(@, r), !.escape = FALSE]

EndWord(s) ==
  IF s.current = <<>> THEN s
  ELSE [s EXCEPT !.words = Append(@, s.current), !.current = <<>>]

\* Mutated form: a backslash escapes inside single quotes, too.
EagerScan(s, r) ==
  CASE s.escape -> Keep(s, r)
    [] ~s.escape /\ r = Escape -> [s EXCEPT !.escape = TRUE]
    [] ~s.escape /\ r = Single /\ ~s.double -> [s EXCEPT !.single = ~@]
    [] ~s.escape /\ r = Double /\ ~s.single -> [s EXCEPT !.double = ~@]
    [] ~s.escape /\ r = Space /\ ~s.single /\ ~s.double -> EndWord(s)
    [] OTHER -> Keep(s, r)

\* One turn of the loop.
Scan(s, r) ==
  CASE s.escape -> Keep(s, r)
    [] ~s.escape /\ r = Escape /\ ~s.single -> [s EXCEPT !.escape = TRUE]
    [] ~s.escape /\ r = Single /\ ~s.double -> [s EXCEPT !.single = ~@]
    [] ~s.escape /\ r = Double /\ ~s.single -> [s EXCEPT !.double = ~@]
    [] ~s.escape /\ r = Space /\ ~s.single /\ ~s.double -> EndWord(s)
    [] OTHER -> Keep(s, r)

\* The turns of the loop, one for each character.
Scanning(command) ==
  LET scan[n \in 0..Len(command)] ==
        IF n = 0 THEN Fresh ELSE Scan(scan[n - 1], command[n])
  IN  scan

Scanned(command) == Scanning(command)[Len(command)]
Terminated(command) ==
  LET s == Scanned(command) IN ~s.escape /\ ~s.single /\ ~s.double
Split(command) == EndWord(Scanned(command)).words

-----------------------------------------------------------------------------
VARIABLES
  config,     \* the configuration as it was read; never changes
  pc,         \* what CreateServices or Start does next, or how it ended
  dial,       \* where the proxy connects to
  targetPort, \* cfg.Upstream.TargetPort, which CreateServices fills in
  argv,       \* command and arguments the process was started with
  port        \* PORT in its environment, 0 when not set

vars == <<config, pc, dial, targetPort, argv, port>>

Labels == {"proxy", "services", "start", "started", "alone", "fatal", "refused"}

Init ==
  /\ config \in Configs
  /\ pc = "proxy" /\ dial = Nowhere
  /\ targetPort = config.targetPort
  /\ argv = <<>> /\ port = 0

\* registerReverseProxy with the proxy turned off.
ProxyOff ==
  /\ pc = "proxy" /\ ~config.proxy
  /\ pc' = "services"
  /\ UNCHANGED <<config, dial, targetPort, argv, port>>

\* No target, or one that is no URL: logger.Fatal ends the program.
NoTarget ==
  /\ pc = "proxy" /\ config.proxy
  /\ IF TargetURL(config) = NoURL THEN TRUE ELSE ~TargetURL(config).valid
  /\ pc' = "fatal"
  /\ UNCHANGED <<config, dial, targetPort, argv, port>>

RegisterReverseProxy ==
  /\ pc = "proxy" /\ config.proxy
  /\ TargetURL(config) # NoURL /\ TargetURL(config).valid
  /\ dial' = Dialled(config)
  /\ pc' = "services"
  /\ UNCHANGED <<config, targetPort, argv, port>>

UpstreamOff ==
  /\ pc = "services" /\ ~config.upstream
  /\ pc' = "alone"
  /\ UNCHANGED <<config, dial, targetPort, argv, port>>

NoCommand ==
  /\ pc = "services" /\ config.upstream /\ config.command = <<>>
  /\ pc' = "fatal"
  /\ UNCHANGED <<config, dial, targetPort, argv, port>>

CreateUpstream ==
  /\ pc = "services" /\ config.upstream /\ config.command # <<>>
  /\ targetPort' = IF ~config.socket /\ targetPort = 0 THEN DeriveTargetPort(config.url)
                   ELSE targetPort
  /\ pc' = "start"
  /\ UNCHANGED <<config, dial, argv, port>>

\* Start, up to cmd.Start: a command line that does not end, or has no words.
RefuseCommand ==
  /\ pc = "start"
  /\ ~Terminated(config.command) \/ Split(config.command) = <<>>
  /\ pc' = "refused"
  /\ UNCHANGED <<config, dial, targetPort, argv, port>>

StartUpstream ==
  /\ pc = "start"
  /\ Terminated(config.command) /\ Split(config.command) # <<>>
  /\ argv' = Split(config.command) \o config.args
  /\ port' = PortEnv(config, targetPort)
  /\ pc' = "started"
  /\ UNCHANGED <<config, dial, targetPort>>

Rest == pc \in {"started", "alone", "fatal", "refused"} /\ UNCHANGED vars

Next ==
  \/ ProxyOff \/ NoTarget \/ RegisterReverseProxy
  \/ UpstreamOff \/ NoCommand \/ CreateUpstream
  \/ RefuseCommand \/ StartUpstream \/ Rest

Spec == Init /\ [][Next]_vars

-----------------------------------------------------------------------------
(***************************************************************************)
(* Properties                                                              *)
(***************************************************************************)

\* The port a URL stands for, and the configurations that do not name two different
\* places themselves.
UrlPort(url) == IF url.port = NoPort THEN HttpPort ELSE url.port

NamesOnePlace(c) ==
  /\ c.envPort = 0
  /\ c.url # NoURL => UrlPort(c.url) > 0 /\ c.targetPort \in {0, UrlPort(c.url)}

\* Nothing tells the process where to listen but a URL without a port.
PortLeftOut(c) == ~c.socket /\ c.targetPort = 0 /\ c.url # NoURL /\ c.url.port = NoPort

\* The process listens on its socket, or on the port in its environment.
ListensOn(c) == IF c.socket THEN Socket ELSE Tcp(port)

\* Where the proxy and the process meet: the proxy connects to where the process has
\* been told to listen, whatever PORT the program itself was started with, and although
\* the proxy is registered before targetPort is filled in.  There is one configuration
\* that names one place and is not understood so, the URL without a port: the proxy
\* goes to 80, and deriveTargetPort tells the process 3000.
ProxyReachesUpstream ==
  pc = "started" /\ config.proxy /\ NamesOnePlace(config) =>
    IF PortLeftOut(config) THEN dial = Tcp(HttpPort) /\ port = DefaultPort
    ELSE dial = ListensOn(config)

-----------------------------------------------------------------------------
(***************************************************************************)
(* How a shell reads a command line, and what the program is known to drop *)
(* of it.  A hand goes along the line, one character after another.  It is *)
(* in a word as the shell reads it (word, typed) and as the program keeps  *)
(* it (place, took), between or inside of quotes.  What a shell expands or *)
(* acts upon, variables say, is not among the runes.                       *)
(***************************************************************************)

Hands(c) ==
  [word : 1..(Len(c.written) + 1), typed : Nat, place : 1..(Len(c.kept) + 1), took : Nat,
   open : {"none", "single", "double"}, escaped : BOOLEAN, begun : BOOLEAN, lost : BOOLEAN]

FirstHand ==
  [word |-> 1, typed |-> 0, place |-> 1, took |-> 0,
   open |-> "none", escaped |-> FALSE, begun |-> FALSE, lost |-> FALSE]

\* The characters that have to be escaped, or cannot be typed, in a quote.
Special(open) ==
  CASE open = "none" -> {Space, Escape, Single, Double}
    [] open = "single" -> {Single}
    [] open = "double" -> {Escape, Double}

Backslash(h, r, k) ==
  /\ ~h.escaped /\ r = Escape /\ h.open # "single"
  /\ k = [h EXCEPT !.escaped = TRUE, !.begun = TRUE]

\* The shell's word goes on with the runes read, the kept one with r.
Goes(c, h, read, r, k) ==
  /\ h.word <= Len(c.written) /\ h.typed + Len(read) <= Len(c.written[h.word])
  /\ \A i \in 1..Len(read) : c.written[h.word][h.typed + i] = read[i]
  /\ h.place <= Len(c.kept) /\ h.took < Len(c.kept[h.place])
  /\ c.kept[h.place][h.took + 1] = r
  /\ k = [h EXCEPT !.typed = @ + Len(read), !.took = @ + 1, !.escaped = FALSE,
                   !.begun = TRUE, !.lost = @ \/ Len(read) # 1]

NextRune(c, h, r, k) ==
  /\ ~h.escaped => r \notin Special(h.open)
  /\ h.escaped /\ h.open = "double" => r \in Special(h.open)
  /\ Goes(c, h, <<r>>, r, k)

\* Between double quotes a backslash before any other character is one of the word; the
\* program drops it.
StrayBackslash(c, h, r, k) ==
  /\ h.escaped /\ h.open = "double" /\ r \notin Special(h.open)
  /\ Goes(c, h, <<Escape, r>>, r, k)

QuoteMark(h, r, k) ==
  /\ ~h.escaped
  /\ \/ /\ r = Single /\ h.open # "double"
        /\ k = [h EXCEPT !.open = IF @ = "single" THEN "none" ELSE "single", !.begun = TRUE]
     \/ /\ r = Double /\ h.open # "single"
        /\ k = [h EXCEPT !.open = IF @ = "double" THEN "none" ELSE "double", !.begun = TRUE]

\* The end of a word.  An empty one, which somebody has quoted, the program drops.
Whole(c, h) ==
  /\ h.word <= Len(c.written) /\ h.typed = Len(c.written[h.word])
  /\ h.took # 0 => h.place <= Len(c.kept) /\ h.took = Len(c.kept[h.place])

Ended(h) ==
  [h EXCEPT !.word = @ + 1, !.typed = 0, !.place = IF h.took = 0 THEN @ ELSE @ + 1, !.took = 0,
            !.begun = FALSE, !.lost = @ \/ h.took = 0]

\* A space after a word, and any number of them before the next.
Gap(c, h, r, k) ==
  /\ ~h.escaped /\ h.open = "none" /\ r = Space
  /\ \/ ~h.begun /\ k = h
     \/ h.begun /\ Whole(c, h) /\ k = Ended(h)

Types(c, h, r, k) ==
  \/ Backslash(h, r, k) \/ NextRune(c, h, r, k) \/ StrayBackslash(c, h, r, k)
  \/ QuoteMark(h, r, k) \/ Gap(c, h, r, k)

Open(h) == h.escaped \/ h.open # "none"

\* All words are there, with or without spaces after the last.
Complete(c, h) ==
  LET e == IF h.begun THEN Ended(h) ELSE h
  IN  /\ h.begun => Whole(c, h)
      /\ e.word = Len(c.written) + 1 /\ e.place = Len(c.kept) + 1 /\ e.lost = c.lost

\* A shell reads the words of the configuration in its command line, or finds that it
\* breaks off inside of a quote or after a backslash.
Spelled(c) ==
  \E hand \in [0..Len(c.command) -> Hands(c)] :
    /\ hand[0] = FirstHand
    /\ \A n \in 1..Len(c.command) : Types(c, hand[n - 1], c.command[n], hand[n])
    /\ LET h == hand[Len(c.command)]
       IN  IF c.cut THEN Open(h) ELSE ~Open(h) /\ Complete(c, h)

\* Where the program keeps to the rules of the shell, as README.md has it: the process
\* gets the words a shell reads in the command line, whatever spaces, quotes and
\* backslashes are in them and however they were quoted.  It departs from them in two
\* ways only, which the words kept show: a word that is quoted and empty disappears,
\* and so does a backslash before an ordinary character between double quotes.  A line
\* that breaks off starts nothing.
CommandIsAsWritten ==
  /\ pc = "started" =>
       /\ ~config.cut /\ argv = config.kept \o config.args
       /\ ~config.lost => argv = config.written \o config.args
  /\ pc = "refused" => config.cut \/ config.kept = <<>>

=============================================================================
