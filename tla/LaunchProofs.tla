---------------------------- MODULE LaunchProofs ----------------------------
(***************************************************************************)
(* Theorems about Launch, for any set of configurations.                   *)
(***************************************************************************)
EXTENDS Launch, SequenceTheorems, WellFoundedInduction, TLAPS

\* What holds on the way: the proxy's place is fixed by the configuration as it was
\* read, the port of the process by the one CreateServices has filled in.
DialInv ==
  config.proxy /\ pc \notin {"proxy", "fatal"} =>
    /\ TargetURL(config) # NoURL
    /\ TargetURL(config).valid
    /\ dial = Dialled(config)

FilledInv ==
  /\ pc \in {"proxy", "services"} => targetPort = config.targetPort
  /\ pc \in {"start", "started"} =>
       /\ config.upstream
       /\ targetPort = IF ~config.socket /\ config.targetPort = 0
                       THEN DeriveTargetPort(config.url) ELSE config.targetPort

PortInv == pc = "started" => port = PortEnv(config, targetPort)

IInv == config \in Configs /\ pc \in Labels /\ DialInv /\ FilledInv /\ PortInv

LEMMA InitIInv == Init => IInv
BY DEF Init, IInv, DialInv, FilledInv, PortInv, Labels

LEMMA NextIInv == IInv /\ [Next]_vars => IInv'
<1> SUFFICES ASSUME IInv, [Next]_vars PROVE IInv'
  OBVIOUS
<1> USE DEF IInv, DialInv, FilledInv, PortInv, Labels
<1>1. CASE ProxyOff
  BY <1>1 DEF ProxyOff
<1>2. CASE NoTarget
  BY <1>2 DEF NoTarget
<1>3. CASE RegisterReverseProxy
  BY <1>3 DEF RegisterReverseProxy
<1>4. CASE UpstreamOff
  BY <1>4 DEF UpstreamOff
<1>5. CASE NoCommand
  BY <1>5 DEF NoCommand
<1>6. CASE CreateUpstream
  BY <1>6 DEF CreateUpstream
<1>7. CASE RefuseCommand
  BY <1>7 DEF RefuseCommand
<1>8. CASE StartUpstream
  BY <1>8 DEF StartUpstream
<1>9. CASE Rest \/ UNCHANGED vars
  BY <1>9 DEF Rest, vars
<1>10. QED
  BY <1>1, <1>2, <1>3, <1>4, <1>5, <1>6, <1>7, <1>8, <1>9 DEF Next

\* The two places, case by case of what the configuration names.
LEMMA PlacesAgree ==
  ASSUME IInv, pc = "started", config.proxy, NamesOnePlace(config)
  PROVE  IF PortLeftOut(config) THEN dial = Tcp(HttpPort) /\ port = DefaultPort
         ELSE dial = ListensOn(config)
<1> DEFINE url == config.url
<1>1. /\ config \in ConfigType
      /\ NoURL \notin [port : Nat \cup {NoPort}, valid : BOOLEAN]
  BY LaunchAssumption DEF IInv
<1>2. /\ dial = Dialled(config) /\ TargetURL(config).valid /\ config.upstream
      /\ port = PortEnv(config, targetPort)
      /\ targetPort = IF ~config.socket /\ config.targetPort = 0
                      THEN DeriveTargetPort(url) ELSE config.targetPort
  BY DEF IInv, DialInv, FilledInv, PortInv
<1>3. CASE config.socket
  BY <1>2, <1>3 DEF Dialled, UsesSocket, ListensOn, PortLeftOut
<1>4. CASE ~config.socket /\ url # NoURL
  <2>1. TargetURL(config) = url /\ url \in [port : Nat \cup {NoPort}, valid : BOOLEAN]
    BY <1>1, <1>4 DEF TargetURL, ConfigType
  <2>2. url.valid /\ config.targetPort \in {0, UrlPort(url)} /\ UrlPort(url) > 0
    BY <1>2, <1>4, <2>1 DEF NamesOnePlace
  <2>3. dial = Tcp(UrlPort(url))
    BY <1>2, <1>4, <2>1 DEF Dialled, UsesSocket, UrlPort
  <2>4. port = targetPort \/ ~(targetPort > 0)
    BY <1>2, <1>4 DEF PortEnv, NamesOnePlace
  <2>5. CASE url.port # NoPort
    <3>1. url.port \in Nat /\ UrlPort(url) = url.port
      BY <2>1, <2>5 DEF UrlPort
    <3>2. targetPort = url.port
      BY <1>2, <1>4, <2>2, <2>5, <3>1 DEF DeriveTargetPort
    <3>3. QED
      BY <1>4, <2>2, <2>3, <2>4, <2>5, <3>1, <3>2 DEF ListensOn, PortLeftOut
  <2>6. CASE url.port = NoPort /\ config.targetPort # 0
    <3>1. targetPort = UrlPort(url) /\ UrlPort(url) = HttpPort
      BY <1>2, <2>2, <2>6 DEF UrlPort
    <3>2. QED
      BY <1>4, <2>2, <2>3, <2>4, <2>6, <3>1 DEF ListensOn, PortLeftOut
  <2>7. CASE url.port = NoPort /\ config.targetPort = 0
    <3>1. targetPort = DefaultPort
      BY <1>2, <1>4, <2>7 DEF DeriveTargetPort
    <3>2. UrlPort(url) = HttpPort
      BY <2>7 DEF UrlPort
    <3>3. QED
      BY <1>4, <2>3, <2>4, <2>7, <3>1, <3>2 DEF PortLeftOut, DefaultPort
  <2>8. QED
    BY <2>5, <2>6, <2>7
<1>5. CASE ~config.socket /\ url = NoURL
  <2>1. TargetURL(config) = UpstreamURL(config)
    BY <1>2, <1>5 DEF TargetURL
  <2>2. config.targetPort \in Nat
    <3>1. config.targetPort \in Int
      BY <1>1 DEF ConfigType
    <3>2. UpstreamURL(config).valid => config.targetPort >= 0
      BY DEF UpstreamURL
    <3>3. UpstreamURL(config).valid
      BY <1>2, <2>1
    <3>4. QED
      BY <3>1, <3>2, <3>3
  <2>3. targetPort = UpstreamURL(config).port /\ targetPort \in Nat /\ targetPort > 0
    BY <1>2, <1>5, <2>2 DEF DeriveTargetPort, UpstreamURL, DefaultPort
  <2>4. port = targetPort
    BY <1>2, <1>5, <2>3 DEF PortEnv, NamesOnePlace
  <2>5. QED
    BY <1>2, <1>5, <2>1, <2>3, <2>4 DEF Dialled, UsesSocket, ListensOn, NoPort, PortLeftOut
<1>6. QED
  BY <1>3, <1>4, <1>5

\* For every configuration that names one place the proxy connects to where the process
\* has been told to listen, unless that place is named by a URL without a port only:
\* there they miss each other.
THEOREM ProxyReachesUpstreamHolds == Spec => []ProxyReachesUpstream
<1>1. IInv => ProxyReachesUpstream
  BY PlacesAgree DEF ProxyReachesUpstream
<1>2. QED
  BY InitIInv, NextIInv, <1>1, PTL DEF Spec

-----------------------------------------------------------------------------
(***************************************************************************)
(* splitCommandLine against the reading of a shell.  The loop is a         *)
(* recursion over the characters; that it is one, and what holds after     *)
(* each turn, are inductions over the natural numbers, stated with sets.   *)
(***************************************************************************)

LEMMA Induction ==
  ASSUME NEW S, 0 \in S, \A n \in Nat : n \in S => n + 1 \in S
  PROVE  Nat \subseteq S
<1> DEFINE Left == Nat \ S
<1> SUFFICES ASSUME Left # {} PROVE FALSE
  OBVIOUS
<1>1. PICK x \in Left : \A y \in Left : <<y, x>> \notin OpToRel(<, Nat)
  <2> HIDE DEF Left
  <2>1. Left \subseteq Nat
    BY DEF Left
  <2>2. QED
    BY <2>1, WFMin, NatLessThanWellFounded
<1>2. x \in Nat /\ x # 0 /\ x \notin S
  OBVIOUS
<1>3. x - 1 \in Nat /\ x - 1 < x
  BY <1>2
<1>4. x - 1 \notin S
  BY <1>2, <1>3
<1>5. <<x - 1, x>> \in OpToRel(<, Nat)
  BY <1>2, <1>3 DEF OpToRel
<1>6. QED
  BY <1>1, <1>3, <1>4, <1>5

\* The turns up to the n-th exist as a function, for every n.
LEMMA TurnsExist ==
  ASSUME NEW command, NEW n \in Nat
  PROVE  \E f : f = [i \in 0..n |-> IF i = 0 THEN Fresh ELSE Scan(f[i - 1], command[i])]
<1> DEFINE Turns(f, m) == f = [i \in 0..m |-> IF i = 0 THEN Fresh ELSE Scan(f[i - 1], command[i])]
           S == {m \in Nat : \E f : Turns(f, m)}
<1>1. 0 \in S
  <2>1. Turns([i \in 0..0 |-> Fresh], 0)
    OBVIOUS
  <2>2. QED
    BY <2>1
<1>2. ASSUME NEW m \in Nat, m \in S PROVE m + 1 \in S
  <2>1. PICK f : Turns(f, m)
    BY <1>2
  <2> DEFINE g == [i \in 0..(m + 1) |-> IF i \in 0..m THEN f[i] ELSE Scan(f[m], command[i])]
  <2>2. ASSUME NEW i \in 0..(m + 1)
        PROVE  g[i] = IF i = 0 THEN Fresh ELSE Scan(g[i - 1], command[i])
    <3>1. CASE i = 0
      BY <2>1, <3>1
    <3>2. CASE i \in 1..m
      BY <2>1, <3>2
    <3>3. CASE i = m + 1
      BY <3>3
    <3>4. QED
      BY <3>1, <3>2, <3>3
  <2>3. Turns(g, m + 1)
    BY <2>2
  <2>4. \E h : Turns(h, m + 1)
    <3> HIDE DEF Turns, g
    <3>1. QED
      BY <2>3
  <2>5. QED
    BY <2>4
<1>3. Nat \subseteq S
  <2> HIDE DEF S
  <2>1. QED
    BY <1>1, <1>2, Induction
<1>4. QED
  BY <1>3

LEMMA ScanningTurns ==
  ASSUME NEW command \in Seq(Runes)
  PROVE  /\ Scanning(command)[0] = Fresh
         /\ \A n \in 1..Len(command) :
              Scanning(command)[n] = Scan(Scanning(command)[n - 1], command[n])
<1> DEFINE N == Len(command)
           Turns(f) == f = [i \in 0..N |-> IF i = 0 THEN Fresh ELSE Scan(f[i - 1], command[i])]
<1>1. Scanning(command) = CHOOSE f : Turns(f)
  BY DEF Scanning
<1>2. \E f : Turns(f)
  <2>1. N \in Nat
    OBVIOUS
  <2>2. QED
    BY <2>1, TurnsExist
<1>3. Turns(Scanning(command))
  <2> HIDE DEF Turns
  <2>1. QED
    BY <1>1, <1>2
<1>4. QED
  BY <1>3

Scans ==
  [words : Seq(Seq(Runes)), current : Seq(Runes), single : BOOLEAN, double : BOOLEAN,
   escape : BOOLEAN]

\* What there is of the kept word in hand, and of the words before it.
Begun(c, h) == IF h.took = 0 THEN <<>> ELSE SubSeq(c.kept[h.place], 1, h.took)
Before(c, h) == SubSeq(c.kept, 1, h.place - 1)

\* The loop has cut what the hand has typed.
Agrees(c, s, h) ==
  /\ s.words = Before(c, h) /\ s.current = Begun(c, h)
  /\ h.took # 0 => h.begun /\ h.place <= Len(c.kept) /\ h.took <= Len(c.kept[h.place])
  /\ s.single <=> h.open = "single"
  /\ s.double <=> h.open = "double"
  /\ s.escape <=> h.escaped

LEMMA Characters ==
  /\ Space # Escape /\ Space # Single /\ Space # Double
  /\ Escape # Single /\ Escape # Double /\ Single # Double
BY DEF Space, Escape, Single, Double

LEMMA ScanType ==
  ASSUME NEW s \in Scans, NEW r \in Runes
  PROVE  Scan(s, r) \in Scans
<1>1. Append(s.current, r) \in Seq(Runes) /\ Append(s.words, s.current) \in Seq(Seq(Runes))
  BY DEF Scans
<1>2. <<>> \in Seq(Runes)
  OBVIOUS
<1>3. Keep(s, r) \in Scans
  BY <1>1 DEF Keep, Scans
<1>4. EndWord(s) \in Scans
  BY <1>1, <1>2 DEF EndWord, Scans
<1>5. /\ [s EXCEPT !.escape = TRUE] \in Scans
      /\ [s EXCEPT !.single = ~s.single] \in Scans
      /\ [s EXCEPT !.double = ~s.double] \in Scans
  BY DEF Scans
<1>6. QED
  BY <1>3, <1>4, <1>5 DEF Scan

\* Which turn it is.
LEMMA ScanCases ==
  ASSUME NEW s \in Scans, NEW r \in Runes
  PROVE  /\ s.escape => Scan(s, r) = Keep(s, r)
         /\ ~s.escape /\ ~s.single /\ r = Escape => Scan(s, r) = [s EXCEPT !.escape = TRUE]
         /\ ~s.escape /\ ~s.double /\ r = Single => Scan(s, r) = [s EXCEPT !.single = ~s.single]
         /\ ~s.escape /\ ~s.single /\ r = Double => Scan(s, r) = [s EXCEPT !.double = ~s.double]
         /\ ~s.escape /\ ~s.single /\ ~s.double /\ r = Space => Scan(s, r) = EndWord(s)
         /\ ~s.escape /\ s.single /\ r # Single => Scan(s, r) = Keep(s, r)
         /\ ~s.escape /\ s.double /\ ~s.single /\ r \notin {Escape, Double} => Scan(s, r) = Keep(s, r)
         /\ ~s.escape /\ r \notin {Space, Escape, Single, Double} => Scan(s, r) = Keep(s, r)
BY Characters DEF Scan

LEMMA KeepFields ==
  ASSUME NEW s \in Scans, NEW r \in Runes
  PROVE  LET k == Keep(s, r)
         IN  /\ k.words = s.words /\ k.current = Append(s.current, r)
             /\ k.single = s.single /\ k.double = s.double /\ k.escape = FALSE
BY DEF Keep, Scans

LEMMA EndWordFields ==
  ASSUME NEW s \in Scans
  PROVE  LET e == EndWord(s)
         IN  /\ e.words = IF s.current = <<>> THEN s.words ELSE Append(s.words, s.current)
             /\ e.current = <<>>
             /\ e.single = s.single /\ e.double = s.double /\ e.escape = s.escape
BY DEF EndWord, Scans

\* One more element of a sequence.
LEMMA OneMore ==
  ASSUME NEW S, NEW q \in Seq(S), NEW n \in Nat, n < Len(q)
  PROVE  SubSeq(q, 1, n + 1) = Append(SubSeq(q, 1, n), q[n + 1])
<1> DEFINE a == SubSeq(q, 1, n + 1)
           b == Append(SubSeq(q, 1, n), q[n + 1])
<1>1. SubSeq(q, 1, n) \in Seq(S) /\ Len(SubSeq(q, 1, n)) = n /\ q[n + 1] \in S
  OBVIOUS
<1>2. a \in Seq(S) /\ b \in Seq(S) /\ Len(a) = n + 1 /\ Len(b) = n + 1
  BY <1>1
<1>3. ASSUME NEW i \in 1..(n + 1) PROVE a[i] = b[i]
  <2>1. CASE i \in 1..n
    BY <1>1, <2>1
  <2>2. CASE i = n + 1
    BY <1>1, <2>2
  <2>3. QED
    BY <2>1, <2>2
<1>4. QED
  <2> HIDE DEF a, b
  <2>1. a = b
    BY <1>2, <1>3, SeqEqual
  <2>2. QED
    BY <2>1 DEF a, b

\* A hand that goes on, or ends a word.
LEMMA GoesFields ==
  ASSUME NEW c, NEW h \in Hands(c), NEW r, NEW k, NEW read, Len(read) \in Nat,
         Goes(c, h, read, r, k)
  PROVE  /\ k.word = h.word /\ k.typed = h.typed + Len(read)
         /\ k.place = h.place /\ k.took = h.took + 1
         /\ k.open = h.open /\ ~k.escaped /\ k.begun
         /\ k.lost <=> h.lost \/ Len(read) # 1
<1>1. k = [h EXCEPT !.typed = @ + Len(read), !.took = @ + 1, !.escaped = FALSE,
                    !.begun = TRUE, !.lost = @ \/ Len(read) # 1]
  BY DEF Goes
<1> DEFINE n == Len(read)
           b == h.lost \/ n # 1
<1>2. k = [h EXCEPT !.typed = h.typed + n, !.took = h.took + 1, !.escaped = FALSE,
                    !.begun = TRUE, !.lost = b]
  BY <1>1
<1> HIDE DEF n, b
<1>3. /\ k.word = h.word /\ k.typed = h.typed + n
      /\ k.place = h.place /\ k.took = h.took + 1 /\ k.open = h.open
  BY <1>2 DEF Hands
<1>4. ~k.escaped /\ k.begun
  BY <1>2 DEF Hands
<1>5. k.lost = b
  BY <1>2 DEF Hands
<1>6. QED
  BY <1>3, <1>4, <1>5 DEF n, b

LEMMA EndedFields ==
  ASSUME NEW c, NEW h \in Hands(c)
  PROVE  LET e == Ended(h) IN
           /\ e.word = h.word + 1 /\ e.typed = 0
           /\ e.place = IF h.took = 0 THEN h.place ELSE h.place + 1
           /\ e.took = 0 /\ e.open = h.open /\ e.escaped = h.escaped /\ e.begun = FALSE
           /\ e.lost <=> h.lost \/ h.took = 0
BY DEF Ended, Hands

\* The loop and the hand end a word in the same way.
LEMMA EndsAgree ==
  ASSUME NEW c \in ConfigType, NEW h \in Hands(c), NEW s \in Scans, Agrees(c, s, h), Whole(c, h)
  PROVE  Agrees(c, EndWord(s), Ended(h))
<1> DEFINE t == EndWord(s)
           e == Ended(h)
<1>1. c.kept \in Seq(Seq(Runes)) /\ h.place \in Nat \ {0} /\ h.took \in Nat
  BY DEF ConfigType, Words, Hands
<1>2. /\ t.words = IF s.current = <<>> THEN s.words ELSE Append(s.words, s.current)
      /\ t.current = <<>>
      /\ t.single = s.single /\ t.double = s.double /\ t.escape = s.escape
  BY EndWordFields
<1>3. /\ e.place = IF h.took = 0 THEN h.place ELSE h.place + 1
      /\ e.took = 0 /\ e.open = h.open /\ e.escaped = h.escaped
  BY EndedFields
<1> HIDE DEF t, e
<1>4. CASE h.took = 0
  <2>1. s.current = <<>> /\ t.words = s.words /\ e.place = h.place
    BY <1>2, <1>3, <1>4 DEF Agrees, Begun
  <2>2. QED
    BY <1>2, <1>3, <2>1 DEF Agrees, Begun, Before, t, e
<1>5. CASE h.took # 0
  <2> DEFINE w == c.kept[h.place]
             n == h.place - 1
  <2>1. h.place \in 1..Len(c.kept) /\ h.took = Len(w) /\ w \in Seq(Runes)
    BY <1>1, <1>5 DEF Whole
  <2>2. s.current = w /\ w # <<>>
    <3>1. SubSeq(w, 1, Len(w)) = w
      BY <2>1, SubSeqFull
    <3>2. QED
      BY <1>5, <2>1, <3>1 DEF Agrees, Begun
  <2>3. n \in Nat /\ n < Len(c.kept) /\ n + 1 = h.place /\ (h.place + 1) - 1 = n + 1
    BY <2>1
  <2>4. SubSeq(c.kept, 1, n + 1) = Append(SubSeq(c.kept, 1, n), c.kept[n + 1])
    <3> HIDE DEF n
    <3>1. QED
      BY <1>1, <2>3, OneMore
  <2>5. t.words = SubSeq(c.kept, 1, h.place)
    BY <1>2, <2>2, <2>3, <2>4 DEF Agrees, Before
  <2>6. QED
    BY <1>2, <1>3, <1>5, <2>3, <2>5 DEF Agrees, Begun, Before, t, e
<1>6. QED
  BY <1>4, <1>5

\* The loop appends what the hand takes.
LEMMA GoesAgree ==
  ASSUME NEW c \in ConfigType, NEW h \in Hands(c), NEW k, NEW r \in Runes, NEW s \in Scans,
         NEW read \in Seq(Runes), Agrees(c, s, h), Goes(c, h, read, r, k)
  PROVE  Agrees(c, Keep(s, r), k)
<1> DEFINE t == Keep(s, r)
           w == c.kept[h.place]
<1>1. /\ c.kept \in Seq(Seq(Runes)) /\ h.place \in Nat \ {0} /\ h.took \in Nat
      /\ h.open \in {"none", "single", "double"}
  BY DEF ConfigType, Words, Hands
<1>2. /\ t.words = s.words /\ t.current = Append(s.current, r)
      /\ t.single = s.single /\ t.double = s.double /\ t.escape = FALSE
  BY KeepFields
<1>3. /\ k.place = h.place /\ k.took = h.took + 1 /\ k.open = h.open /\ ~k.escaped
      /\ k.begun
  BY GoesFields, LenProperties
<1>4. h.place \in 1..Len(c.kept) /\ w \in Seq(Runes) /\ h.took < Len(w) /\ r = w[h.took + 1]
  BY <1>1 DEF Goes
<1>5. Begun(c, h) = SubSeq(w, 1, h.took)
  <2>1. h.took = 0 => SubSeq(w, 1, h.took) = <<>>
    BY SubSeqEmpty
  <2>2. QED
    BY <2>1 DEF Begun
<1>6. SubSeq(w, 1, h.took + 1) = Append(SubSeq(w, 1, h.took), r)
  <2> HIDE DEF w
  <2>1. QED
    BY <1>1, <1>4, OneMore
<1>7. Begun(c, k) = SubSeq(w, 1, h.took + 1)
  BY <1>1, <1>3 DEF Begun
<1>8. k.took # 0 => k.begun /\ k.place <= Len(c.kept) /\ k.took <= Len(c.kept[k.place])
  BY <1>1, <1>3, <1>4
<1>9. Before(c, k) = Before(c, h)
  BY <1>3 DEF Before
<1>10. QED
  BY <1>2, <1>3, <1>5, <1>6, <1>7, <1>8, <1>9 DEF Agrees

LEMMA TypesAgree ==
  ASSUME NEW c \in ConfigType, NEW h \in Hands(c), NEW k \in Hands(c),
         NEW r \in Runes, NEW s \in Scans, Agrees(c, s, h), Types(c, h, r, k)
  PROVE  Agrees(c, Scan(s, r), k)
<1> DEFINE t == Scan(s, r)
<1>0. /\ h.escaped \in BOOLEAN /\ h.open \in {"none", "single", "double"}
      /\ <<r>> \in Seq(Runes) /\ <<Escape, r>> \in Seq(Runes)
  BY LaunchAssumption DEF Hands
<1>1. CASE Backslash(h, r, k)
  <2>1. ~s.escape /\ ~s.single /\ r = Escape
    BY <1>1 DEF Backslash, Agrees
  <2>2. t = [s EXCEPT !.escape = TRUE]
    BY <2>1, ScanCases
  <2>3. /\ k.place = h.place /\ k.took = h.took /\ k.open = h.open /\ k.escaped = TRUE
        /\ k.begun = TRUE
    BY <1>1 DEF Backslash, Hands
  <2>4. /\ t.words = s.words /\ t.current = s.current /\ t.single = s.single
        /\ t.double = s.double /\ t.escape = TRUE
    BY <2>2 DEF Scans
  <2>5. QED
    BY <2>3, <2>4 DEF Agrees, Begun, Before
<1>2. CASE NextRune(c, h, r, k)
  <2>1. t = Keep(s, r)
    <3>1. CASE h.escaped
      BY <3>1, ScanCases DEF Agrees
    <3>2. CASE ~h.escaped
      <4>1. r \notin Special(h.open) /\ ~s.escape
        BY <1>2, <3>2 DEF NextRune, Agrees
      <4>2. CASE h.open = "none"
        BY <4>1, <4>2, ScanCases DEF Special
      <4>3. CASE h.open = "single"
        <5>1. s.single /\ r # Single
          BY <4>1, <4>3 DEF Special, Agrees
        <5>2. QED
          BY <4>1, <5>1, ScanCases
      <4>4. CASE h.open = "double"
        <5>1. s.double /\ ~s.single /\ r \notin {Escape, Double}
          BY <4>1, <4>4 DEF Special, Agrees
        <5>2. QED
          BY <4>1, <5>1, ScanCases
      <4>5. QED
        BY <1>0, <4>2, <4>3, <4>4
    <3>3. QED
      BY <1>0, <3>1, <3>2
  <2>2. QED
    BY <1>0, <1>2, <2>1, GoesAgree DEF NextRune
<1>3. CASE StrayBackslash(c, h, r, k)
  <2>1. t = Keep(s, r)
    BY <1>3, ScanCases DEF StrayBackslash, Agrees
  <2>2. QED
    BY <1>0, <1>3, <2>1, GoesAgree DEF StrayBackslash
<1>4. CASE QuoteMark(h, r, k)
  <2>1. ~s.escape /\ ~h.escaped
    BY <1>4 DEF QuoteMark, Agrees
  <2>2. CASE r = Single
    <3>1. h.open # "double" /\ ~s.double
      BY <1>4, <2>2, Characters DEF QuoteMark, Agrees
    <3>2. /\ k.place = h.place /\ k.took = h.took /\ k.escaped = h.escaped /\ k.begun = TRUE
          /\ k.open = IF h.open = "single" THEN "none" ELSE "single"
      BY <1>4, <2>2, Characters DEF QuoteMark, Hands
    <3>3. t = [s EXCEPT !.single = ~s.single]
      BY <2>1, <2>2, <3>1, ScanCases
    <3>4. /\ t.words = s.words /\ t.current = s.current /\ t.single = ~s.single
          /\ t.double = s.double /\ t.escape = s.escape
      BY <3>3 DEF Scans
    <3>5. (t.single <=> k.open = "single") /\ (t.double <=> k.open = "double")
      BY <1>0, <3>1, <3>2, <3>4 DEF Agrees
    <3>6. QED
      BY <3>2, <3>4, <3>5 DEF Agrees, Begun, Before
  <2>3. CASE r = Double
    <3>1. h.open # "single" /\ ~s.single
      BY <1>4, <2>3, Characters DEF QuoteMark, Agrees
    <3>2. /\ k.place = h.place /\ k.took = h.took /\ k.escaped = h.escaped /\ k.begun = TRUE
          /\ k.open = IF h.open = "double" THEN "none" ELSE "double"
      BY <1>4, <2>3, Characters DEF QuoteMark, Hands
    <3>3. t = [s EXCEPT !.double = ~s.double]
      BY <2>1, <2>3, <3>1, ScanCases
    <3>4. /\ t.words = s.words /\ t.current = s.current /\ t.double = ~s.double
          /\ t.single = s.single /\ t.escape = s.escape
      BY <3>3 DEF Scans
    <3>5. (t.single <=> k.open = "single") /\ (t.double <=> k.open = "double")
      BY <1>0, <3>1, <3>2, <3>4 DEF Agrees
    <3>6. QED
      BY <3>2, <3>4, <3>5 DEF Agrees, Begun, Before
  <2>4. QED
    BY <1>4, <2>2, <2>3 DEF QuoteMark
<1>5. CASE Gap(c, h, r, k)
  <2>1. t = EndWord(s)
    <3>1. ~s.escape /\ ~s.single /\ ~s.double /\ r = Space
      BY <1>5 DEF Gap, Agrees
    <3>2. QED
      BY <3>1, ScanCases
  <2>2. CASE h.begun /\ Whole(c, h) /\ k = Ended(h)
    BY <2>1, <2>2, EndsAgree
  <2>3. CASE ~h.begun /\ k = h
    <3>1. h.took = 0 /\ s.current = <<>>
      BY <2>3 DEF Agrees, Begun
    <3>2. /\ t.words = s.words /\ t.current = s.current
          /\ t.single = s.single /\ t.double = s.double /\ t.escape = s.escape
      BY <2>1, <3>1, EndWordFields
    <3>3. QED
      BY <2>3, <3>2 DEF Agrees
  <2>4. QED
    BY <1>5, <2>2, <2>3 DEF Gap
<1>6. QED
  BY <1>1, <1>2, <1>3, <1>4, <1>5 DEF Types

\* After a whole command line the loop has all the kept words, or is inside of a quote.
LEMMA SplitsAsKept ==
  ASSUME NEW c \in ConfigType, Spelled(c)
  PROVE  /\ Terminated(c.command) <=> ~c.cut
         /\ ~c.cut => Split(c.command) = c.kept
<1> DEFINE command == c.command
           N == Len(command)
<1>1. /\ command \in Seq(Runes) /\ c.kept \in Seq(Seq(Runes)) /\ c.cut \in BOOLEAN
      /\ N \in Nat
  BY DEF ConfigType, Words
<1>2. PICK hand \in [0..N -> Hands(c)] :
        /\ hand[0] = FirstHand
        /\ \A n \in 1..N : Types(c, hand[n - 1], command[n], hand[n])
        /\ IF c.cut THEN Open(hand[N]) ELSE ~Open(hand[N]) /\ Complete(c, hand[N])
  BY DEF Spelled
<1> DEFINE scan == Scanning(command)
<1>3. /\ scan[0] = Fresh
      /\ \A n \in 1..N : scan[n] = Scan(scan[n - 1], command[n])
  BY <1>1, ScanningTurns
<1> HIDE DEF command, N, scan
<1> DEFINE S == {n \in Nat : n <= N => scan[n] \in Scans /\ Agrees(c, scan[n], hand[n])}
<1>4. 0 \in S
  <2>1. Fresh \in Scans
    <3>1. <<>> \in Seq(Runes) /\ <<>> \in Seq(Seq(Runes))
      OBVIOUS
    <3>2. QED
      BY <3>1 DEF Fresh, Scans
  <2>2. SubSeq(c.kept, 1, 1 - 1) = <<>>
    BY SubSeqEmpty
  <2>3. Agrees(c, Fresh, FirstHand)
    BY <2>2 DEF Agrees, Before, Begun, Fresh, FirstHand
  <2>4. QED
    BY <1>2, <1>3, <2>1, <2>3
<1>5. ASSUME NEW n \in Nat, n \in S PROVE n + 1 \in S
  <2> SUFFICES ASSUME n + 1 <= N
               PROVE  scan[n + 1] \in Scans /\ Agrees(c, scan[n + 1], hand[n + 1])
    OBVIOUS
  <2>1. scan[n] \in Scans /\ Agrees(c, scan[n], hand[n])
    BY <1>1, <1>5
  <2>2. n + 1 \in 1..N /\ (n + 1) - 1 = n /\ n \in 0..N /\ n + 1 \in 0..N
    BY <1>1
  <2>3. scan[n + 1] = Scan(scan[n], command[n + 1])
    BY <1>3, <2>2
  <2>4. Types(c, hand[n], command[n + 1], hand[n + 1])
    BY <1>2, <2>2
  <2>5. hand[n] \in Hands(c) /\ hand[n + 1] \in Hands(c)
    BY <1>2, <2>2
  <2>6. command[n + 1] \in Runes
    BY <1>1, <2>2 DEF N
  <2>7. QED
    BY <1>1, <2>1, <2>3, <2>4, <2>5, <2>6, ScanType, TypesAgree
<1>6. scan[N] \in Scans /\ Agrees(c, scan[N], hand[N])
  <2>1. Nat \subseteq S
    <3> HIDE DEF S
    <3>1. QED
      BY <1>4, <1>5, Induction
  <2>2. QED
    BY <1>1, <2>1
<1> DEFINE s == scan[N]
           h == hand[N]
<1>7. Scanned(c.command) = s
  BY DEF Scanned, scan, command, N
<1>8. h \in Hands(c)
  BY <1>1, <1>2
<1>9. Terminated(c.command) <=> ~Open(h)
  <2>1. h.open \in {"none", "single", "double"}
    BY <1>8 DEF Hands
  <2>2. QED
    BY <1>6, <1>7, <2>1 DEF Terminated, Agrees, Open
<1>10. Terminated(c.command) <=> ~c.cut
  BY <1>2, <1>9
<1>11. ASSUME ~c.cut PROVE Split(c.command) = c.kept
  <2> DEFINE e == IF h.begun THEN Ended(h) ELSE h
             t == EndWord(s)
  <2>1. (h.begun => Whole(c, h)) /\ e.place = Len(c.kept) + 1
    BY <1>2, <1>11 DEF Complete
  <2>2. Agrees(c, t, e) /\ e.took = 0
    <3>1. CASE h.begun
      BY <1>6, <1>8, <2>1, <3>1, EndsAgree, EndedFields
    <3>2. CASE ~h.begun
      <4>1. h.took = 0 /\ e = h
        BY <1>6, <3>2 DEF Agrees
      <4>2. s.current = <<>>
        BY <1>6, <4>1 DEF Agrees, Begun
      <4>3. /\ t.words = s.words /\ t.current = s.current
            /\ t.single = s.single /\ t.double = s.double /\ t.escape = s.escape
        BY <1>6, <4>2, EndWordFields
      <4>4. QED
        BY <1>6, <4>1, <4>3 DEF Agrees
    <3>3. QED
      BY <3>1, <3>2
  <2> HIDE DEF e
  <2>3. t.words = SubSeq(c.kept, 1, (Len(c.kept) + 1) - 1)
    BY <2>1, <2>2 DEF Agrees, Before
  <2>4. (Len(c.kept) + 1) - 1 = Len(c.kept) /\ SubSeq(c.kept, 1, Len(c.kept)) = c.kept
    BY <1>1, SubSeqFull
  <2>5. QED
    BY <1>7, <2>3, <2>4 DEF Split
<1>12. QED
  BY <1>10, <1>11

(***************************************************************************)
(* Where nothing is lost, the hand is at the same place in the shell's     *)
(* words and in the kept ones, and would also go through the line if these *)
(* were the shell's.                                                       *)
(***************************************************************************)
Even(h) == ~h.lost => h.place = h.word /\ h.took = h.typed

LEMMA EvenStep ==
  ASSUME NEW c \in ConfigType, NEW d, d.written = c.written, d.kept = c.written,
         NEW h \in Hands(c), NEW k \in Hands(c), NEW r \in Runes,
         Types(c, h, r, k), Even(h), ~k.lost
  PROVE  ~h.lost /\ Even(k) /\ Types(d, h, r, k)
<1>0. /\ c.written \in Seq(Seq(Runes)) /\ c.kept \in Seq(Seq(Runes))
      /\ h.word \in Nat /\ h.typed \in Nat /\ h.place \in Nat /\ h.took \in Nat
      /\ <<r>> \in Seq(Runes) /\ <<Escape, r>> \in Seq(Runes)
      /\ Len(<<r>>) = 1 /\ Len(<<Escape, r>>) = 2 /\ <<r>>[1] = r
  BY LaunchAssumption DEF ConfigType, Words, Hands
<1>1. CASE Backslash(h, r, k)
  <2>1. /\ k.word = h.word /\ k.typed = h.typed /\ k.place = h.place /\ k.took = h.took
        /\ k.lost = h.lost
    BY <1>1 DEF Backslash, Hands
  <2>2. QED
    BY <1>1, <2>1 DEF Even, Types
<1>2. CASE NextRune(c, h, r, k)
  <2>1. Goes(c, h, <<r>>, r, k)
    BY <1>2 DEF NextRune
  <2>2. /\ k.word = h.word /\ k.typed = h.typed + 1 /\ k.place = h.place /\ k.took = h.took + 1
        /\ ~h.lost
    <3> DEFINE read == <<r>>
    <3>1. Len(read) = 1 /\ Len(read) \in Nat /\ Goes(c, h, read, r, k)
      BY <1>0, <2>1
    <3> HIDE DEF read
    <3>2. /\ k.word = h.word /\ k.typed = h.typed + Len(read) /\ k.place = h.place
          /\ k.took = h.took + 1
          /\ k.lost <=> h.lost \/ Len(read) # 1
      BY <3>1, GoesFields
    <3>3. ~h.lost
      BY <3>2
    <3>4. QED
      BY <3>1, <3>2, <3>3
  <2>3. h.place = h.word /\ h.took = h.typed
    BY <2>2 DEF Even
  <2>4. Goes(d, h, <<r>>, r, k)
    <3>1. /\ h.word <= Len(d.written) /\ h.typed + Len(<<r>>) <= Len(d.written[h.word])
          /\ \A i \in 1..Len(<<r>>) : d.written[h.word][h.typed + i] = <<r>>[i]
      BY <2>1 DEF Goes
    <3>2. d.written[h.word][h.typed + 1] = r
      BY <1>0, <3>1
    <3>3. /\ h.place <= Len(d.kept) /\ h.took < Len(d.kept[h.place])
          /\ d.kept[h.place][h.took + 1] = r
      <4>1. h.word \in 1..Len(c.written)
        BY <3>1 DEF Hands
      <4>2. Len(c.written[h.word]) \in Nat
        BY <1>0, <4>1
      <4>3. QED
        BY <1>0, <2>3, <3>1, <3>2, <4>2
    <3>4. k = [h EXCEPT !.typed = @ + Len(<<r>>), !.took = @ + 1, !.escaped = FALSE,
                        !.begun = TRUE, !.lost = @ \/ Len(<<r>>) # 1]
      BY <2>1 DEF Goes
    <3>5. QED
      BY <3>1, <3>3, <3>4 DEF Goes
  <2>5. NextRune(d, h, r, k)
    BY <1>2, <2>4 DEF NextRune
  <2>6. QED
    BY <2>2, <2>3, <2>5 DEF Even, Types
<1>3. CASE StrayBackslash(c, h, r, k)
  <2> DEFINE read == <<Escape, r>>
  <2>1. Len(read) = 2 /\ Len(read) \in Nat /\ Goes(c, h, read, r, k)
    BY <1>0, <1>3 DEF StrayBackslash
  <2> HIDE DEF read
  <2>2. k.lost
    BY <2>1, GoesFields
  <2>3. QED
    BY <2>2
<1>4. CASE QuoteMark(h, r, k)
  <2>1. /\ k.word = h.word /\ k.typed = h.typed /\ k.place = h.place /\ k.took = h.took
        /\ k.lost = h.lost
    BY <1>4 DEF QuoteMark, Hands
  <2>2. QED
    BY <1>4, <2>1 DEF Even, Types
<1>5. CASE Gap(c, h, r, k)
  <2>1. CASE ~h.begun /\ k = h
    <3>1. Gap(d, h, r, k)
      BY <1>5, <2>1 DEF Gap
    <3>2. QED
      BY <2>1, <3>1 DEF Even, Types
  <2>2. CASE h.begun /\ Whole(c, h) /\ k = Ended(h)
    <3>1. /\ k.word = h.word + 1 /\ k.typed = 0 /\ k.took = 0
          /\ k.place = IF h.took = 0 THEN h.place ELSE h.place + 1
          /\ k.lost <=> h.lost \/ h.took = 0
      BY <2>2, EndedFields
    <3>2. ~h.lost /\ h.took # 0 /\ h.place = h.word /\ h.took = h.typed
      BY <3>1 DEF Even
    <3>3. Whole(d, h)
      BY <2>2, <3>2 DEF Whole
    <3>4. Gap(d, h, r, k)
      BY <1>5, <2>2, <3>3 DEF Gap
    <3>5. QED
      BY <3>1, <3>2, <3>4 DEF Even, Types
  <2>3. QED
    BY <1>5, <2>1, <2>2 DEF Gap
<1>6. QED
  BY <1>1, <1>2, <1>3, <1>4, <1>5 DEF Types

LEMMA NothingLost ==
  ASSUME NEW c \in ConfigType, Spelled(c), ~c.cut, ~c.lost
  PROVE  c.kept = c.written
<1> DEFINE d == [c EXCEPT !.kept = c.written]
           N == Len(c.command)
<1>1. /\ d \in ConfigType /\ d.kept = c.written /\ d.written = c.written
      /\ d.command = c.command /\ d.cut = c.cut /\ d.lost = c.lost
      /\ c.command \in Seq(Runes) /\ N \in Nat /\ c.written \in Seq(Seq(Runes))
  <2>1. c.written \in Words
    BY DEF ConfigType
  <2>2. d \in ConfigType
    BY <2>1, Zenon DEF ConfigType
  <2>3. d.kept = c.written /\ d.written = c.written /\ d.command = c.command
    BY DEF ConfigType
  <2>4. d.cut = c.cut
    BY DEF ConfigType
  <2>5. d.lost = c.lost
    BY DEF ConfigType
  <2>6. c.command \in Seq(Runes) /\ N \in Nat /\ c.written \in Seq(Seq(Runes))
    BY <2>1 DEF ConfigType, Words
  <2>7. QED
    BY <2>2, <2>3, <2>4, <2>5, <2>6
<1> HIDE DEF d
<1>2. PICK hand \in [0..N -> Hands(c)] :
        /\ hand[0] = FirstHand
        /\ \A n \in 1..N : Types(c, hand[n - 1], c.command[n], hand[n])
        /\ ~Open(hand[N]) /\ Complete(c, hand[N])
  BY DEF Spelled
<1> DEFINE h == hand[N]
           Fits(n) == Even(hand[n]) /\ (~hand[n].lost => \A m \in 0..n : ~hand[m].lost)
           S == {n \in Nat : n <= N => Fits(n)}
<1>3. 0 \in S
  <2>1. Even(FirstHand) /\ ~FirstHand.lost
    BY DEF Even, FirstHand
  <2>2. ASSUME NEW m \in 0..0 PROVE m = 0
    OBVIOUS
  <2>3. QED
    BY <1>2, <2>1, <2>2
<1>4. ASSUME NEW n \in Nat, n \in S PROVE n + 1 \in S
  <2> SUFFICES ASSUME n + 1 <= N PROVE Fits(n + 1)
    OBVIOUS
  <2>1. n + 1 \in 1..N /\ (n + 1) - 1 = n /\ n \in 0..N /\ n + 1 \in 0..N /\ n <= N
    BY <1>1
  <2>2. Types(c, hand[n], c.command[n + 1], hand[n + 1]) /\ c.command[n + 1] \in Runes
    BY <1>1, <1>2, <2>1
  <2>3. Fits(n) /\ hand[n] \in Hands(c) /\ hand[n + 1] \in Hands(c)
    BY <1>2, <1>4, <2>1
  <2>4. CASE hand[n + 1].lost
    BY <2>4 DEF Even
  <2>5. CASE ~hand[n + 1].lost
    <3>1. ~hand[n].lost /\ Even(hand[n + 1])
      BY <1>1, <2>2, <2>3, <2>5, EvenStep
    <3>2. ASSUME NEW m \in 0..(n + 1) PROVE m \in 0..n \/ m = n + 1
      OBVIOUS
    <3>3. QED
      BY <2>3, <2>5, <3>1, <3>2
  <2>6. QED
    BY <2>4, <2>5
<1>5. ASSUME NEW n \in 0..N PROVE Fits(n)
  <2>1. Nat \subseteq S
    <3> HIDE DEF S
    <3>1. QED
      BY <1>3, <1>4, Induction
  <2>2. n \in Nat /\ n <= N
    BY <1>1
  <2>3. QED
    BY <2>1, <2>2
<1> DEFINE e == IF h.begun THEN Ended(h) ELSE h
<1>6. /\ h.begun => Whole(c, h)
      /\ e.word = Len(c.written) + 1 /\ ~e.lost /\ h \in Hands(c)
  BY <1>1, <1>2 DEF Complete
<1>7. ~h.lost /\ (h.begun => h.took # 0)
  <2>1. h.begun => (e.lost <=> h.lost \/ h.took = 0)
    BY <1>6, EndedFields
  <2>2. QED
    BY <1>6, <2>1
<1>8. h.place = h.word /\ h.took = h.typed /\ \A n \in 0..N : ~hand[n].lost
  <2>1. Fits(N)
    BY <1>1, <1>5
  <2>2. QED
    BY <1>7, <2>1 DEF Even
<1>9. Complete(d, h)
  <2>1. e.place = e.word
    <3>1. CASE h.begun
      <4>1. Ended(h).place = h.place + 1 /\ Ended(h).word = h.word + 1
        BY <1>6, <1>7, <3>1, EndedFields
      <4>2. QED
        BY <1>8, <3>1, <4>1
    <3>2. CASE ~h.begun
      BY <1>8, <3>2
    <3>3. QED
      BY <3>1, <3>2
  <2>2. h.begun => Whole(d, h)
    BY <1>1, <1>6, <1>8 DEF Whole
  <2>3. QED
    BY <1>1, <1>2, <1>6, <2>1, <2>2 DEF Complete
<1>10. ASSUME NEW n \in 1..N PROVE Types(d, hand[n - 1], c.command[n], hand[n])
  <2>1. n - 1 \in 0..N /\ n \in 0..N
    BY <1>1
  <2>2. /\ hand[n - 1] \in Hands(c) /\ hand[n] \in Hands(c) /\ ~hand[n].lost
        /\ c.command[n] \in Runes /\ Types(c, hand[n - 1], c.command[n], hand[n])
        /\ Even(hand[n - 1])
    <3>1. Fits(n - 1)
      BY <1>5, <2>1
    <3>2. hand[n - 1] \in Hands(c) /\ hand[n] \in Hands(c)
      BY <1>2, <2>1
    <3>3. c.command[n] \in Runes
      BY <1>1
    <3>4. Types(c, hand[n - 1], c.command[n], hand[n])
      BY <1>2
    <3>5. ~hand[n].lost
      BY <1>8, <2>1
    <3>6. QED
      BY <3>1, <3>2, <3>3, <3>4, <3>5
  <2>3. QED
    BY <1>1, <2>2, EvenStep
<1>11. ASSUME NEW n \in 0..N PROVE hand[n] \in Hands(d)
  <2>1. hand[n] \in Hands(c) /\ hand[n].place = hand[n].word
    BY <1>2, <1>5, <1>8 DEF Even
  <2>2. QED
    BY <1>1, <2>1 DEF Hands
<1>12. Spelled(d)
  <2>1. hand \in [0..N -> Hands(d)]
    BY <1>2, <1>11
  <2>2. QED
    BY <1>1, <1>2, <1>9, <1>10, <2>1 DEF Spelled
<1>13. QED
  <2>1. Split(c.command) = c.kept
    BY SplitsAsKept
  <2>2. Split(d.command) = d.kept
    BY <1>1, <1>12, SplitsAsKept
  <2>3. QED
    BY <1>1, <2>1, <2>2

CommandInv ==
  /\ pc = "started" =>
       /\ Terminated(config.command) /\ config.command # <<>>
       /\ argv = Split(config.command) \o config.args
  /\ pc = "refused" =>
       /\ ~Terminated(config.command) \/ Split(config.command) = <<>>
       /\ config.command # <<>>
  /\ pc = "start" => config.command # <<>>

LEMMA NextCommandInv == CommandInv /\ [Next]_vars => CommandInv'
BY DEF CommandInv, Next, vars, ProxyOff, NoTarget, RegisterReverseProxy, UpstreamOff, NoCommand,
   CreateUpstream, RefuseCommand, StartUpstream, Rest

\* For every alphabet and every command line: the process gets the words a shell reads
\* in it, without empty words and without backslashes before ordinary characters in double
\* quotes, all of them if there are none of these, and nothing if the line breaks off.
THEOREM CommandIsAsWrittenHolds ==
  ASSUME \A c \in Configs : c.command # <<>> => Spelled(c)
  PROVE  Spec => []CommandIsAsWritten
<1>1. Init => IInv /\ CommandInv
  BY InitIInv DEF Init, CommandInv
<1>2. IInv /\ CommandInv /\ [Next]_vars => (IInv /\ CommandInv)'
  BY NextIInv, NextCommandInv
<1>3. IInv /\ CommandInv => CommandIsAsWritten
  <2> SUFFICES ASSUME IInv, CommandInv PROVE CommandIsAsWritten
    OBVIOUS
  <2>1. config \in Configs /\ config \in ConfigType
    BY LaunchAssumption DEF IInv
  <2>2. CASE config.command # <<>>
    <3>1. /\ Terminated(config.command) <=> ~config.cut
          /\ ~config.cut => Split(config.command) = config.kept
      BY <2>1, <2>2, SplitsAsKept
    <3>2. ~config.cut /\ ~config.lost => config.kept = config.written
      BY <2>1, <2>2, NothingLost
    <3>3. QED
      BY <3>1, <3>2 DEF CommandInv, CommandIsAsWritten
  <2>3. CASE config.command = <<>>
    BY <2>3 DEF CommandInv, CommandIsAsWritten
  <2>4. QED
    BY <2>2, <2>3
<1>4. QED
  BY <1>1, <1>2, <1>3, PTL DEF Spec

=============================================================================
