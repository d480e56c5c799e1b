------------------------------ MODULE MCLaunch ------------------------------
(***************************************************************************)
(* Configurations for Launch: every combination of addresses with one      *)
(* command line, and one address with many command lines.                  *)
(***************************************************************************)
EXTENDS Launch, SequencesExt

MCRunes == {"a", Space, Escape, Single, Double}

-----------------------------------------------------------------------------
(***************************************************************************)
(* Command lines                                                           *)
(***************************************************************************)

Styles == {"single", "double", "stray", "bare"}

Escaped(w, S) ==
  FlattenSeq([i \in DOMAIN w |-> IF w[i] \in S THEN <<Escape, w[i]>> ELSE <<w[i]>>])

\* Ways of writing a word; in a stray one, every character has a backslash before it.
Quote(w, style) ==
  CASE style = "single" -> <<Single>> \o w \o <<Single>>
    [] style = "double" -> <<Double>> \o Escaped(w, {Escape, Double}) \o <<Double>>
    [] style = "stray" -> <<Double>> \o Escaped(w, MCRunes) \o <<Double>>
    [] style = "bare" -> Escaped(w, {Escape, Double, Single, Space})

Render(ws, style) ==
  FlattenSeq([i \in DOMAIN ws |->
                Quote(ws[i], style) \o (IF i = Len(ws) THEN <<>> ELSE <<Space>>)])

ShortWords == UNION {[1..n -> MCRunes] : n \in 0..2}
ShortLists == {<<>>} \cup {<<v>> : v \in ShortWords} \cup {<<v, w>> : v, w \in ShortWords}

\* A word with a single quote cannot be written between single quotes.
Quotable(ws, style) ==
  style = "single" => \A i \in DOMAIN ws : Single \notin Range(ws[i])

NonEmpty(ws) == SelectSeq(ws, LAMBDA w : w # <<>>)

\* What a shell reads: an empty word only if it is quoted, and the stray backslashes.
Read(ws, style) ==
  CASE style = "bare" -> NonEmpty(ws)
    [] style = "stray" -> [i \in DOMAIN ws |-> Escaped(ws[i], {"a", Space, Single})]
    [] OTHER -> ws

Plain ==
  [proxy |-> TRUE, url |-> NoURL, upstream |-> TRUE, targetPort |-> 0, socket |-> FALSE,
   command |-> <<"a">>, args |-> <<>>, written |-> <<<<"a">>>>, cut |-> FALSE,
   kept |-> <<<<"a">>>>, lost |-> FALSE, envPort |-> 0, osPort |-> 0]

Written(ws, style) ==
  [Plain EXCEPT !.command = Render(ws, style), !.args = <<<<"a">>>>, !.written = Read(ws, style),
                !.kept = NonEmpty(ws), !.lost = Read(ws, style) # NonEmpty(ws)]

\* Only complete lines that the quoting suits, and quoted ones without their end.
CommandConfigs ==
  UNION {{Written(ws, style) : ws \in {l \in ShortLists : Quotable(l, style)}} : style \in Styles}
  \cup
  UNION {{[Written(ws, style) EXCEPT !.command = Front(@), !.cut = TRUE] :
            ws \in {l \in ShortLists : l # <<>> /\ Quotable(l, style)}} : style \in {"single", "double"}}

-----------------------------------------------------------------------------
(***************************************************************************)
(* Addresses                                                               *)
(***************************************************************************)
URLs == [port : {NoPort, 0, 3000, 4000}, valid : BOOLEAN]

AddressConfigs ==
  [proxy : BOOLEAN, url : URLs \cup {NoURL}, upstream : BOOLEAN,
   targetPort : {-1, 0, HttpPort, 3000, 4000, 5000}, socket : BOOLEAN,
   command : {<<>>, <<"a">>}, args : {<<>>}, written : {<<<<"a">>>>}, cut : {FALSE},
   kept : {<<<<"a">>>>}, lost : {FALSE},
   envPort : {0, 6000}, osPort : {0, 8080}]

MCConfigs == AddressConfigs \cup CommandConfigs

-----------------------------------------------------------------------------
\* Where a hand may be after one more character, and after all of the line.
Onward(h) ==
  {[h EXCEPT !.typed = @ + n, !.took = @ + 1, !.escaped = FALSE, !.begun = TRUE, !.lost = @ \/ n = 2] :
     n \in {1, 2}}

Near(h) ==
  {h, Ended(h), [h EXCEPT !.escaped = TRUE, !.begun = TRUE]} \cup Onward(h)
  \cup {[h EXCEPT !.open = o, !.begun = TRUE] : o \in {"none", "single", "double"}}

LastHands(c) ==
  LET hands[n \in 0..Len(c.command)] ==
        IF n = 0 THEN {FirstHand}
        ELSE UNION {{k \in Near(h) : Types(c, h, c.command[n], k)} : h \in hands[n - 1]}
  IN  hands[Len(c.command)]

\* All of the command lines are spelled, as the theorem about them asks for.
ASSUME LinesAreSpelled ==
  \A c \in Configs : c.command # <<>> =>
    \E h \in LastHands(c) : IF c.cut THEN Open(h) ELSE ~Open(h) /\ Complete(c, h)

=============================================================================
