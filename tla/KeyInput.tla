------------------------------ MODULE KeyInput ------------------------------
(***************************************************************************)
(* Where keys come from and what reads them (src/key.c, with the loops of  *)
(* src/search.c and src/lineedit.c that take bytes one at a time).         *)
(*                                                                         *)
(* A byte comes from the bytes given back, from a keyboard macro that is   *)
(* being played, or from the keyboard, in this order.  get_key() collects  *)
(* bytes into keys; search() ends at a byte that it does not use and gives *)
(* it back.  Every action is one byte read and what its reader does with   *)
(* it.                                                                     *)
(***************************************************************************)
EXTENDS Integers, SequencesExt

CONSTANTS
  MacroMax,             \* MACRO_MAX
  UnreadMax,            \* sizeof unread
  KeyMax,               \* K_BUFFER_LENGTH
  Injections,           \* the keys that the tester puts in: sequences of bytes
  Extras                \* which of the steps named in ExtraSteps are taken

ExtraSteps == {"nul", "nested", "search ended by C-x", "play what was cut"}

\* Enough bytes to tell apart text, controls, prefixes and final bytes.
Bytes == {"a", "e", "(", ")", "[", "RET", "C-s", "C-x", "ESC", "NUL"}
Final == {"a", "e"}                                  \* 0x40..0x7e but for [

ASSUME KeySizes ==
  /\ MacroMax \in Nat /\ UnreadMax \in Nat \ {0, 1} /\ KeyMax \in Nat \ (0..2)
  /\ \A s \in Injections : s \in Seq(Bytes) /\ Len(s) \in 1..UnreadMax
  /\ Extras \subseteq ExtraSteps

VARIABLES
  unread, macro, recording,
  play,                 \* macro_play, or -1
  repeat,               \* macro_repeat
  reader,               \* which function reads the next byte
  keys,                 \* get_key: the bytes of the key so far
  meant, ran,           \* history: what the keys of the macro did, and of its replay
  cut,                  \* history: recording ended because the macro was too long
  dropped,              \* history: bytes given back were dropped
  tested                \* history: bytes of the tester are read

vars == <<unread, macro, recording, play, repeat, reader, keys, meant, ran, cut, dropped, tested>>

Readers == {"get_key", "get_key escape", "search", "search ESC", "line_edit", "line_edit ESC",
            "line_edit parameters"}

Now == [unread |-> unread, macro |-> macro, recording |-> recording, play |-> play, repeat |-> repeat,
        reader |-> reader, keys |-> keys, meant |-> meant, ran |-> ran, cut |-> cut,
        dropped |-> dropped, tested |-> tested]

Become(s) ==
  /\ unread' = s.unread /\ macro' = s.macro /\ recording' = s.recording /\ play' = s.play
  /\ repeat' = s.repeat /\ reader' = s.reader /\ keys' = s.keys /\ meant' = s.meant
  /\ ran' = s.ran /\ cut' = s.cut /\ dropped' = s.dropped
  /\ tested' = s.tested

Init ==
  /\ unread = <<>> /\ macro = <<>> /\ recording = FALSE /\ play = -1 /\ repeat = FALSE
  /\ reader = "get_key" /\ keys = <<>>
  /\ meant = <<>> /\ ran = <<>> /\ cut = FALSE /\ dropped = FALSE /\ tested = FALSE

-----------------------------------------------------------------------------
(* The sources of bytes                                                      *)

UnreadLast(s, bytes) == [s EXCEPT !.unread = @ \o bytes]                \* mutant

UnreadKeyBytes(s, bytes) ==
  IF Len(s.unread) + Len(bytes) > UnreadMax THEN [s EXCEPT !.dropped = TRUE]
  ELSE [s EXCEPT !.unread = bytes \o @]

InjectsBehind == ~recording /\ play < 0 /\ ~repeat                       \* mutant
TesterCanInject == unread = <<>> /\ ~recording /\ play < 0 /\ ~repeat

\* the tester, between two commands
Inject == \E bytes \in Injections :
  /\ reader = "get_key" /\ keys = <<>> /\ TesterCanInject
  /\ Become(UnreadKeyBytes([Now EXCEPT !.tested = TRUE], bytes))

\* a macro from its first byte on
Played(s) == [s EXCEPT !.play = 0, !.repeat = TRUE, !.ran = <<>>]

Recorded(s, c) ==
  IF ~s.recording THEN s
  ELSE IF Len(s.macro) < MacroMax THEN [s EXCEPT !.macro = Append(@, c)]
  ELSE [s EXCEPT !.recording = FALSE, !.cut = TRUE]

\* What is typed next.  Where ( ) [ and e are text like any other, a stands for
\* them.
Typed(s) ==
  {"a", "RET", "C-s", "C-x", "ESC"}
    \cup (IF "nul" \in Extras THEN {"NUL"} ELSE {})
    \cup (IF s.repeat THEN {"e"} ELSE {})
    \cup (IF s.keys = <<"C-x">> THEN {"(", ")", "e"} ELSE {})
    \cup (IF s.keys = <<"ESC">> \/ s.reader \in {"search ESC", "line_edit ESC"} THEN {"["} ELSE {})
    \cup (IF s.reader \in {"get_key escape", "line_edit parameters"} THEN {"("} ELSE {})

\* read_key_byte: the bytes it can return, each with the state it leaves
ReadKeyByte(s) ==
  IF s.unread # <<>> THEN {<<Head(s.unread), [s EXCEPT !.unread = Tail(@)]>>}
  ELSE IF s.play >= 0 /\ s.play < Len(s.macro)
       THEN {<<s.macro[s.play + 1], [s EXCEPT !.play = @ + 1]>>}
  ELSE LET quiet == [s EXCEPT !.play = -1, !.repeat = FALSE, !.ran = <<>>, !.tested = FALSE]
           Read(c) == IF s.repeat /\ c = "e" /\ s.macro # <<>>
                       THEN <<Head(s.macro), [Played(quiet) EXCEPT !.play = 1]>>
                       ELSE <<c, Recorded(quiet, c)>>
       IN  {Read(c) : c \in Typed(s)}

-----------------------------------------------------------------------------
(* Commands                                                                  *)

\* what was done is noted while a macro is recorded or played
Did(before, s, what) ==
  [s EXCEPT !.meant = IF before.recording /\ s.recording THEN Append(@, what) ELSE @,
            !.ran   = IF before.play >= 0 /\ s.play >= 0 THEN Append(@, what) ELSE @]

EndsWith(q, a, b) == Len(q) >= 2 /\ q[Len(q) - 1] = a /\ q[Len(q)] = b
Shorter(q) == SubSeq(q, 1, Len(q) - 2)

KmacroStart(s) ==
  IF s.recording THEN s
  ELSE [s EXCEPT !.macro = <<>>, !.recording = TRUE, !.meant = <<>>, !.cut = FALSE]

KmacroEndKeepingKeys(s) == [s EXCEPT !.recording = FALSE]               \* mutant

KmacroEnd(s) ==
  IF ~s.recording THEN s
  ELSE [s EXCEPT !.recording = FALSE,
                 !.macro = IF EndsWith(@, "C-x", ")") THEN Shorter(@) ELSE @]

KmacroCallRecording(s) ==                                               \* mutant
  IF s.play >= 0 \/ s.macro = <<>> THEN s ELSE Played(s)

KmacroCall(s) ==
  LET t == IF ~s.recording THEN s
           ELSE LET u == KmacroEnd(s)
                IN  [u EXCEPT !.macro = IF EndsWith(@, "C-x", "e") THEN Shorter(@) ELSE @]
  IN  IF t.play >= 0 \/ t.macro = <<>> THEN t ELSE Played(t)

\* the keys of more than one byte that the key map has, of those kept here, and
\* C-@: its bytes "\x00" are the empty C string
KeyMap == {<<"C-x", "(">>, <<"C-x", ")">>, <<"C-x", "e">>, <<"C-x", "C-x">>, <<"ESC", "[", "a">>, <<"ESC", "a">>,
           <<>>}

\* the C string that a sequence of bytes is: up to its first NUL
CString(q) == LET nuls == {i \in DOMAIN q : q[i] = "NUL"}
              IN  IF nuls = {} THEN q ELSE SubSeq(q, 1, Min(nuls) - 1)

StartsKey(q) == LET p == CString(q)
                IN  \E k \in KeyMap : Len(p) < Len(k) /\ p = SubSeq(k, 1, Len(p))

\* editor_dispatch_key for key q: C-s starts a search, ESC a a prompt (M-x)
Dispatched(s, q) ==
  LET t == [s EXCEPT !.keys = <<>>, !.reader = "get_key"]
  IN  Did(s, CASE q = <<"C-x", "(">> -> KmacroStart(t)
               [] q = <<"C-x", ")">> -> KmacroEnd(t)
               [] q = <<"C-x", "e">> -> KmacroCall(t)
               [] q = <<"C-s">>      -> [t EXCEPT !.reader = "search"]
               [] q = <<"ESC", "a">> -> [t EXCEPT !.reader = "line_edit"]
               [] OTHER              -> t, q)

\* The escape sequence q is complete: a final byte ends it, or the buffer is
\* full.
Complete(q) == (Len(q) > 2 /\ q[Len(q)] \in Final) \/ Len(q) >= KeyMax - 1

\* get_key with one more byte, in its first loop
GetKey(s, c) ==
  LET q == Append(s.keys, c)
  IN  IF CString(q) \in KeyMap THEN Dispatched(s, CString(q))
      ELSE IF StartsKey(q) THEN [s EXCEPT !.keys = q]
      ELSE IF Len(q) >= 2 /\ q[1] = "ESC" /\ q[2] = "[" /\ ~Complete(q)
      THEN [s EXCEPT !.keys = q, !.reader = "get_key escape"]
      ELSE Dispatched(s, q)

\* and in its second
GetEscape(s, c) ==
  LET q == Append(s.keys, c)
  IN  IF Complete(q) THEN Dispatched(s, q) ELSE [s EXCEPT !.keys = q]

-----------------------------------------------------------------------------
(* search() and line_edit()                                                  *)

Leave(s, what) == Did(s, [s EXCEPT !.reader = "get_key"], what)

Search(s, c) ==
  CASE  c = "RET" -> Leave(s, <<"search", c>>)
    [] c = "ESC"            -> [s EXCEPT !.reader = "search ESC"]
    [] c \in {"C-x", "NUL"} -> UnreadKeyBytes(Leave(s, <<"search", "RET">>), <<c>>)
    [] OTHER                -> Did(s, s, <<"search", c>>)

SearchEscape(s, c) ==
  UnreadKeyBytes(Leave(s, <<"search", "RET">>), IF c = "[" THEN <<"ESC", "[">> ELSE <<c>>)

LineEdit(s, c) ==
  CASE  c = "RET" -> Leave(s, <<"line_edit", c>>)
    [] c = "ESC"            -> [s EXCEPT !.reader = "line_edit ESC"]
    [] OTHER                -> Did(s, s, <<"line_edit", c>>)

\* read_escape: parameters end at a byte that is none
ReadEscape(s, c) ==
  IF s.reader = "line_edit ESC" /\ c = "[" THEN [s EXCEPT !.reader = "line_edit parameters"]
  ELSE IF s.reader = "line_edit parameters" /\ c \in {"(", ")"} THEN s
  ELSE Did(s, [s EXCEPT !.reader = "line_edit"], <<"line_edit", "ESC", c>>)

Taken(s, c) ==
  CASE s.reader = "get_key"        -> GetKey(s, c)
    [] s.reader = "get_key escape" -> GetEscape(s, c)
    [] s.reader = "search"         -> Search(s, c)
    [] s.reader = "search ESC"     -> SearchEscape(s, c)
    [] s.reader = "line_edit"      -> LineEdit(s, c)
    [] OTHER                       -> ReadEscape(s, c)

\* What is typed of these only with the Extras: C-x ( while a macro is recorded,
\* which has it then; C-x that ends a search while one is recorded, which, if it
\* is that of C-x ), is the byte of the macro that ends the search; and C-x e
\* for a macro that was cut, maybe inside of a key.
Nested(s, c) == s.recording /\ s.reader = "get_key" /\ s.keys = <<"C-x">> /\ c = "("
EndsSearch(s, c) == s.recording /\ s.reader \in {"search", "search ESC"} /\ c = "C-x"
PlaysCut(s, c) == s.cut /\ s.reader = "get_key" /\ s.keys = <<"C-x">> /\ c = "e"

ReadByte == \E r \in ReadKeyByte(Now) :
  /\ "nested" \in Extras \/ ~Nested(r[2], r[1])
  /\ "search ended by C-x" \in Extras \/ ~EndsSearch(r[2], r[1])
  /\ "play what was cut" \in Extras \/ ~PlaysCut(r[2], r[1])
  /\ Len(keys) < KeyMax
  /\ Become(Taken(r[2], r[1]))

Next == ReadByte \/ Inject

Spec == Init /\ [][Next]_vars

-----------------------------------------------------------------------------
(* Properties                                                                *)

TypeOK ==
  /\ {unread, macro, keys} \subseteq Seq(Bytes)
  /\ Len(unread) <= UnreadMax /\ Len(macro) <= MacroMax
  /\ play \in -1..MacroMax /\ reader \in Readers
  /\ {recording, repeat, cut, dropped, tested} \subseteq BOOLEAN
  /\ {meant, ran} \subseteq Seq(Seq(Bytes \cup {"search", "line_edit"}))

\* No store is too small: a key is complete before the buffer of get_key is
\* full, as key.c:449 asserts, and what a reader gives back always has room, for
\* it was read before, from the same store or while that was empty.
StoresSuffice == TypeOK /\ Len(keys) < KeyMax /\ ~dropped

\* The keys that the tester put in are read in their order, and the last one is
\* complete with the last byte: it "must never become a blocking read from the
\* physical keyboard" (key.c:256).
TesterNeverBlocks == tested /\ unread = <<>> => reader = "get_key" /\ keys = <<>>

\* Playing a macro does what its keys did when they were typed, in the same
\* order, and all of it, with nothing left to read for the last key, once all
\* its bytes were read.
ReplayMeansRecording ==
  play >= 0 => /\ IsPrefix(ran, meant)
               /\ play = Len(macro) /\ unread = <<>> =>
                    reader = "get_key" /\ keys = <<>> /\ ran = meant

\* The macro changes only by what is typed while it is recorded: never while
\* one is played.
PlayedMacroStays == [][play >= 0 /\ play' > play => macro' = macro /\ ~recording']_vars
=============================================================================
