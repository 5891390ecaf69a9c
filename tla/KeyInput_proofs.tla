---------------------------- MODULE KeyInput_proofs ----------------------------
(***************************************************************************)
(* Proofs about KeyInput, for stores of any size and any keys that the     *)
(* tester puts in: the types, and that no store of key.c is too small as   *)
(* long as no NUL is read but the one that is a key by itself, C-@; that   *)
(* playing a macro does what its keys did when they were typed; and that   *)
(* whole keys of the tester are read without a byte of the keyboard in     *)
(* between.                                                                *)
(*                                                                         *)
(* A byte that no command of macros ends with has an outcome that depends  *)
(* on the reader, its key so far and what was given back: not on macros.   *)
(* A way is a sequence of such outcomes.  The macro that is recorded leads *)
(* to the state, the macro that is played has the state on its way, and so *)
(* have the keys of the tester.                                            *)
(***************************************************************************)
EXTENDS KeyInput, SequenceTheorems, TLAPS

\* the bytes but for NUL, and what is noted as done
Plain == Bytes \ {"NUL"}
Notes == Bytes \cup {"search", "line_edit"}

\* no NUL is typed, and none is put in but as a key by itself: C-@
NoNul == "nul" \notin Extras /\ \A s \in Injections : s \in Seq(Plain) \/ s = <<"NUL">>

\* records of the state without NUL
States ==
  [unread : Seq(Plain), macro : Seq(Plain), recording : BOOLEAN, play : -1..MacroMax, repeat : BOOLEAN,
   reader : Readers, keys : Seq(Plain), meant : Seq(Seq(Notes)), ran : Seq(Seq(Notes)),
   cut : BOOLEAN, dropped : BOOLEAN, tested : BOOLEAN]

\* A search that has read ESC may give back two bytes: it has taken the first
\* of them from the store, or the store was empty.
Room(s) ==
  /\ Len(s.unread) <= UnreadMax /\ Len(s.macro) <= MacroMax /\ Len(s.keys) < KeyMax /\ ~s.dropped
  /\ s.reader = "search ESC" => Len(s.unread) < UnreadMax

\* A C-@ that was put in is the next byte, between two keys; Unmarked is the
\* state without it.
Marking == unread = <<"NUL">> => reader = "get_key" /\ keys = <<>> /\ ~recording /\ play < 0
Unmarked == IF unread = <<"NUL">> THEN [Now EXCEPT !.unread = <<>>] ELSE Now

\* the invariant that the stores need
IInv == Unmarked \in States /\ Room(Unmarked) /\ Marking

-----------------------------------------------------------------------------
(***************************************************************************)
(* Records of the state and what the helpers write to them.                *)
(***************************************************************************)
LEMMA Sizes == MacroMax \in Nat /\ UnreadMax \in Nat /\ UnreadMax >= 2 /\ KeyMax \in Nat /\ KeyMax >= 3
  BY KeySizes

\* bytes are notes, and none of them is NUL
LEMMA Texts ==
  /\ \A q \in Seq(Plain) : q \in Seq(Bytes) /\ q \in Seq(Notes)
  /\ \A c \in Plain : c \in Notes /\ c # "NUL"
<1>1. ASSUME NEW c \in Plain
      PROVE  c \in Notes /\ c \in Bytes /\ c # "NUL"
  BY DEF Plain, Notes
<1>2. ASSUME NEW q \in Seq(Plain)
      PROVE  q \in Seq(Bytes) /\ q \in Seq(Notes)
  <2>1. PICK n \in Nat : q \in [1..n -> Plain]
    BY SeqDef
  <2>2. q \in [1..n -> Bytes] /\ q \in [1..n -> Notes]
    BY <1>1, <2>1
  <2> QED BY <2>2, SeqDef
<1> QED BY <1>1, <1>2

\* the types of the fields
LEMMA Fields ==
  ASSUME NEW s \in States
  PROVE  /\ s.unread \in Seq(Plain) /\ s.macro \in Seq(Plain) /\ s.keys \in Seq(Plain)
         /\ s.meant \in Seq(Seq(Notes)) /\ s.ran \in Seq(Seq(Notes)) /\ s.play \in -1..MacroMax
         /\ s.reader \in Readers /\ s.recording \in BOOLEAN /\ s.repeat \in BOOLEAN
         /\ s.cut \in BOOLEAN /\ s.dropped \in BOOLEAN /\ s.tested \in BOOLEAN
  BY DEF States

\* what a helper that only deals with macros leaves alone
Aside(s, t) == t.unread = s.unread /\ t.keys = s.keys /\ t.reader = s.reader /\ t.dropped = s.dropped

\* a note changes the notes only
LEMMA Noted ==
  ASSUME NEW s \in States, NEW before, NEW what \in Seq(Notes)
  PROVE  Did(before, s, what) \in States /\ Aside(s, Did(before, s, what)) /\ Did(before, s, what).macro = s.macro
<1>1. PICK m, r : /\ Did(before, s, what) = [s EXCEPT !.meant = m, !.ran = r]
                  /\ m \in Seq(Seq(Notes)) /\ r \in Seq(Seq(Notes))
  <2>1. s.meant \in Seq(Seq(Notes)) /\ s.ran \in Seq(Seq(Notes))
    BY Fields
  <2>2. Append(s.meant, what) \in Seq(Seq(Notes)) /\ Append(s.ran, what) \in Seq(Seq(Notes))
    BY <2>1
  <2> QED BY <2>1, <2>2 DEF Did
<1>2. [s EXCEPT !.meant = m, !.ran = r] \in States
  BY <1>1 DEF States
<1>3. Aside(s, [s EXCEPT !.meant = m, !.ran = r]) /\ [s EXCEPT !.meant = m, !.ran = r].macro = s.macro
  BY DEF States, Aside
<1> QED BY <1>1, <1>2, <1>3

\* playing changes none of the stores
LEMMA PlayedIs ==
  ASSUME NEW s \in States
  PROVE  Played(s) \in States /\ Aside(s, Played(s)) /\ Played(s).macro = s.macro
<1>1. 0 \in -1..MacroMax /\ <<>> \in Seq(Seq(Notes))
  BY Sizes
<1> QED BY <1>1 DEF States, Aside, Played

\* a macro without its last two bytes is shorter
LEMMA CutKeys ==
  ASSUME NEW q \in Seq(Plain), NEW a, NEW b, EndsWith(q, a, b)
  PROVE  Shorter(q) \in Seq(Plain) /\ Len(Shorter(q)) <= Len(q)
<1>1. Len(q) \in Nat /\ Len(q) >= 2
  BY LenProperties DEF EndsWith
<1>2. \A i \in 1..(Len(q) - 2) : q[i] \in Plain
  BY <1>1
<1>3. SubSeq(q, 1, Len(q) - 2) \in Seq(Plain) /\ Len(SubSeq(q, 1, Len(q) - 2)) = Len(q) - 2
  <2>1. 1 \in Int /\ Len(q) - 2 \in Int /\ 1 <= Len(q) - 2 + 1
    BY <1>1
  <2>2. Len(q) - 2 - 1 + 1 = Len(q) - 2
    BY <1>1
  <2> QED BY <1>2, <2>1, <2>2, SubSeqProperties
<1> QED BY <1>1, <1>3 DEF Shorter

\* the three commands leave the macro inside of its store
LEMMA MacroStarts ==
  ASSUME NEW s \in States, Len(s.macro) <= MacroMax
  PROVE  /\ KmacroStart(s) \in States /\ Aside(s, KmacroStart(s)) /\ Len(KmacroStart(s).macro) <= MacroMax
<1>1. CASE s.recording
  BY <1>1 DEF KmacroStart, Aside
<1>2. CASE ~s.recording
  <2>1. KmacroStart(s) = [s EXCEPT !.macro = <<>>, !.recording = TRUE, !.meant = <<>>, !.cut = FALSE]
    BY <1>2 DEF KmacroStart
  <2>a. <<>> \in Seq(Plain) /\ <<>> \in Seq(Seq(Notes))
    OBVIOUS
  <2>b. KmacroStart(s) \in States
    BY <2>1, <2>a DEF States
  <2>2. KmacroStart(s) \in States /\ Aside(s, KmacroStart(s)) /\ KmacroStart(s).macro = <<>>
    BY <2>1, <2>b DEF States, Aside
  <2> QED BY <2>2, Sizes
<1> QED BY <1>1, <1>2

LEMMA MacroEnds ==
  ASSUME NEW s \in States, Len(s.macro) <= MacroMax
  PROVE  /\ KmacroEnd(s) \in States /\ Aside(s, KmacroEnd(s)) /\ Len(KmacroEnd(s).macro) <= MacroMax
<1>1. CASE ~s.recording
  BY <1>1 DEF KmacroEnd, Aside
<1>2. CASE s.recording
  <2>1. PICK m \in Seq(Plain) :
          KmacroEnd(s) = [s EXCEPT !.recording = FALSE, !.macro = m] /\ Len(m) <= MacroMax
    <3> DEFINE m == IF EndsWith(s.macro, "C-x", ")") THEN Shorter(s.macro) ELSE s.macro
    <3>1. s.macro \in Seq(Plain) /\ Len(s.macro) \in Nat
      BY Fields, LenProperties
    <3>2. m \in Seq(Plain) /\ Len(m) <= Len(s.macro) /\ Len(m) \in Nat
      BY <3>1, CutKeys, LenProperties
    <3>3. KmacroEnd(s) = [s EXCEPT !.recording = FALSE, !.macro = m]
      BY <1>2 DEF KmacroEnd
    <3> HIDE DEF m
    <3>4. Len(m) <= MacroMax
      BY <3>1, <3>2, Sizes
    <3> QED BY <3>2, <3>3, <3>4
  <2>2. KmacroEnd(s) \in States /\ Aside(s, KmacroEnd(s)) /\ KmacroEnd(s).macro = m
    BY <2>1 DEF States, Aside
  <2> QED BY <2>1, <2>2
<1> QED BY <1>1, <1>2, Fields

LEMMA MacroPlays ==
  ASSUME NEW s \in States, Len(s.macro) <= MacroMax
  PROVE  /\ KmacroCall(s) \in States /\ Aside(s, KmacroCall(s)) /\ Len(KmacroCall(s).macro) <= MacroMax
<1> DEFINE u == KmacroEnd(s)
           m == IF EndsWith(u.macro, "C-x", "e") THEN Shorter(u.macro) ELSE u.macro
           t == IF ~s.recording THEN s ELSE [u EXCEPT !.macro = m]
<1>1. u \in States /\ Aside(s, u) /\ Len(u.macro) <= MacroMax /\ u.macro \in Seq(Plain) /\ Len(u.macro) \in Nat
  BY MacroEnds, Fields, LenProperties
<1> HIDE DEF u
<1>2. m \in Seq(Plain) /\ Len(m) <= Len(u.macro) /\ Len(m) \in Nat
  BY <1>1, CutKeys, LenProperties
<1> HIDE DEF m
<1>3. [u EXCEPT !.macro = m] \in States /\ Aside(u, [u EXCEPT !.macro = m]) /\ [u EXCEPT !.macro = m].macro = m
  BY <1>1, <1>2 DEF States, Aside
<1>4. t \in States /\ Aside(s, t) /\ Len(t.macro) <= MacroMax
  <2>1. CASE s.recording
    <3>1. Len(m) <= MacroMax
      BY <1>1, <1>2, Sizes
    <3> QED BY <1>1, <1>3, <2>1, <3>1 DEF Aside
  <2>2. CASE ~s.recording
    BY <2>2 DEF Aside
  <2> QED BY <2>1, <2>2, Fields
<1>5. KmacroCall(s) = IF t.play >= 0 \/ t.macro = <<>> THEN t ELSE Played(t)
  BY DEF KmacroCall, t, u, m
<1> HIDE DEF t
<1> QED BY <1>4, <1>5, PlayedIs DEF Aside

-----------------------------------------------------------------------------
(***************************************************************************)
(* What a reader does with a byte.                                         *)
(***************************************************************************)
\* the state after a byte was read and before it is used
Fresh(s) ==
  /\ Len(s.unread) + 1 <= UnreadMax /\ Len(s.macro) <= MacroMax /\ Len(s.keys) < KeyMax /\ ~s.dropped
  /\ s.reader = "search ESC" => Len(s.unread) + 2 <= UnreadMax

\* without NUL the C string is the whole sequence
LEMMA PlainString ==
  ASSUME NEW q \in Seq(Plain)
  PROVE  CString(q) = q
<1>1. \A i \in DOMAIN q : q[i] # "NUL"
  BY Texts
<1>2. {i \in DOMAIN q : q[i] = "NUL"} = {}
  BY <1>1
<1> QED BY <1>2 DEF CString

\* a key that has a longer one in the map is short
LEMMA ShortStart ==
  ASSUME NEW q \in Seq(Plain), StartsKey(q)
  PROVE  Len(q) < KeyMax
<1>1. CString(q) = q /\ Len(q) \in Nat
  BY PlainString, LenProperties
<1>3. PICK k \in KeyMap : Len(q) < Len(k)
  BY <1>1 DEF StartsKey
<1>4. Len(k) \in {0, 1, 2, 3}
  BY DEF KeyMap
<1>5. PICK n \in {0, 1, 2, 3} : Len(q) < n
  BY <1>3, <1>4
<1>6. n <= KeyMax /\ KeyMax \in Nat
  BY Sizes
<1>7. Len(q) < KeyMax
  <2> DEFINE l == Len(q)
  <2>1. l \in Nat /\ l < n
    BY <1>1, <1>5
  <2> HIDE DEF l
  <2>2. l < KeyMax
    BY <1>6, <2>1
  <2> QED BY <2>2 DEF l
<1> QED BY <1>7

\* a key that is dispatched leaves nothing of itself behind
LEMMA Dispatches ==
  ASSUME NEW s \in States, NEW q \in Seq(Plain), Fresh(s)
  PROVE  Dispatched(s, q) \in States /\ Room(Dispatched(s, q))
<1> DEFINE t == [s EXCEPT !.keys = <<>>, !.reader = "get_key"]
<1>1. t \in States /\ t.keys = <<>> /\ t.reader = "get_key" /\ t.unread = s.unread /\ t.macro = s.macro
      /\ t.dropped = s.dropped
  <2>1. <<>> \in Seq(Plain) /\ "get_key" \in Readers
    BY DEF Readers
  <2> QED BY <2>1 DEF States
<1> HIDE DEF t
<1>2. Len(t.macro) <= MacroMax
  BY <1>1 DEF Fresh
<1>3. ASSUME NEW u, u \in States, u.unread = s.unread, u.keys = <<>>, u.reader # "search ESC", u.dropped = s.dropped,
             Len(u.macro) <= MacroMax
      PROVE  Did(s, u, q) \in States /\ Room(Did(s, u, q))
  <2> DEFINE d == Did(s, u, q)
  <2>1. d \in States /\ Aside(u, d) /\ d.macro = u.macro
    BY <1>3, Noted, Texts
  <2> HIDE DEF d
  <2>2. Len(d.keys) < KeyMax /\ Len(d.unread) <= UnreadMax
    <3>1. Len(s.unread) \in Nat /\ Len(s.unread) + 1 <= UnreadMax /\ d.unread = s.unread /\ d.keys = <<>>
      BY <1>3, <2>1, Fields, LenProperties DEF Fresh, Aside
    <3> QED BY <3>1, Sizes
  <2>3. d.reader # "search ESC" /\ ~d.dropped /\ Len(d.macro) <= MacroMax
    BY <1>3, <2>1 DEF Fresh, Aside
  <2> QED BY <2>1, <2>2, <2>3 DEF Room, d
<1>4. CASE q = <<"C-x", "(">>
  <2>1. Dispatched(s, q) = Did(s, KmacroStart(t), q)
    BY <1>4 DEF Dispatched, t
  <2>2. KmacroStart(t) \in States /\ Aside(t, KmacroStart(t)) /\ Len(KmacroStart(t).macro) <= MacroMax
    BY <1>1, <1>2, MacroStarts
  <2> QED BY <1>1, <1>3, <2>1, <2>2 DEF Aside
<1>5. CASE q = <<"C-x", ")">>
  <2>1. Dispatched(s, q) = Did(s, KmacroEnd(t), q)
    BY <1>5 DEF Dispatched, t
  <2>2. KmacroEnd(t) \in States /\ Aside(t, KmacroEnd(t)) /\ Len(KmacroEnd(t).macro) <= MacroMax
    BY <1>1, <1>2, MacroEnds
  <2> QED BY <1>1, <1>3, <2>1, <2>2 DEF Aside
<1>6. CASE q = <<"C-x", "e">>
  <2>1. Dispatched(s, q) = Did(s, KmacroCall(t), q)
    BY <1>6 DEF Dispatched, t
  <2>2. KmacroCall(t) \in States /\ Aside(t, KmacroCall(t)) /\ Len(KmacroCall(t).macro) <= MacroMax
    BY <1>1, <1>2, MacroPlays
  <2> QED BY <1>1, <1>3, <2>1, <2>2 DEF Aside
<1>7. CASE q \notin {<<"C-x", "(">>, <<"C-x", ")">>, <<"C-x", "e">>}
  <2>1. PICK r \in {"search", "line_edit", "get_key"} : Dispatched(s, q) = Did(s, [t EXCEPT !.reader = r], q)
    <3>1. [t EXCEPT !.reader = "get_key"] = t
      BY <1>1 DEF States
    <3>2. CASE q = <<"C-s">>
      <4>1. Dispatched(s, q) = Did(s, [t EXCEPT !.reader = "search"], q)
        BY <3>2 DEF Dispatched, t
      <4> QED BY <4>1
    <3>3. CASE q = <<"ESC", "a">>
      <4>1. Dispatched(s, q) = Did(s, [t EXCEPT !.reader = "line_edit"], q)
        BY <3>3 DEF Dispatched, t
      <4> QED BY <4>1
    <3>4. CASE q \notin {<<"C-s">>, <<"ESC", "a">>}
      <4>1. Dispatched(s, q) = Did(s, t, q)
        BY <1>7, <3>4 DEF Dispatched, t
      <4> QED BY <3>1, <4>1
    <3> QED BY <3>2, <3>3, <3>4
  <2> DEFINE u == [t EXCEPT !.reader = r]
  <2>2. u \in States /\ u.unread = t.unread /\ u.keys = t.keys /\ u.reader = r /\ u.dropped = t.dropped
        /\ u.macro = t.macro
    BY <1>1 DEF States, Readers
  <2>3. u.reader # "search ESC"
    BY <2>2
  <2> HIDE DEF u
  <2>4. Did(s, u, q) \in States /\ Room(Did(s, u, q))
    BY <1>1, <1>2, <1>3, <2>2, <2>3
  <2> QED BY <2>1, <2>4 DEF u
<1> QED BY <1>4, <1>5, <1>6, <1>7

\* a byte that was read left room behind it
LEMMA FreshRoom ==
  ASSUME NEW s \in States, Fresh(s)
  PROVE  Room(s) /\ Len(s.unread) \in Nat
<1>1. s.unread \in Seq(Plain) /\ Len(s.unread) \in Nat
  BY Fields, LenProperties
<1> DEFINE l == Len(s.unread)
<1>2. l + 1 <= UnreadMax /\ l \in Nat
  BY <1>1 DEF Fresh
<1> HIDE DEF l
<1>3. l <= UnreadMax /\ l < UnreadMax
  BY <1>2, Sizes
<1> QED BY <1>1, <1>3 DEF Fresh, Room, l

\* what fits is not dropped
LEMMA Fits == \A k, l, m \in Nat : k + l <= m => ~(k + l > m) /\ l + k = k + l
  OBVIOUS

\* bytes that fit are given back
LEMMA GivesBack ==
  ASSUME NEW s \in States, Room(s), s.reader # "search ESC", NEW bytes \in Seq(Plain),
         Len(s.unread) + Len(bytes) <= UnreadMax
  PROVE  UnreadKeyBytes(s, bytes) \in States /\ Room(UnreadKeyBytes(s, bytes))
<1>1. s.unread \in Seq(Plain) /\ Len(s.unread) \in Nat /\ Len(bytes) \in Nat /\ UnreadMax \in Nat
  BY Fields, LenProperties, Sizes
<1>2. bytes \o s.unread \in Seq(Plain) /\ Len(bytes \o s.unread) = Len(bytes) + Len(s.unread)
  BY <1>1, ConcatProperties
<1>a. /\ ~(Len(s.unread) + Len(bytes) > UnreadMax)
      /\ Len(bytes) + Len(s.unread) = Len(s.unread) + Len(bytes)
  BY <1>1, Fits
<1> DEFINE u == bytes \o s.unread
           t == [s EXCEPT !.unread = u]
<1>3. UnreadKeyBytes(s, bytes) = t
  BY <1>a DEF UnreadKeyBytes
<1>4. u \in Seq(Plain) /\ Len(u) <= UnreadMax
  BY <1>2, <1>a
<1> HIDE DEF u
<1>5. t \in States /\ t.unread = u /\ t.macro = s.macro /\ t.keys = s.keys /\ t.reader = s.reader
      /\ t.dropped = s.dropped
  BY <1>4 DEF States
<1> QED BY <1>3, <1>4, <1>5 DEF Room

\* one more byte in the first loop of get_key
LEMMA KeyTaken ==
  ASSUME NEW s \in States, NEW c \in Plain, Fresh(s)
  PROVE  /\ GetKey(s, c) \in States /\ Room(GetKey(s, c))
         /\ s.reader = "get_key escape" => GetEscape(s, c) \in States /\ Room(GetEscape(s, c))
<1> DEFINE q == Append(s.keys, c)
<1>1. q \in Seq(Plain) /\ CString(q) = q /\ Len(q) \in Nat
  <2>1. q \in Seq(Plain)
    BY Fields
  <2> QED BY <2>1, PlainString, LenProperties
<1> HIDE DEF q
<1>2. Dispatched(s, q) \in States /\ Room(Dispatched(s, q))
  BY <1>1, Dispatches
<1>3. Len(s.unread) <= UnreadMax /\ Len(s.unread) < UnreadMax /\ Len(s.macro) <= MacroMax /\ ~s.dropped
  <2>1. Room(s) /\ Len(s.unread) \in Nat /\ Len(s.unread) + 1 <= UnreadMax
    BY FreshRoom DEF Fresh
  <2>2. Len(s.unread) < UnreadMax
    BY <2>1, Sizes
  <2> QED BY <2>1, <2>2 DEF Room
<1>4. ASSUME Len(q) < KeyMax, NEW place \in Readers
      PROVE  LET t == [s EXCEPT !.keys = q, !.reader = place] IN t \in States /\ Room(t)
  <2> DEFINE t == [s EXCEPT !.keys = q, !.reader = place]
  <2>1. t \in States /\ t.unread = s.unread /\ t.macro = s.macro /\ t.keys = q /\ t.dropped = s.dropped
    BY <1>1 DEF States
  <2> HIDE DEF t
  <2>2. t \in States /\ Room(t)
    BY <1>3, <1>4, <2>1 DEF Room
  <2> QED BY <2>2 DEF t
<1>5. [s EXCEPT !.keys = q] = [s EXCEPT !.keys = q, !.reader = s.reader]
  BY DEF States
<1>6. s.reader \in Readers /\ "get_key escape" \in Readers
  BY Fields DEF Readers
<1>7. ~Complete(q) => Len(q) < KeyMax
  <2> DEFINE l == Len(q)
  <2>1. ~Complete(q) => ~(l >= KeyMax - 1)
    BY DEF Complete
  <2>2. l \in Nat
    BY <1>1
  <2> HIDE DEF l
  <2>3. ~Complete(q) => l < KeyMax
    BY <2>1, <2>2, Sizes
  <2> QED BY <2>3 DEF l
<1>8. \/ GetKey(s, c) = Dispatched(s, q)
      \/ StartsKey(q) /\ GetKey(s, c) = [s EXCEPT !.keys = q]
      \/ ~Complete(q) /\ GetKey(s, c) = [s EXCEPT !.keys = q, !.reader = "get_key escape"]
  BY <1>1 DEF GetKey, q
<1>9. StartsKey(q) => Len(q) < KeyMax
  BY <1>1, ShortStart
<1>10. GetKey(s, c) \in States /\ Room(GetKey(s, c))
  BY <1>2, <1>4, <1>5, <1>6, <1>7, <1>8, <1>9
<1>11. GetEscape(s, c) = Dispatched(s, q) \/ (~Complete(q) /\ GetEscape(s, c) = [s EXCEPT !.keys = q])
  BY DEF GetEscape, q
<1>12. GetEscape(s, c) \in States /\ Room(GetEscape(s, c))
  BY <1>2, <1>4, <1>5, <1>6, <1>7, <1>11
<1> QED BY <1>10, <1>12

\* search() or line_edit() is left
LEMMA Left ==
  ASSUME NEW s \in States, Fresh(s), NEW what \in Seq(Notes), NEW place \in Readers \ {"search ESC"}
  PROVE  LET t == Did(s, [s EXCEPT !.reader = place], what)
         IN  t \in States /\ Room(t) /\ t.unread = s.unread /\ t.reader = place
<1> DEFINE u == [s EXCEPT !.reader = place]
<1>1. u \in States /\ u.unread = s.unread /\ u.macro = s.macro /\ u.keys = s.keys /\ u.reader = place
      /\ u.dropped = s.dropped
  BY DEF States
<1> HIDE DEF u
<1>2. Did(s, u, what) \in States /\ Aside(u, Did(s, u, what)) /\ Did(s, u, what).macro = u.macro
  BY <1>1, Noted
<1>3. Room(s) /\ place # "search ESC"
  BY FreshRoom
<1> QED BY <1>1, <1>2, <1>3 DEF Room, Aside, u

\* whatever reads the byte, the stores suffice
LEMMA ByteTaken ==
  ASSUME NEW s \in States, NEW c \in Plain, Fresh(s)
  PROVE  Taken(s, c) \in States /\ Room(Taken(s, c))
<1>1. /\ <<"search", c>> \in Seq(Notes) /\ <<"search", "RET">> \in Seq(Notes) /\ <<"line_edit", c>> \in Seq(Notes)
      /\ <<"line_edit", "ESC", c>> \in Seq(Notes)
  <2>1. "search" \in Notes /\ "line_edit" \in Notes /\ "RET" \in Notes /\ "ESC" \in Notes /\ c \in Notes
    BY Texts DEF Notes, Bytes
  <2> QED BY <2>1
<1>2. Room(s) /\ Len(s.unread) \in Nat /\ Len(s.unread) + 1 <= UnreadMax
  BY FreshRoom DEF Fresh
<1>3. /\ {"get_key", "search", "line_edit", "line_edit ESC", "line_edit parameters"}
           \subseteq Readers \ {"search ESC"}
      /\ "search ESC" \in Readers
  BY DEF Readers
<1>4. ASSUME NEW what \in Seq(Notes)
      PROVE  /\ Leave(s, what) \in States /\ Room(Leave(s, what)) /\ Leave(s, what).unread = s.unread
             /\ Leave(s, what).reader = "get_key"
  BY <1>3, Left DEF Leave
<1>5. ASSUME NEW what \in Seq(Notes), s.reader # "search ESC"
      PROVE  Did(s, s, what) \in States /\ Room(Did(s, s, what))
  <2>1. [s EXCEPT !.reader = s.reader] = s
    BY DEF States
  <2>2. s.reader \in Readers \ {"search ESC"}
    BY <1>5, Fields
  <2> QED BY <2>1, <2>2, Left
<1>6. CASE s.reader = "get_key"
  BY <1>6, KeyTaken DEF Taken
<1>7. CASE s.reader = "get_key escape"
  <2>1. Taken(s, c) = GetEscape(s, c)
    BY <1>7 DEF Taken
  <2> QED BY <1>7, <2>1, KeyTaken
<1>8. CASE s.reader = "search"
  <2>1. Taken(s, c) = Search(s, c)
    BY <1>8 DEF Taken
  <2>2. CASE c = "RET"
    <3>1. Search(s, c) = Leave(s, <<"search", c>>)
      BY <2>2 DEF Search
    <3> QED BY <1>1, <1>4, <2>1, <3>1
  <2>3. CASE c = "ESC"
    <3> DEFINE t == [s EXCEPT !.reader = "search ESC"]
    <3>1. Search(s, c) = t
      BY <2>3 DEF Search
    <3>2. t \in States /\ t.unread = s.unread /\ t.macro = s.macro /\ t.keys = s.keys /\ t.dropped = s.dropped
      BY <1>3 DEF States
    <3> HIDE DEF t
    <3>3. Len(s.unread) < UnreadMax
      <4> DEFINE l == Len(s.unread)
      <4>1. l \in Nat /\ l + 1 <= UnreadMax
        BY <1>2
      <4> HIDE DEF l
      <4>2. l < UnreadMax
        BY <4>1, Sizes
      <4> QED BY <4>2 DEF l
    <3> QED BY <1>2, <2>1, <3>1, <3>2, <3>3 DEF Room
  <2>4. CASE c = "C-x"
    <3>1. Search(s, c) = UnreadKeyBytes(Leave(s, <<"search", "RET">>), <<c>>)
      BY <2>4 DEF Search
    <3> DEFINE t == Leave(s, <<"search", "RET">>)
    <3>2. t \in States /\ Room(t) /\ t.unread = s.unread /\ t.reader # "search ESC"
      BY <1>1, <1>4
    <3> HIDE DEF t
    <3>3. <<c>> \in Seq(Plain) /\ Len(<<c>>) = 1
      OBVIOUS
    <3>4. Len(t.unread) + Len(<<c>>) <= UnreadMax
      BY <1>2, <3>2, <3>3
    <3> QED BY <2>1, <3>1, <3>2, <3>3, <3>4, GivesBack DEF t
  <2>5. CASE c \notin {"RET", "ESC", "C-x"}
    <3>1. Search(s, c) = Did(s, s, <<"search", c>>)
      BY <2>5, Texts DEF Search
    <3> QED BY <1>1, <1>5, <1>8, <2>1, <3>1
  <2> QED BY <2>2, <2>3, <2>4, <2>5
<1>9. CASE s.reader = "search ESC"
  <2>1. Taken(s, c) = SearchEscape(s, c)
    BY <1>9 DEF Taken
  <2> DEFINE t == Leave(s, <<"search", "RET">>)
             bytes == IF c = "[" THEN <<"ESC", "[">> ELSE <<c>>
  <2>2. t \in States /\ Room(t) /\ t.unread = s.unread /\ t.reader # "search ESC"
    BY <1>1, <1>4
  <2>3. bytes \in Seq(Plain) /\ Len(bytes) \in {1, 2}
    <3>1. "ESC" \in Plain /\ "[" \in Plain
      BY DEF Plain, Bytes
    <3> QED BY <3>1
  <2>4. SearchEscape(s, c) = UnreadKeyBytes(t, bytes)
    BY DEF SearchEscape
  <2> HIDE DEF t, bytes
  <2>5. Len(s.unread) + 2 <= UnreadMax
    BY <1>9 DEF Fresh
  <2>6. Len(t.unread) + Len(bytes) <= UnreadMax
    BY <1>2, <2>2, <2>3, <2>5, Sizes
  <2> QED BY <2>1, <2>2, <2>3, <2>4, <2>6, GivesBack
<1>10. CASE s.reader = "line_edit"
  <2>1. Taken(s, c) = LineEdit(s, c)
    BY <1>10 DEF Taken
  <2>2. CASE c = "RET"
    <3>1. LineEdit(s, c) = Leave(s, <<"line_edit", c>>)
      BY <2>2 DEF LineEdit
    <3> QED BY <1>1, <1>4, <2>1, <3>1
  <2>3. CASE c = "ESC"
    <3> DEFINE t == [s EXCEPT !.reader = "line_edit ESC"]
    <3>1. LineEdit(s, c) = t
      BY <2>3 DEF LineEdit
    <3>2. t \in States /\ t.unread = s.unread /\ t.macro = s.macro /\ t.keys = s.keys /\ t.dropped = s.dropped
          /\ t.reader = "line_edit ESC"
      BY <1>3 DEF States
    <3> HIDE DEF t
    <3> QED BY <1>2, <2>1, <3>1, <3>2 DEF Room
  <2>4. CASE c \notin {"RET", "ESC"}
    <3>1. LineEdit(s, c) = Did(s, s, <<"line_edit", c>>)
      BY <2>4 DEF LineEdit
    <3> QED BY <1>1, <1>5, <1>10, <2>1, <3>1
  <2> QED BY <2>2, <2>3, <2>4
<1>11. CASE s.reader \in {"line_edit ESC", "line_edit parameters"}
  <2>1. Taken(s, c) = ReadEscape(s, c)
    BY <1>11 DEF Taken
  <2>2. CASE s.reader = "line_edit ESC" /\ c = "["
    <3> DEFINE t == [s EXCEPT !.reader = "line_edit parameters"]
    <3>1. ReadEscape(s, c) = t
      BY <2>2 DEF ReadEscape
    <3>2. t \in States /\ t.unread = s.unread /\ t.macro = s.macro /\ t.keys = s.keys /\ t.dropped = s.dropped
          /\ t.reader = "line_edit parameters"
      BY <1>3 DEF States
    <3> HIDE DEF t
    <3> QED BY <1>2, <2>1, <3>1, <3>2 DEF Room
  <2>3. CASE s.reader = "line_edit parameters" /\ c \in {"(", ")"}
    <3>1. ReadEscape(s, c) = s
      BY <2>3 DEF ReadEscape
    <3> QED BY <1>2, <2>1, <3>1
  <2>4. CASE ~(s.reader = "line_edit ESC" /\ c = "[") /\ ~(s.reader = "line_edit parameters" /\ c \in {"(", ")"})
    <3>1. ReadEscape(s, c) = Did(s, [s EXCEPT !.reader = "line_edit"], <<"line_edit", "ESC", c>>)
      BY <2>4 DEF ReadEscape
    <3>2. "line_edit" \in Readers \ {"search ESC"} /\ <<"line_edit", "ESC", c>> \in Seq(Notes)
      BY <1>1, <1>3
    <3> DEFINE d == Did(s, [s EXCEPT !.reader = "line_edit"], <<"line_edit", "ESC", c>>)
    <3>3. d \in States /\ Room(d)
      BY <3>2, Left
    <3> QED BY <2>1, <3>1, <3>3
  <2> QED BY <2>2, <2>3, <2>4
<1> QED BY <1>6, <1>7, <1>8, <1>9, <1>10, <1>11, Fields DEF Readers

-----------------------------------------------------------------------------
(***************************************************************************)
(* Where a byte comes from.                                                *)
(***************************************************************************)
LEMMA TypedIsPlain ==
  ASSUME NoNul, NEW s
  PROVE  Typed(s) \subseteq Plain
<1>1. {"a", "RET", "C-s", "C-x", "ESC", "e", "(", ")", "["} \subseteq Plain
  BY DEF Plain, Bytes
<1>2. Typed(s) \subseteq {"a", "RET", "C-s", "C-x", "ESC", "e", "(", ")", "["}
  BY DEF Typed, NoNul
<1> QED BY <1>1, <1>2

\* an empty store has room for two bytes
LEMMA EmptyStore == Len(<<>>) + 1 <= UnreadMax /\ Len(<<>>) + 2 <= UnreadMax
<1>1. Len(<<>>) = 0
  OBVIOUS
<1> QED BY <1>1, Sizes

\* a byte taken makes room
LEMMA OneLess == \A k, l, m \in Nat : k = l - 1 /\ l <= m => k + 1 <= m /\ (l < m => k + 2 <= m)
  OBVIOUS

\* at the end of what is given back and played
LEMMA Quieted ==
  ASSUME NEW s \in States, Room(s), s.unread = <<>>
  PROVE  LET quiet == [s EXCEPT !.play = -1, !.repeat = FALSE, !.ran = <<>>, !.tested = FALSE]
         IN  /\ quiet \in States /\ Fresh(quiet) /\ quiet.macro = s.macro
             /\ \A c \in Plain : Recorded(quiet, c) \in States /\ Fresh(Recorded(quiet, c))
             /\ s.macro # <<>> => /\ [Played(quiet) EXCEPT !.play = 1] \in States
                                  /\ Fresh([Played(quiet) EXCEPT !.play = 1])
<1> DEFINE quiet == [s EXCEPT !.play = -1, !.repeat = FALSE, !.ran = <<>>, !.tested = FALSE]
<1>1. -1 \in -1..MacroMax /\ <<>> \in Seq(Seq(Notes))
  BY Sizes
<1>2. quiet \in States /\ Aside(s, quiet) /\ quiet.macro = s.macro
  BY <1>1 DEF States, Aside
<1> HIDE DEF quiet
<1>3. ASSUME NEW t, Aside(s, t), Len(t.macro) <= MacroMax
      PROVE  Fresh(t)
  BY <1>3, EmptyStore DEF Fresh, Room, Aside
<1>4. Len(s.macro) <= MacroMax /\ s.macro \in Seq(Plain) /\ Len(s.macro) \in Nat
  BY Fields, LenProperties DEF Room
<1>5. ASSUME NEW c \in Plain
      PROVE  Recorded(quiet, c) \in States /\ Fresh(Recorded(quiet, c))
  <2>1. CASE ~quiet.recording
    <3>1. Recorded(quiet, c) = quiet
      BY <2>1 DEF Recorded
    <3> QED BY <1>2, <1>3, <1>4, <3>1
  <2>2. CASE quiet.recording /\ Len(quiet.macro) < MacroMax
    <3> DEFINE m == Append(quiet.macro, c)
               t == [quiet EXCEPT !.macro = m]
    <3>1. Recorded(quiet, c) = t
      BY <2>2 DEF Recorded
    <3>2. m \in Seq(Plain) /\ Len(m) = Len(s.macro) + 1
      BY <1>2, <1>4
    <3> HIDE DEF m
    <3>3. t \in States /\ Aside(quiet, t) /\ t.macro = m
      BY <1>2, <3>2 DEF States, Aside
    <3>4. Len(m) <= MacroMax
      <4>1. Len(s.macro) < MacroMax
        BY <1>2, <2>2
      <4> QED BY <1>4, <3>2, <4>1, Sizes
    <3> HIDE DEF t
    <3>5. Aside(s, t)
      BY <1>2, <3>3 DEF Aside
    <3> QED BY <1>3, <3>1, <3>3, <3>4, <3>5
  <2>3. CASE quiet.recording /\ ~(Len(quiet.macro) < MacroMax)
    <3> DEFINE t == [quiet EXCEPT !.recording = FALSE, !.cut = TRUE]
    <3>1. Recorded(quiet, c) = t
      BY <2>3 DEF Recorded
    <3>2. t \in States /\ Aside(quiet, t) /\ t.macro = quiet.macro
      BY <1>2 DEF States, Aside
    <3> HIDE DEF t
    <3>3. Aside(s, t)
      BY <1>2, <3>2 DEF Aside
    <3> QED BY <1>2, <1>3, <1>4, <3>1, <3>2, <3>3
  <2> QED BY <2>1, <2>2, <2>3
<1>6. ASSUME s.macro # <<>>
      PROVE  LET t == [Played(quiet) EXCEPT !.play = 1] IN t \in States /\ Fresh(t)
  <2> DEFINE p == Played(quiet)
             t == [p EXCEPT !.play = 1]
  <2>1. 1 \in -1..MacroMax
    <3>1. Len(s.macro) # 0
      BY <1>4, <1>6, EmptySeq
    <3> QED BY <1>4, <3>1, Sizes
  <2>2. p \in States /\ Aside(quiet, p) /\ p.macro = quiet.macro
    BY <1>2, PlayedIs
  <2> HIDE DEF p
  <2>3. t \in States /\ Aside(p, t) /\ t.macro = p.macro
    BY <2>1, <2>2 DEF States, Aside
  <2> HIDE DEF t
  <2>4. Aside(s, t)
    BY <1>2, <2>2, <2>3 DEF Aside
  <2>5. t \in States /\ Fresh(t)
    BY <1>2, <1>3, <1>4, <2>2, <2>3, <2>4
  <2> QED BY <2>5 DEF t, p
<1>7. Fresh(quiet)
  BY <1>2, <1>3, <1>4
<1> QED BY <1>2, <1>5, <1>6, <1>7 DEF quiet

\* whatever read_key_byte returns
LEMMA Reads ==
  ASSUME NoNul, NEW s \in States, Room(s), NEW r \in ReadKeyByte(s)
  PROVE  r[1] \in Plain /\ r[2] \in States /\ Fresh(r[2])
<1>0. s.unread \in Seq(Plain) /\ Len(s.unread) \in Nat /\ UnreadMax \in Nat
  BY Fields, LenProperties, Sizes
<1>1. CASE s.unread # <<>>
  <2> DEFINE u == Tail(s.unread)
             t == [s EXCEPT !.unread = u]
  <2>1. r = <<Head(s.unread), t>>
    BY <1>1 DEF ReadKeyByte
  <2>2. Head(s.unread) \in Plain /\ u \in Seq(Plain) /\ Len(u) = Len(s.unread) - 1 /\ Len(u) \in Nat
    <3>1. Head(s.unread) \in Plain /\ u \in Seq(Plain) /\ Len(u) = Len(s.unread) - 1
      BY <1>0, <1>1, HeadTailProperties
    <3> QED BY <3>1, LenProperties
  <2> HIDE DEF u
  <2>3. t \in States /\ t.unread = u /\ t.macro = s.macro /\ t.keys = s.keys /\ t.reader = s.reader
        /\ t.dropped = s.dropped
    BY <2>2 DEF States
  <2> HIDE DEF t
  <2>4. Len(u) + 1 <= UnreadMax /\ (Len(s.unread) < UnreadMax => Len(u) + 2 <= UnreadMax)
    BY <1>0, <2>2, OneLess DEF Room
  <2>5. Fresh(t)
    BY <2>3, <2>4 DEF Fresh, Room
  <2> QED BY <2>1, <2>2, <2>3, <2>5
<1>2. CASE s.unread = <<>> /\ s.play >= 0 /\ s.play < Len(s.macro)
  <2> DEFINE t == [s EXCEPT !.play = s.play + 1]
  <2>1. r = <<s.macro[s.play + 1], t>>
    BY <1>2 DEF ReadKeyByte
  <2>2. s.play + 1 \in -1..MacroMax /\ s.play + 1 \in 1..Len(s.macro) /\ s.macro \in Seq(Plain)
    <3>1. s.play \in Int /\ s.macro \in Seq(Plain) /\ Len(s.macro) \in Nat /\ Len(s.macro) <= MacroMax
      <4>1. s.play \in -1..MacroMax /\ s.macro \in Seq(Plain)
        BY Fields
      <4>2. s.play \in Int
        BY <4>1, Sizes
      <4> QED BY <4>1, <4>2, LenProperties DEF Room
    <3> QED BY <1>2, <3>1, Sizes
  <2>3. s.macro[s.play + 1] \in Plain
    BY <2>2
  <2>4. t \in States /\ Aside(s, t) /\ t.macro = s.macro
    BY <2>2 DEF States, Aside
  <2> HIDE DEF t
  <2>5. Fresh(t)
    BY <1>2, <2>4, EmptyStore DEF Fresh, Room, Aside
  <2> QED BY <2>1, <2>3, <2>4, <2>5
<1>3. CASE s.unread = <<>> /\ ~(s.play >= 0 /\ s.play < Len(s.macro))
  <2> DEFINE quiet == [s EXCEPT !.play = -1, !.repeat = FALSE, !.ran = <<>>, !.tested = FALSE]
             Read(c) == IF s.repeat /\ c = "e" /\ s.macro # <<>>
                          THEN <<Head(s.macro), [Played(quiet) EXCEPT !.play = 1]>>
                          ELSE <<c, Recorded(quiet, c)>>
  <2>1. ReadKeyByte(s) = {Read(c) : c \in Typed(s)}
    BY <1>3 DEF ReadKeyByte
  <2>2. PICK c \in Typed(s) : r = Read(c)
    BY <2>1
  <2>3. c \in Plain
    BY <2>2, TypedIsPlain
  <2>4. /\ Recorded(quiet, c) \in States /\ Fresh(Recorded(quiet, c))
        /\ s.macro # <<>> => /\ [Played(quiet) EXCEPT !.play = 1] \in States
                             /\ Fresh([Played(quiet) EXCEPT !.play = 1])
    BY <1>3, <2>3, Quieted
  <2> HIDE DEF quiet
  <2>5. CASE s.repeat /\ c = "e" /\ s.macro # <<>>
    <3>1. r = <<Head(s.macro), [Played(quiet) EXCEPT !.play = 1]>>
      BY <2>2, <2>5
    <3>2. Head(s.macro) \in Plain
      BY <2>5, Fields, HeadTailProperties
    <3> QED BY <2>4, <2>5, <3>1, <3>2
  <2>6. CASE ~(s.repeat /\ c = "e" /\ s.macro # <<>>)
    <3>1. r = <<c, Recorded(quiet, c)>>
      BY <2>2, <2>6
    <3> QED BY <2>3, <2>4, <3>1
  <2> QED BY <2>5, <2>6
<1> QED BY <1>1, <1>2, <1>3

-----------------------------------------------------------------------------
(***************************************************************************)
(* C-@ and what the tester puts in.                                        *)
(***************************************************************************)
\* from records to the state
LEMMA Became ==
  ASSUME NEW s \in States, Become(s)
  PROVE  Unmarked' = s /\ Marking'
<1>1. Now' = s /\ unread' = s.unread
  BY DEF Become, Now, States
<1>2. s.unread # <<"NUL">>
  <2> SUFFICES ASSUME s.unread = <<"NUL">> PROVE FALSE
    OBVIOUS
  <2>1. <<"NUL">> \in Seq(Plain)
    BY Fields
  <2>2. "NUL" \in Plain
    <3> DEFINE q == <<"NUL">>
    <3>1. 1 \in 1..Len(q) /\ q[1] = "NUL"
      OBVIOUS
    <3> HIDE DEF q
    <3>2. q[1] \in Plain
      BY <2>1, <3>1, ElementOfSeq DEF q
    <3> QED BY <3>1, <3>2
  <2> QED BY <2>2 DEF Plain
<1> QED BY <1>1, <1>2 DEF Unmarked, Marking

\* C-@ is a key by itself, and does nothing to what is kept here
LEMMA MarkIsKey ==
  ASSUME NEW u, u = Unmarked, u \in States, Marking, unread = <<"NUL">>
  PROVE  Taken(u, "NUL") = u
<1>1. u.reader = "get_key" /\ u.keys = <<>> /\ ~u.recording /\ ~(u.play >= 0)
  <2>1. u.reader = reader /\ u.keys = keys /\ u.recording = recording /\ u.play = play
    BY DEF Unmarked, Now
  <2>2. reader = "get_key" /\ keys = <<>> /\ ~recording /\ play < 0
    BY DEF Marking
  <2>3. u.play \in -1..MacroMax /\ MacroMax \in Nat
    BY Fields, Sizes
  <2>4. ~(u.play >= 0)
    BY <2>1, <2>2, <2>3
  <2> QED BY <2>1, <2>2, <2>4
<1> DEFINE q == <<"NUL">>
<1>2. Append(u.keys, "NUL") = q
  BY <1>1
<1>3. CString(q) = <<>>
  <2>1. {i \in DOMAIN q : q[i] = "NUL"} = {1}
    OBVIOUS
  <2>2. Min({1}) = 1
    BY DEF Min
  <2>3. {1} # {} /\ 1 - 1 = 0
    OBVIOUS
  <2>4. SubSeq(q, 1, 0) = <<>>
    OBVIOUS
  <2> HIDE DEF q
  <2> QED BY <2>1, <2>2, <2>3, <2>4 DEF CString
<1>4. Taken(u, "NUL") = Dispatched(u, <<>>)
  <2>1. <<>> \in KeyMap
    BY DEF KeyMap
  <2> HIDE DEF q
  <2> QED BY <1>1, <1>2, <1>3, <2>1 DEF Taken, GetKey
<1>5. [u EXCEPT !.keys = <<>>, !.reader = "get_key"] = u
  BY <1>1 DEF States
<1>6. Dispatched(u, <<>>) = Did(u, u, <<>>)
  <2>1. <<>> # <<"C-x", "(">> /\ <<>> # <<"C-x", ")">> /\ <<>> # <<"C-x", "e">> /\ <<>> # <<"C-s">> /\ <<>> # <<"ESC", "a">>
    OBVIOUS
  <2> QED BY <1>5, <2>1 DEF Dispatched
<1>7. Did(u, u, <<>>) = u
  BY <1>1 DEF Did, States
<1> QED BY <1>4, <1>6, <1>7

\* so reading it leaves the state as it was without it
LEMMA MarkedStep ==
  ASSUME IInv, unread = <<"NUL">>, [Next]_vars
  PROVE  Unmarked' = Unmarked /\ Marking'
<1>1. CASE ReadByte
  <2>1. PICK r \in ReadKeyByte(Now) : Become(Taken(r[2], r[1]))
    BY <1>1 DEF ReadByte
  <2>2. ReadKeyByte(Now) = {<<"NUL", Unmarked>>}
    <3>1. Now.unread = <<"NUL">> /\ Head(<<"NUL">>) = "NUL" /\ Tail(<<"NUL">>) = <<>> /\ <<"NUL">> # <<>>
      BY DEF Now
    <3> DEFINE s == Now
    <3>2. [s EXCEPT !.unread = Tail(@)] = Unmarked
      BY <3>1 DEF Unmarked, Now
    <3> HIDE DEF s
    <3> QED BY <3>1, <3>2 DEF ReadKeyByte, s
  <2>3. r[1] = "NUL" /\ r[2] = Unmarked
    BY <2>1, <2>2
  <2>4. Unmarked \in States /\ Marking
    BY DEF IInv
  <2>5. Taken(r[2], r[1]) = Unmarked
    BY <2>3, <2>4, MarkIsKey
  <2> QED BY <2>1, <2>4, <2>5, Became
<1>2. CASE Inject
  BY <1>2 DEF Inject, TesterCanInject
<1>3. CASE UNCHANGED vars
  <2>1. Now' = Now /\ unread' = unread /\ reader' = reader /\ keys' = keys /\ recording' = recording /\ play' = play
    BY <1>3 DEF vars, Now
  <2> QED BY <2>1 DEF Unmarked, Marking, IInv
<1> QED BY <1>1, <1>2, <1>3 DEF Next

\* no C-@ of the tester waits while a macro is played
LEMMA PlayedUnmarked ==
  ASSUME IInv, play >= 0
  PROVE  Unmarked = Now
<1> SUFFICES ASSUME unread = <<"NUL">> PROVE FALSE
  BY DEF Unmarked
<1> DEFINE s == Unmarked
<1>1. s \in States /\ s.play = play /\ play < 0
  BY DEF IInv, Marking, Unmarked, Now
<1> HIDE DEF s
<1>2. s.play \in -1..MacroMax /\ MacroMax \in Nat
  BY <1>1, Fields, Sizes
<1> QED BY <1>1, <1>2

\* what the tester puts in is read next, and nothing else changes
LEMMA Injected ==
  ASSUME NoNul, IInv, Inject
  PROVE  LET s == Unmarked
         IN  /\ s.reader = "get_key" /\ s.keys = <<>> /\ ~s.recording /\ s.play < 0
             /\ Marking'
             /\ \E bytes \in Injections : \E t \in States :
                  /\ Unmarked' = t /\ Room(t) /\ t.unread = IF bytes = <<"NUL">> THEN <<>> ELSE bytes
                  /\ t.reader = s.reader /\ t.keys = s.keys /\ t.macro = s.macro /\ t.recording = s.recording
                  /\ t.play = s.play /\ t.repeat = s.repeat /\ t.cut = s.cut /\ t.meant = s.meant
<1> DEFINE s == Unmarked
           k == [Now EXCEPT !.tested = TRUE]
<1>1. PICK bytes \in Injections : /\ reader = "get_key" /\ keys = <<>> /\ unread = <<>> /\ ~recording /\ play < 0
                                  /\ Become(UnreadKeyBytes(k, bytes))
  BY DEF Inject, TesterCanInject
<1>2. /\ s = Now /\ s.reader = "get_key" /\ s.keys = <<>> /\ s.unread = <<>> /\ ~s.recording /\ s.play < 0
  BY <1>1 DEF Now, Unmarked
<1>3. bytes \in Seq(Bytes) /\ Len(bytes) \in Nat /\ Len(bytes) <= UnreadMax
  <2>1. bytes \in Seq(Bytes) /\ Len(bytes) \in 1..UnreadMax
    BY KeySizes
  <2> QED BY <2>1, Sizes
<1>4. s \in States /\ Room(s)
  BY DEF IInv
<1> DEFINE j == [k EXCEPT !.unread = bytes]
<1>5. UnreadKeyBytes(k, bytes) = j
  <2>1. k.unread = <<>>
    BY <1>1 DEF Now
  <2>2. Len(<<>>) = 0 /\ 0 + Len(bytes) = Len(bytes)
    BY <1>3
  <2>3. bytes \o <<>> = bytes
    BY <1>3, ConcatEmptySeq
  <2>4. ~(Len(k.unread) + Len(bytes) > UnreadMax)
    BY <1>3, <2>1, <2>2, Sizes
  <2> HIDE DEF k
  <2> QED BY <2>1, <2>3, <2>4 DEF UnreadKeyBytes
<1>6. Become(j)
  BY <1>1, <1>5
<1> DEFINE left == IF bytes = <<"NUL">> THEN <<>> ELSE bytes
           t == [s EXCEPT !.tested = TRUE, !.unread = left]
<1>7. left \in Seq(Plain) /\ Len(left) <= UnreadMax
  <2>1. <<>> \in Seq(Plain) /\ Len(<<>>) = 0 /\ 0 <= UnreadMax
    BY Sizes
  <2> QED BY <1>3, <2>1 DEF NoNul
<1>8. Unmarked' = t /\ Marking'
  <2>1. Now' = j /\ unread' = bytes /\ reader' = reader /\ keys' = keys /\ recording' = recording /\ play' = play
    <3> DEFINE Wide ==
          [unread : Seq(Bytes), macro : Seq(Plain), recording : BOOLEAN, play : -1..MacroMax, repeat : BOOLEAN,
           reader : Readers, keys : Seq(Plain), meant : Seq(Seq(Notes)), ran : Seq(Seq(Notes)),
           cut : BOOLEAN, dropped : BOOLEAN, tested : BOOLEAN]
    <3>1. k \in States /\ k.reader = reader /\ k.keys = keys /\ k.recording = recording /\ k.play = play
      <4>1. Now \in States
        BY <1>2, <1>4
      <4>2. [s EXCEPT !.tested = TRUE] \in States
        BY <1>4 DEF States
      <4>3. k \in States
        BY <1>2, <4>2
      <4> QED BY <4>3 DEF Now
    <3> HIDE DEF k
    <3>2. /\ j \in Wide /\ j.unread = bytes
          /\ j.reader = reader /\ j.keys = keys /\ j.recording = recording /\ j.play = play
      BY <1>3, <3>1 DEF States
    <3> HIDE DEF j
    <3> QED BY <1>6, <3>2 DEF Become, Now
  <2>2. Marking'
    BY <1>1, <2>1 DEF Marking
  <2>3. CASE bytes = <<"NUL">>
    <3>1. t = [j EXCEPT !.unread = <<>>]
      BY <1>2, <2>3 DEF Now
    <3> HIDE DEF t, j
    <3> QED BY <2>1, <2>2, <2>3, <3>1 DEF Unmarked
  <2>4. CASE bytes # <<"NUL">>
    <3>1. t = j
      BY <1>2, <2>4 DEF Now
    <3> HIDE DEF t, j
    <3> QED BY <2>1, <2>2, <2>4, <3>1 DEF Unmarked
  <2> QED BY <2>3, <2>4
<1> HIDE DEF s, left
<1>9. /\ t \in States /\ t.unread = left
      /\ t.reader = s.reader /\ t.keys = s.keys /\ t.macro = s.macro /\ t.recording = s.recording
      /\ t.play = s.play /\ t.repeat = s.repeat /\ t.cut = s.cut /\ t.meant = s.meant /\ t.dropped = s.dropped
  BY <1>4, <1>7 DEF States
<1> HIDE DEF t
<1>10. Room(t)
  BY <1>2, <1>4, <1>7, <1>9 DEF Room
<1> QED BY <1>1, <1>2, <1>8, <1>9, <1>10 DEF s, left

-----------------------------------------------------------------------------
\* the invariant: at first, after every step, and what it implies
LEMMA IInvInit == Init => IInv
<1> SUFFICES ASSUME Init PROVE IInv
  OBVIOUS
<1>1. <<>> \in Seq(Plain) /\ <<>> \in Seq(Seq(Notes)) /\ Len(<<>>) = 0
  OBVIOUS
<1>2. -1 \in -1..MacroMax /\ "get_key" \in Readers
  BY Sizes DEF Readers
<1>3. Now \in States
  BY <1>1, <1>2 DEF Init, Now, States
<1>4. Room(Now)
  <2>1. 0 <= UnreadMax /\ 0 <= MacroMax /\ 0 < KeyMax
    BY Sizes
  <2> QED BY <1>1, <2>1 DEF Init, Now, Room
<1>5. Unmarked = Now /\ Marking
  BY DEF Init, Unmarked, Marking
<1> QED BY <1>3, <1>4, <1>5 DEF IInv

LEMMA IInvStep ==
  ASSUME NoNul, IInv, [Next]_vars
  PROVE  IInv'
<1>1. CASE unread = <<"NUL">>
  BY <1>1, MarkedStep DEF IInv, Room
<1>2. ASSUME unread # <<"NUL">>, ReadByte
      PROVE  IInv'
  <2>0. Now \in States /\ Room(Now)
    BY <1>2 DEF IInv, Unmarked
  <2>1. PICK r \in ReadKeyByte(Now) : Become(Taken(r[2], r[1]))
    BY <1>2 DEF ReadByte
  <2>2. r[1] \in Plain /\ r[2] \in States /\ Fresh(r[2])
    BY <2>0, <2>1, Reads
  <2>3. Taken(r[2], r[1]) \in States /\ Room(Taken(r[2], r[1]))
    BY <2>2, ByteTaken
  <2>4. Unmarked' = Taken(r[2], r[1]) /\ Marking'
    BY <2>1, <2>3, Became
  <2> QED BY <2>3, <2>4 DEF IInv, Room
<1>3. CASE Inject
  <2>1. Marking' /\ \E t \in States : Unmarked' = t /\ Room(t)
    BY <1>3, Injected
  <2> QED BY <2>1 DEF IInv, Room
<1>4. CASE UNCHANGED vars
  <2>1. Now' = Now /\ unread' = unread /\ reader' = reader /\ keys' = keys /\ recording' = recording /\ play' = play
    BY <1>4 DEF vars, Now
  <2> QED BY <2>1 DEF IInv, Room, Unmarked, Marking
<1> QED BY <1>1, <1>2, <1>3, <1>4 DEF Next

LEMMA IInvImplies == IInv => StoresSuffice
<1> SUFFICES ASSUME IInv PROVE StoresSuffice
  OBVIOUS
<1> DEFINE s == Unmarked
<1>0. /\ s \in States /\ Room(s)
      /\ s.macro = macro /\ s.keys = keys /\ s.meant = meant /\ s.ran = ran /\ s.play = play /\ s.reader = reader
      /\ s.recording = recording /\ s.repeat = repeat /\ s.cut = cut /\ s.dropped = dropped /\ s.tested = tested
      /\ unread = <<"NUL">> \/ unread = s.unread
  BY DEF IInv, Unmarked, Now
<1> HIDE DEF s
<1>1. /\ macro \in Seq(Plain) /\ keys \in Seq(Plain) /\ meant \in Seq(Seq(Notes))
      /\ ran \in Seq(Seq(Notes)) /\ play \in -1..MacroMax /\ reader \in Readers /\ recording \in BOOLEAN
      /\ repeat \in BOOLEAN /\ cut \in BOOLEAN /\ dropped \in BOOLEAN /\ tested \in BOOLEAN
  BY <1>0, Fields
<1>2. Len(macro) <= MacroMax /\ Len(keys) < KeyMax /\ ~dropped
  BY <1>0 DEF Room
<1>3. unread \in Seq(Bytes) /\ Len(unread) <= UnreadMax /\ macro \in Seq(Bytes) /\ keys \in Seq(Bytes)
  <2>1. CASE unread = <<"NUL">>
    <3>1. "NUL" \in Bytes
      BY DEF Bytes
    <3>2. <<"NUL">> \in Seq(Bytes) /\ Len(<<"NUL">>) = 1 /\ 1 <= UnreadMax
      BY <3>1, Sizes
    <3> QED BY <1>1, <2>1, <3>2, Texts
  <2>2. CASE unread = s.unread
    BY <1>0, <1>1, <2>2, Fields, Texts DEF Room
  <2> QED BY <1>0, <2>1, <2>2
<1>4. TypeOK
  BY <1>1, <1>2, <1>3 DEF TypeOK, Notes
<1> QED BY <1>2, <1>4 DEF StoresSuffice

\* No store of key.c is too small as long as the only NUL that is read is a C-@
\* of the tester: a key is complete before the buffer of get_key is full (key.c:449 asserts it), and what a
\* reader gives back always has room, for it was read before, from the same
\* store or while that was empty.
THEOREM StoresAreEnough ==
  ASSUME NoNul
  PROVE  Spec => []StoresSuffice
<1>1. Init => IInv
  BY IInvInit
<1>2. IInv /\ [Next]_vars => IInv'
  BY IInvStep
<1>3. IInv => StoresSuffice
  BY IInvImplies
<1> QED BY <1>1, <1>2, <1>3, PTL DEF Spec

-----------------------------------------------------------------------------
(***************************************************************************)
(* What a byte does, apart from macros.  An outcome is the reader after    *)
(* it, the bytes of a key so far, the bytes given back, and what was done, *)
(* which is one command or none.                                           *)
(***************************************************************************)
MacroKeys == {<<"C-x", "(">>, <<"C-x", ")">>, <<"C-x", "e">>}

\* no command of macros ends with byte c
Ordinary(k, c) == k.reader \in {"get_key", "get_key escape"} => Append(k.keys, c) \notin MacroKeys

\* outcomes that give nothing back, and one that does if there is room
Then(k, place, q, said) == [reader |-> place, keys |-> q, unread |-> k.unread, said |-> said]

GivenBack(e, bytes) ==
  IF Len(e.unread) + Len(bytes) > UnreadMax THEN e ELSE [e EXCEPT !.unread = bytes \o @]

\* a key is dispatched
KeyDone(k, q) ==
  Then(k, IF q = <<"C-s">> THEN "search" ELSE IF q = <<"ESC", "a">> THEN "line_edit" ELSE "get_key",
       <<>>, <<q>>)

\* in the first loop of get_key, in the second, and in the other readers
KeyOutcome(k, q) ==
  IF q \in KeyMap THEN KeyDone(k, q)
  ELSE IF StartsKey(q) THEN Then(k, k.reader, q, <<>>)
  ELSE IF Len(q) >= 2 /\ q[1] = "ESC" /\ q[2] = "[" /\ ~Complete(q)
  THEN Then(k, "get_key escape", q, <<>>) ELSE KeyDone(k, q)

EscapeOutcome(k, q) == IF Complete(q) THEN KeyDone(k, q) ELSE Then(k, k.reader, q, <<>>)

\* search(), at first and after ESC
SearchOutcome(k, c) ==
  CASE  c = "RET" -> Then(k, "get_key", k.keys, <<<<"search", c>>>>)
    [] c = "ESC"  -> Then(k, "search ESC", k.keys, <<>>)
    [] c = "C-x"  -> GivenBack(Then(k, "get_key", k.keys, <<<<"search", "RET">>>>), <<c>>)
    [] OTHER      -> Then(k, k.reader, k.keys, <<<<"search", c>>>>)

SearchEscapeOutcome(k, c) ==
  GivenBack(Then(k, "get_key", k.keys, <<<<"search", "RET">>>>), IF c = "[" THEN <<"ESC", "[">> ELSE <<c>>)

\* line_edit(), at first and after ESC
LineOutcome(k, c) ==
  CASE  c = "RET" -> Then(k, "get_key", k.keys, <<<<"line_edit", c>>>>)
    [] c = "ESC"  -> Then(k, "line_edit ESC", k.keys, <<>>)
    [] OTHER      -> Then(k, k.reader, k.keys, <<<<"line_edit", c>>>>)

LineEscapeOutcome(k, c) ==
  IF k.reader = "line_edit ESC" /\ c = "[" THEN Then(k, "line_edit parameters", k.keys, <<>>)
  ELSE IF k.reader = "line_edit parameters" /\ c \in {"(", ")"} THEN Then(k, k.reader, k.keys, <<>>)
  ELSE Then(k, "line_edit", k.keys, <<<<"line_edit", "ESC", c>>>>)

\* whichever reads
Outcome(k, c) ==
  CASE k.reader = "get_key"        -> KeyOutcome(k, Append(k.keys, c))
    [] k.reader = "get_key escape" -> EscapeOutcome(k, Append(k.keys, c))
    [] k.reader = "search"         -> SearchOutcome(k, c)
    [] k.reader = "search ESC"     -> SearchEscapeOutcome(k, c)
    [] k.reader = "line_edit"      -> LineOutcome(k, c)
    [] OTHER                       -> LineEscapeOutcome(k, c)

\* what state s becomes if e is the outcome of the byte and no macro has a part in it
Yields(s, t, e) ==
  /\ t.reader = e.reader /\ t.keys = e.keys /\ t.unread = e.unread
  /\ t.macro = s.macro /\ t.recording = s.recording /\ t.play = s.play /\ t.repeat = s.repeat
  /\ t.cut = s.cut /\ t.tested = s.tested
  /\ t.meant = IF s.recording THEN s.meant \o e.said ELSE s.meant
  /\ t.ran = IF s.play >= 0 THEN s.ran \o e.said ELSE s.ran

-----------------------------------------------------------------------------
(***************************************************************************)
(* The way of a macro m.  A spot is where its reading is: the reader, how  *)
(* many bytes are taken, and what was done until there.                    *)
(***************************************************************************)
Spots == [reader : Readers, keys : Seq(Plain), unread : Seq(Plain), at : Nat, done : Seq(Seq(Notes))]

\* a spot between two keys, and the spot that a state is at
Idle(at, done) == [reader |-> "get_key", keys |-> <<>>, unread |-> <<>>, at |-> at, done |-> done]
Here(s, at, done) == [reader |-> s.reader, keys |-> s.keys, unread |-> s.unread, at |-> at, done |-> done]

\* the byte that is read next at x, and x without it
Byte(m, x) == IF x.unread # <<>> THEN Head(x.unread) ELSE m[x.at + 1]
Behind(x) == IF x.unread # <<>> THEN [x EXCEPT !.unread = Tail(x.unread)] ELSE [x EXCEPT !.at = x.at + 1]

\* x with the outcome e of its byte
After(x, e) == [reader |-> e.reader, keys |-> e.keys, unread |-> e.unread, at |-> x.at, done |-> x.done \o e.said]

\* the next byte leads from x to y, and no command of macros ends with it
Step(m, x, y) ==
  /\ x.unread # <<>> \/ x.at < Len(m)
  /\ Ordinary(x, Byte(m, x))
  /\ y = After(Behind(x), Outcome(Behind(x), Byte(m, x)))

\* f goes along m from its beginning, in n steps
Path(m, f, n) ==
  /\ f \in [0..n -> Spots] /\ f[0] = Idle(0, <<>>)
  /\ \A i \in 0..(n - 1) : Step(m, f[i], f[i + 1])
  /\ \A i, j \in 0..n : i <= j => f[i].at <= f[j].at /\ IsPrefix(f[i].done, f[j].done)

-----------------------------------------------------------------------------
(***************************************************************************)
(* The invariant.                                                          *)
(***************************************************************************)
InKey(k) == k.reader \in {"get_key", "get_key escape"}

\* where a key is begun, and by which reader
Begun(k) ==
  /\ InKey(k) \/ k.keys = <<>>
  /\ k.reader = "get_key escape" => k.keys # <<>>
  /\ k.keys = <<"C-x">> => k.reader = "get_key"

\* q has no C-x
Without(q) == \A i \in 1..Len(q) : q[i] # "C-x"

\* After C-x nothing is left to read; given back, it is alone; and while a macro
\* is recorded it is not given back.
Prefixed(s) ==
  /\ Begun(s)
  /\ s.keys = <<"C-x">> => s.unread = <<>>
  /\ Without(s.unread) \/ (s.unread = <<"C-x">> /\ ~s.recording)

\* a macro that is played is whole, and repeated by e
Playing(s) ==
  /\ s.repeat = (s.play >= 0)
  /\ s.play >= 0 => ~s.recording /\ ~s.cut /\ s.macro # <<>>

\* the macro that is recorded leads to what is read now
Recording(s) ==
  s.recording =>
    /\ ~s.cut
    /\ \E n \in Nat : \E f :
         /\ Path(s.macro, f, n) /\ f[n] = Here(s, Len(s.macro), s.meant)
         /\ s.keys = <<"C-x">> =>
              /\ n > 0 /\ s.macro # <<>> /\ s.macro[Len(s.macro)] = "C-x"
              /\ f[n - 1] = Idle(Len(s.macro) - 1, s.meant)

\* the macro that was recorded leads to the end of its last key, and what is
\* played is on the way there
Replayable(s) ==
  ~s.recording /\ ~s.cut /\ s.macro # <<>> =>
    \E n \in Nat : \E f :
      /\ Path(s.macro, f, n) /\ f[n] = Idle(Len(s.macro), s.meant)
      /\ s.play >= 0 => \E i \in 0..n : f[i] = Here(s, s.play, s.ran)

\* all of it
Replays(s) == Prefixed(s) /\ Playing(s) /\ Recording(s) /\ Replayable(s)
-----------------------------------------------------------------------------
(***************************************************************************)
(* A byte has its outcome, unless a command of macros ends with it.        *)
(***************************************************************************)
LEMMA Joined ==
  ASSUME NEW S, NEW q \in Seq(S)
  PROVE  q \o <<>> = q /\ \A x \in S : Append(q, x) = q \o <<x>>
<1>1. <<>> \in Seq(S) /\ Len(<<>>) = 0 /\ Len(q) \in Nat
  BY LenProperties
<1>2. q \o <<>> = q
  OBVIOUS
<1>3. ASSUME NEW x \in S
      PROVE  Append(q, x) = q \o <<x>>
  OBVIOUS
<1> QED BY <1>2, <1>3

\* what a helper writes, as an outcome: nothing, a note, bytes given back
LEMMA YieldsNothing ==
  ASSUME NEW s \in States, NEW place, NEW q
  PROVE  Yields(s, [s EXCEPT !.keys = q, !.reader = place], Then(s, place, q, <<>>))
<1>1. s.meant \o <<>> = s.meant /\ s.ran \o <<>> = s.ran
  BY Fields, Joined
<1> QED BY <1>1 DEF Yields, Then, States

LEMMA YieldsNote ==
  ASSUME NEW s \in States, NEW before, before.recording = s.recording, before.play = s.play,
         NEW place, NEW q, NEW what \in Seq(Notes)
  PROVE  Yields(s, Did(before, [s EXCEPT !.keys = q, !.reader = place], what), Then(s, place, q, <<what>>))
<1> DEFINE t == [s EXCEPT !.keys = q, !.reader = place]
<1>1. Append(s.meant, what) = s.meant \o <<what>> /\ Append(s.ran, what) = s.ran \o <<what>>
  <2>1. s.meant \in Seq(Seq(Notes)) /\ s.ran \in Seq(Seq(Notes))
    BY Fields
  <2> QED BY <2>1, Joined
<1>2. /\ t.keys = q /\ t.reader = place /\ t.unread = s.unread /\ t.macro = s.macro /\ t.recording = s.recording
      /\ t.play = s.play /\ t.repeat = s.repeat /\ t.cut = s.cut /\ t.tested = s.tested
      /\ t.meant = s.meant /\ t.ran = s.ran
  BY DEF States
<1>3. DOMAIN t = DOMAIN s /\ "meant" \in DOMAIN s /\ "ran" \in DOMAIN s
  BY DEF States
<1> HIDE DEF t
<1> DEFINE m == IF before.recording /\ t.recording THEN Append(t.meant, what) ELSE t.meant
           r == IF before.play >= 0 /\ t.play >= 0 THEN Append(t.ran, what) ELSE t.ran
<1>a. Did(before, t, what) = [t EXCEPT !.meant = m, !.ran = r]
  BY DEF Did
<1>4. /\ m = IF s.recording THEN s.meant \o <<what>> ELSE s.meant
      /\ r = IF s.play >= 0 THEN s.ran \o <<what>> ELSE s.ran
  BY <1>1, <1>2
<1> HIDE DEF m, r
<1> DEFINE d == [t EXCEPT !.meant = m, !.ran = r]
<1>5. /\ d.keys = q /\ d.reader = place /\ d.unread = s.unread /\ d.macro = s.macro /\ d.recording = s.recording
      /\ d.play = s.play /\ d.repeat = s.repeat /\ d.cut = s.cut /\ d.tested = s.tested
      /\ d.meant = m /\ d.ran = r
  BY <1>2, <1>3
<1> HIDE DEF d
<1>6. Then(s, place, q, <<what>>).said = <<what>> /\ Then(s, place, q, <<what>>).reader = place
      /\ Then(s, place, q, <<what>>).keys = q /\ Then(s, place, q, <<what>>).unread = s.unread
  BY DEF Then
<1>7. Yields(s, d, Then(s, place, q, <<what>>))
  BY <1>4, <1>5, <1>6 DEF Yields
<1> QED BY <1>a, <1>7 DEF d, t

LEMMA YieldsGiven ==
  ASSUME NEW s \in States, NEW t \in States, NEW e, Yields(s, t, e), NEW bytes \in Seq(Plain),
         DOMAIN e = {"reader", "keys", "unread", "said"}
  PROVE  Yields(s, UnreadKeyBytes(t, bytes), GivenBack(e, bytes))
<1>1. t.unread = e.unread
  BY DEF Yields
<1>2. CASE Len(t.unread) + Len(bytes) > UnreadMax
  <2>1. UnreadKeyBytes(t, bytes) = [t EXCEPT !.dropped = TRUE] /\ GivenBack(e, bytes) = e
    BY <1>1, <1>2 DEF UnreadKeyBytes, GivenBack
  <2> QED BY <2>1 DEF Yields, States
<1>3. CASE ~(Len(t.unread) + Len(bytes) > UnreadMax)
  <2> DEFINE u == bytes \o t.unread
  <2>1. UnreadKeyBytes(t, bytes) = [t EXCEPT !.unread = u] /\ GivenBack(e, bytes) = [e EXCEPT !.unread = u]
    BY <1>1, <1>3 DEF UnreadKeyBytes, GivenBack
  <2> HIDE DEF u
  <2> DEFINE t2 == [t EXCEPT !.unread = u]
             e2 == [e EXCEPT !.unread = u]
  <2>2. /\ t2.unread = u /\ t2.reader = t.reader /\ t2.keys = t.keys /\ t2.macro = t.macro
        /\ t2.recording = t.recording /\ t2.play = t.play /\ t2.repeat = t.repeat /\ t2.cut = t.cut
        /\ t2.tested = t.tested /\ t2.meant = t.meant /\ t2.ran = t.ran
    BY DEF States
  <2>3. e2.unread = u /\ e2.reader = e.reader /\ e2.keys = e.keys /\ e2.said = e.said
    OBVIOUS
  <2> HIDE DEF t2, e2
  <2>4. Yields(s, t2, e2)
    BY <2>2, <2>3 DEF Yields
  <2> QED BY <2>1, <2>4 DEF t2, e2
<1> QED BY <1>2, <1>3

\* editor_dispatch_key for a key that is no command of macros
LEMMA KeyYields ==
  ASSUME NEW s \in States, NEW q \in Seq(Plain) \ MacroKeys
  PROVE  Yields(s, Dispatched(s, q), KeyDone(s, q))
<1> DEFINE place == IF q = <<"C-s">> THEN "search" ELSE IF q = <<"ESC", "a">> THEN "line_edit" ELSE "get_key"
           t == [s EXCEPT !.keys = <<>>, !.reader = "get_key"]
           u == [s EXCEPT !.keys = <<>>, !.reader = place]
<1>1. q # <<"C-x", "(">> /\ q # <<"C-x", ")">> /\ q # <<"C-x", "e">>
  BY DEF MacroKeys
<1>2. Dispatched(s, q) = Did(s, u, q)
  <2>1. CASE q = <<"C-s">>
    <3>1. Dispatched(s, q) = Did(s, [t EXCEPT !.reader = "search"], q)
      BY <2>1 DEF Dispatched
    <3>2. [t EXCEPT !.reader = "search"] = u
      BY <2>1 DEF States
    <3> QED BY <3>1, <3>2
  <2>2. CASE q = <<"ESC", "a">>
    <3>1. Dispatched(s, q) = Did(s, [t EXCEPT !.reader = "line_edit"], q)
      BY <2>2 DEF Dispatched
    <3>2. [t EXCEPT !.reader = "line_edit"] = u
      BY <2>2 DEF States
    <3> QED BY <3>1, <3>2
  <2>3. CASE q # <<"C-s">> /\ q # <<"ESC", "a">>
    <3>1. Dispatched(s, q) = Did(s, t, q)
      BY <1>1, <2>3 DEF Dispatched
    <3>2. t = u
      BY <2>3
    <3> QED BY <3>1, <3>2
  <2> QED BY <2>1, <2>2, <2>3
<1>3. KeyDone(s, q) = Then(s, place, <<>>, <<q>>)
  BY DEF KeyDone
<1> HIDE DEF place
<1>4. q \in Seq(Notes)
  BY Texts
<1> QED BY <1>2, <1>3, <1>4, YieldsNote

\* every byte has its outcome, unless a command of macros ends with it
LEMMA OutcomeIs ==
  ASSUME NEW s \in States, NEW c \in Plain, Ordinary(s, c)
  PROVE  Yields(s, Taken(s, c), Outcome(s, c))
<1> DEFINE q == Append(s.keys, c)
<1>1. q \in Seq(Plain) /\ CString(q) = q
  <2>1. q \in Seq(Plain)
    BY Fields
  <2> QED BY <2>1, PlainString
<1>2. s.reader \in {"get_key", "get_key escape"} => q \notin MacroKeys
  BY DEF Ordinary
<1> HIDE DEF q
<1>3. [s EXCEPT !.keys = q] = [s EXCEPT !.keys = q, !.reader = s.reader]
  BY DEF States
<1>4. \A place : [s EXCEPT !.reader = place] = [s EXCEPT !.keys = s.keys, !.reader = place]
  BY DEF States
<1>5. s = [s EXCEPT !.keys = s.keys, !.reader = s.reader]
  BY DEF States
<1>6. /\ <<"search", c>> \in Seq(Notes) /\ <<"search", "RET">> \in Seq(Notes) /\ <<"line_edit", c>> \in Seq(Notes)
      /\ <<"line_edit", "ESC", c>> \in Seq(Notes)
  <2>1. "search" \in Notes /\ "line_edit" \in Notes /\ "RET" \in Notes /\ "ESC" \in Notes /\ c \in Notes
    BY Texts DEF Notes, Bytes
  <2> QED BY <2>1
<1>7. CASE s.reader = "get_key"
  <2>1. Taken(s, c) = GetKey(s, c) /\ Outcome(s, c) = KeyOutcome(s, q)
    BY <1>7 DEF Taken, Outcome, q
  <2>2. CASE q \in KeyMap
    <3>1. GetKey(s, c) = Dispatched(s, q) /\ KeyOutcome(s, q) = KeyDone(s, q)
      BY <1>1, <2>2 DEF GetKey, KeyOutcome, q
    <3> QED BY <1>1, <1>2, <1>7, <2>1, <3>1, KeyYields
  <2>3. CASE q \notin KeyMap /\ StartsKey(q)
    <3>1. GetKey(s, c) = [s EXCEPT !.keys = q] /\ KeyOutcome(s, q) = Then(s, s.reader, q, <<>>)
      BY <1>1, <2>3 DEF GetKey, KeyOutcome, q
    <3> QED BY <1>3, <2>1, <3>1, YieldsNothing
  <2>4. CASE q \notin KeyMap /\ ~StartsKey(q) /\ Len(q) >= 2 /\ q[1] = "ESC" /\ q[2] = "[" /\ ~Complete(q)
    <3>1. /\ GetKey(s, c) = [s EXCEPT !.keys = q, !.reader = "get_key escape"]
          /\ KeyOutcome(s, q) = Then(s, "get_key escape", q, <<>>)
      BY <1>1, <2>4 DEF GetKey, KeyOutcome, q
    <3>2. Yields(s, [s EXCEPT !.keys = q, !.reader = "get_key escape"], Then(s, "get_key escape", q, <<>>))
      BY YieldsNothing
    <3> QED BY <2>1, <3>1, <3>2
  <2>5. CASE q \notin KeyMap /\ ~StartsKey(q) /\ ~(Len(q) >= 2 /\ q[1] = "ESC" /\ q[2] = "[" /\ ~Complete(q))
    <3>1. GetKey(s, c) = Dispatched(s, q) /\ KeyOutcome(s, q) = KeyDone(s, q)
      BY <1>1, <2>5 DEF GetKey, KeyOutcome, q
    <3> QED BY <1>1, <1>2, <1>7, <2>1, <3>1, KeyYields
  <2> QED BY <2>2, <2>3, <2>4, <2>5
<1>8. CASE s.reader = "get_key escape"
  <2>1. Taken(s, c) = GetEscape(s, c) /\ Outcome(s, c) = EscapeOutcome(s, q)
    BY <1>8 DEF Taken, Outcome, q
  <2>2. CASE Complete(q)
    <3>1. GetEscape(s, c) = Dispatched(s, q) /\ EscapeOutcome(s, q) = KeyDone(s, q)
      BY <2>2 DEF GetEscape, EscapeOutcome, q
    <3> QED BY <1>1, <1>2, <1>8, <2>1, <3>1, KeyYields
  <2>3. CASE ~Complete(q)
    <3>1. GetEscape(s, c) = [s EXCEPT !.keys = q] /\ EscapeOutcome(s, q) = Then(s, s.reader, q, <<>>)
      BY <2>3 DEF GetEscape, EscapeOutcome, q
    <3> QED BY <1>3, <2>1, <3>1, YieldsNothing
  <2> QED BY <2>2, <2>3
<1>9. ASSUME NEW place, NEW what \in Seq(Notes)
      PROVE  Yields(s, Did(s, [s EXCEPT !.reader = place], what), Then(s, place, s.keys, <<what>>))
  BY <1>4, YieldsNote
<1>10. ASSUME NEW what \in Seq(Notes)
       PROVE  /\ Yields(s, Leave(s, what), Then(s, "get_key", s.keys, <<what>>))
              /\ Yields(s, Did(s, s, what), Then(s, s.reader, s.keys, <<what>>))
  BY <1>5, <1>9, YieldsNote DEF Leave
<1>11. ASSUME NEW place
       PROVE  /\ Yields(s, [s EXCEPT !.reader = place], Then(s, place, s.keys, <<>>))
              /\ Yields(s, s, Then(s, s.reader, s.keys, <<>>))
  <2>1. Yields(s, [s EXCEPT !.reader = place], Then(s, place, s.keys, <<>>))
    BY <1>4, YieldsNothing
  <2>2. Yields(s, [s EXCEPT !.keys = s.keys, !.reader = s.reader], Then(s, s.reader, s.keys, <<>>))
    BY YieldsNothing
  <2> QED BY <1>5, <2>1, <2>2
<1>12. ASSUME NEW what \in Seq(Notes), NEW bytes \in Seq(Plain)
       PROVE  Yields(s, UnreadKeyBytes(Leave(s, what), bytes),
                     GivenBack(Then(s, "get_key", s.keys, <<what>>), bytes))
  <2> DEFINE e == Then(s, "get_key", s.keys, <<what>>)
  <2>1. Leave(s, what) \in States
    <3>1. [s EXCEPT !.reader = "get_key"] \in States
      BY DEF States, Readers
    <3> QED BY <3>1, Noted DEF Leave
  <2>2. DOMAIN e = {"reader", "keys", "unread", "said"}
    BY DEF Then
  <2>3. Yields(s, Leave(s, what), e)
    BY <1>10
  <2> HIDE DEF e
  <2>4. Yields(s, UnreadKeyBytes(Leave(s, what), bytes), GivenBack(e, bytes))
    BY <2>1, <2>2, <2>3, YieldsGiven
  <2> QED BY <2>4 DEF e
<1>13. <<c>> \in Seq(Plain) /\ <<"ESC", "[">> \in Seq(Plain)
  <2>1. "ESC" \in Plain /\ "[" \in Plain
    BY DEF Plain, Bytes
  <2> QED BY <2>1
<1>14. CASE s.reader = "search"
  <2>1. Taken(s, c) = Search(s, c) /\ Outcome(s, c) = SearchOutcome(s, c)
    BY <1>14 DEF Taken, Outcome
  <2>2. CASE c = "RET"
    <3>1. Search(s, c) = Leave(s, <<"search", c>>) /\ SearchOutcome(s, c) = Then(s, "get_key", s.keys, <<<<"search", c>>>>)
      BY <2>2 DEF Search, SearchOutcome
    <3> QED BY <1>6, <1>10, <2>1, <3>1
  <2>3. CASE c = "ESC"
    <3>1. Search(s, c) = [s EXCEPT !.reader = "search ESC"] /\ SearchOutcome(s, c) = Then(s, "search ESC", s.keys, <<>>)
      BY <2>3 DEF Search, SearchOutcome
    <3> QED BY <1>11, <2>1, <3>1
  <2>4. CASE c = "C-x"
    <3>1. /\ Search(s, c) = UnreadKeyBytes(Leave(s, <<"search", "RET">>), <<c>>)
          /\ SearchOutcome(s, c) = GivenBack(Then(s, "get_key", s.keys, <<<<"search", "RET">>>>), <<c>>)
      BY <2>4 DEF Search, SearchOutcome
    <3> QED BY <1>6, <1>12, <1>13, <2>1, <3>1
  <2>5. CASE c \notin {"RET", "ESC", "C-x"}
    <3>1. Search(s, c) = Did(s, s, <<"search", c>>) /\ SearchOutcome(s, c) = Then(s, s.reader, s.keys, <<<<"search", c>>>>)
      BY <2>5, Texts DEF Search, SearchOutcome
    <3> QED BY <1>6, <1>10, <2>1, <3>1
  <2> QED BY <2>2, <2>3, <2>4, <2>5
<1>15. CASE s.reader = "search ESC"
  <2> DEFINE bytes == IF c = "[" THEN <<"ESC", "[">> ELSE <<c>>
  <2>1. Taken(s, c) = SearchEscape(s, c) /\ Outcome(s, c) = SearchEscapeOutcome(s, c)
    BY <1>15 DEF Taken, Outcome
  <2>2. /\ SearchEscape(s, c) = UnreadKeyBytes(Leave(s, <<"search", "RET">>), bytes)
        /\ SearchEscapeOutcome(s, c) = GivenBack(Then(s, "get_key", s.keys, <<<<"search", "RET">>>>), bytes)
    BY DEF SearchEscape, SearchEscapeOutcome
  <2>3. bytes \in Seq(Plain)
    BY <1>13
  <2> HIDE DEF bytes
  <2> QED BY <1>6, <1>12, <2>1, <2>2, <2>3
<1>16. CASE s.reader = "line_edit"
  <2>1. Taken(s, c) = LineEdit(s, c) /\ Outcome(s, c) = LineOutcome(s, c)
    BY <1>16 DEF Taken, Outcome
  <2>2. CASE c = "RET"
    <3>1. LineEdit(s, c) = Leave(s, <<"line_edit", c>>) /\ LineOutcome(s, c) = Then(s, "get_key", s.keys, <<<<"line_edit", c>>>>)
      BY <2>2 DEF LineEdit, LineOutcome
    <3> QED BY <1>6, <1>10, <2>1, <3>1
  <2>3. CASE c = "ESC"
    <3>1. LineEdit(s, c) = [s EXCEPT !.reader = "line_edit ESC"] /\ LineOutcome(s, c) = Then(s, "line_edit ESC", s.keys, <<>>)
      BY <2>3 DEF LineEdit, LineOutcome
    <3> QED BY <1>11, <2>1, <3>1
  <2>4. CASE c \notin {"RET", "ESC"}
    <3>1. LineEdit(s, c) = Did(s, s, <<"line_edit", c>>) /\ LineOutcome(s, c) = Then(s, s.reader, s.keys, <<<<"line_edit", c>>>>)
      BY <2>4 DEF LineEdit, LineOutcome
    <3> QED BY <1>6, <1>10, <2>1, <3>1
  <2> QED BY <2>2, <2>3, <2>4
<1>17. CASE s.reader \in {"line_edit ESC", "line_edit parameters"}
  <2>1. Taken(s, c) = ReadEscape(s, c) /\ Outcome(s, c) = LineEscapeOutcome(s, c)
    BY <1>17 DEF Taken, Outcome
  <2>2. CASE s.reader = "line_edit ESC" /\ c = "["
    <3>1. /\ ReadEscape(s, c) = [s EXCEPT !.reader = "line_edit parameters"]
          /\ LineEscapeOutcome(s, c) = Then(s, "line_edit parameters", s.keys, <<>>)
      BY <2>2 DEF ReadEscape, LineEscapeOutcome
    <3> QED BY <1>11, <2>1, <3>1
  <2>3. CASE s.reader = "line_edit parameters" /\ c \in {"(", ")"}
    <3>1. ReadEscape(s, c) = s /\ LineEscapeOutcome(s, c) = Then(s, s.reader, s.keys, <<>>)
      BY <2>3 DEF ReadEscape, LineEscapeOutcome
    <3> QED BY <1>11, <2>1, <3>1
  <2>4. CASE ~(s.reader = "line_edit ESC" /\ c = "[") /\ ~(s.reader = "line_edit parameters" /\ c \in {"(", ")"})
    <3>1. /\ ReadEscape(s, c) = Did(s, [s EXCEPT !.reader = "line_edit"], <<"line_edit", "ESC", c>>)
          /\ LineEscapeOutcome(s, c) = Then(s, "line_edit", s.keys, <<<<"line_edit", "ESC", c>>>>)
      BY <2>4 DEF ReadEscape, LineEscapeOutcome
    <3> QED BY <1>6, <1>9, <2>1, <3>1
  <2> QED BY <2>2, <2>3, <2>4
<1> QED BY <1>7, <1>8, <1>14, <1>15, <1>16, <1>17, Fields DEF Readers

-----------------------------------------------------------------------------
(***************************************************************************)
(* The forms that an outcome has.                                          *)
(***************************************************************************)
Readable(k) == k.reader \in Readers /\ k.keys \in Seq(Plain) /\ k.unread \in Seq(Plain)

\* a key is complete, goes on, or there is none
DoneForm(k, e) == InKey(k) /\ \E q \in Seq(Plain) : e = KeyDone(k, q)

\* the key goes on
GrowsForm(k, c, e) ==
  /\ InKey(k)
  /\ \E place \in {"get_key", "get_key escape"} :
       /\ e = Then(k, place, Append(k.keys, c), <<>>)
       /\ place = k.reader \/ Len(Append(k.keys, c)) >= 2

\* another reader took the byte
OtherForm(k, e) ==
  ~InKey(k) /\ \E place \in Readers \ {"get_key escape"}, said \in Seq(Seq(Notes)) : e = Then(k, place, k.keys, said)

\* a search ends and gives its last bytes back
BackForm(k, c, e) ==
  /\ k.reader \in {"search", "search ESC"}
  /\ \E what \in Seq(Notes), bytes \in {<<c>>, <<"ESC", "[">>} :
       e = GivenBack(Then(k, "get_key", k.keys, <<what>>), bytes)

\* every outcome is of one of the four forms
LEMMA Forms ==
  ASSUME NEW k, Readable(k), NEW c \in Plain
  PROVE  LET e == Outcome(k, c)
         IN  DoneForm(k, e) \/ GrowsForm(k, c, e) \/ OtherForm(k, e) \/ BackForm(k, c, e)
<1> DEFINE e == Outcome(k, c)
           q == Append(k.keys, c)
<1>1. q \in Seq(Plain)
  BY DEF Readable
<1>2. /\ <<>> \in Seq(Seq(Notes)) /\ <<"search", "RET">> \in Seq(Notes)
      /\ <<<<"search", c>>>> \in Seq(Seq(Notes)) /\ <<<<"line_edit", c>>>> \in Seq(Seq(Notes))
      /\ <<<<"line_edit", "ESC", c>>>> \in Seq(Seq(Notes))
  <2>1. "search" \in Notes /\ "line_edit" \in Notes /\ "RET" \in Notes /\ "ESC" \in Notes /\ c \in Notes
    BY Texts DEF Notes, Bytes
  <2>2. /\ <<"search", "RET">> \in Seq(Notes) /\ <<"search", c>> \in Seq(Notes) /\ <<"line_edit", c>> \in Seq(Notes)
        /\ <<"line_edit", "ESC", c>> \in Seq(Notes)
    BY <2>1
  <2> QED BY <2>2
<1>3. CASE k.reader = "get_key"
  <2>1. e = KeyOutcome(k, q)
    BY <1>3 DEF Outcome
  <2> HIDE DEF e, q
  <2>2. \/ e = KeyDone(k, q)
        \/ e = Then(k, k.reader, q, <<>>)
        \/ e = Then(k, "get_key escape", q, <<>>) /\ Len(q) >= 2
    BY <2>1 DEF KeyOutcome
  <2>3. DoneForm(k, e) \/ GrowsForm(k, c, e)
    BY <1>1, <1>3, <2>2 DEF DoneForm, GrowsForm, InKey, q
  <2> QED BY <2>3 DEF e
<1>4. CASE k.reader = "get_key escape"
  <2>1. e = EscapeOutcome(k, q)
    BY <1>4 DEF Outcome
  <2> HIDE DEF e, q
  <2>2. e = KeyDone(k, q) \/ e = Then(k, k.reader, q, <<>>)
    BY <2>1 DEF EscapeOutcome
  <2>3. DoneForm(k, e) \/ GrowsForm(k, c, e)
    BY <1>1, <1>4, <2>2 DEF DoneForm, GrowsForm, InKey, q
  <2> QED BY <2>3 DEF e
<1> HIDE DEF q
<1>5. CASE k.reader = "search"
  <2>1. e = SearchOutcome(k, c)
    BY <1>5 DEF Outcome
  <2> HIDE DEF e
  <2>2. \/ e = Then(k, "get_key", k.keys, <<<<"search", c>>>>)
        \/ e = Then(k, "search ESC", k.keys, <<>>)
        \/ e = GivenBack(Then(k, "get_key", k.keys, <<<<"search", "RET">>>>), <<c>>)
        \/ e = Then(k, "search", k.keys, <<<<"search", c>>>>)
    BY <1>5, <2>1 DEF SearchOutcome
  <2>3. ~InKey(k) /\ {"get_key", "search ESC", "search"} \subseteq Readers \ {"get_key escape"}
    BY <1>5 DEF InKey, Readers
  <2>4. CASE e = GivenBack(Then(k, "get_key", k.keys, <<<<"search", "RET">>>>), <<c>>)
    <3>1. BackForm(k, c, e)
      BY <1>2, <1>5, <2>4 DEF BackForm
    <3> QED BY <3>1 DEF e
  <2>5. CASE e # GivenBack(Then(k, "get_key", k.keys, <<<<"search", "RET">>>>), <<c>>)
    <3>1. OtherForm(k, e)
      BY <1>2, <2>2, <2>3, <2>5 DEF OtherForm
    <3> QED BY <3>1 DEF e
  <2> QED BY <2>4, <2>5
<1>6. CASE k.reader = "search ESC"
  <2>1. e = SearchEscapeOutcome(k, c)
    BY <1>6 DEF Outcome
  <2> HIDE DEF e
  <2>2. BackForm(k, c, e)
    BY <1>2, <1>6, <2>1 DEF BackForm, SearchEscapeOutcome
  <2> QED BY <2>2 DEF e
<1>7. CASE k.reader = "line_edit"
  <2>1. e = LineOutcome(k, c)
    BY <1>7 DEF Outcome
  <2> HIDE DEF e
  <2>2. \/ e = Then(k, "get_key", k.keys, <<<<"line_edit", c>>>>)
        \/ e = Then(k, "line_edit ESC", k.keys, <<>>)
        \/ e = Then(k, "line_edit", k.keys, <<<<"line_edit", c>>>>)
    BY <1>7, <2>1 DEF LineOutcome
  <2>3. ~InKey(k) /\ {"get_key", "line_edit ESC", "line_edit"} \subseteq Readers \ {"get_key escape"}
    BY <1>7 DEF InKey, Readers
  <2>4. OtherForm(k, e)
    BY <1>2, <2>2, <2>3 DEF OtherForm
  <2> QED BY <2>4 DEF e
<1>8. CASE k.reader \in {"line_edit ESC", "line_edit parameters"}
  <2>1. e = LineEscapeOutcome(k, c)
    BY <1>8 DEF Outcome
  <2> HIDE DEF e
  <2>2. \/ e = Then(k, "line_edit parameters", k.keys, <<>>)
        \/ e = Then(k, "line_edit", k.keys, <<<<"line_edit", "ESC", c>>>>)
    BY <1>8, <2>1 DEF LineEscapeOutcome
  <2>3. ~InKey(k) /\ {"line_edit parameters", "line_edit"} \subseteq Readers \ {"get_key escape"}
    BY <1>8 DEF InKey, Readers
  <2>4. OtherForm(k, e)
    BY <1>2, <2>2, <2>3 DEF OtherForm
  <2> QED BY <2>4 DEF e
<1> QED BY <1>3, <1>4, <1>5, <1>6, <1>7, <1>8 DEF Readable, Readers

\* what is given back with room for it
LEMMA BackIs ==
  ASSUME NEW k, Readable(k), NEW what \in Seq(Notes), NEW bytes \in Seq(Plain)
  PROVE  LET e == GivenBack(Then(k, "get_key", k.keys, <<what>>), bytes)
         IN  /\ e.reader = "get_key" /\ e.keys = k.keys /\ e.said = <<what>>
             /\ e.unread \in {k.unread, bytes \o k.unread}
<1> DEFINE t == Then(k, "get_key", k.keys, <<what>>)
<1>1. /\ DOMAIN t = {"reader", "keys", "unread", "said"} /\ t.reader = "get_key" /\ t.keys = k.keys
      /\ t.unread = k.unread /\ t.said = <<what>>
  BY DEF Then
<1> HIDE DEF t
<1>2. GivenBack(t, bytes) = t \/ GivenBack(t, bytes) = [t EXCEPT !.unread = bytes \o t.unread]
  BY DEF GivenBack
<1>3. CASE GivenBack(t, bytes) = t
  BY <1>1, <1>3 DEF t
<1>4. CASE GivenBack(t, bytes) = [t EXCEPT !.unread = bytes \o t.unread]
  <2> DEFINE u == bytes \o t.unread
             g == [t EXCEPT !.unread = u]
  <2>1. u = bytes \o k.unread
    BY <1>1
  <2>2. GivenBack(t, bytes) = g
    BY <1>4
  <2> HIDE DEF u
  <2>3. g.reader = t.reader /\ g.keys = t.keys /\ g.said = t.said /\ g.unread = u
    BY <1>1
  <2> HIDE DEF g
  <2> QED BY <1>1, <2>1, <2>2, <2>3 DEF t
<1> QED BY <1>2, <1>3, <1>4

\* an outcome can be read on, and says notes
LEMMA OutcomeTypes ==
  ASSUME NEW k, Readable(k), NEW c \in Plain
  PROVE  Readable(Outcome(k, c)) /\ Outcome(k, c).said \in Seq(Seq(Notes))
<1> DEFINE e == Outcome(k, c)
<1>1. DoneForm(k, e) \/ GrowsForm(k, c, e) \/ OtherForm(k, e) \/ BackForm(k, c, e)
  BY Forms
<1> HIDE DEF e
<1>2. <<>> \in Seq(Plain) /\ <<>> \in Seq(Seq(Notes)) /\ {"get_key", "get_key escape", "search", "line_edit"} \subseteq Readers
  BY DEF Readers
<1>3. ASSUME NEW place \in Readers, NEW q \in Seq(Plain), NEW said \in Seq(Seq(Notes))
      PROVE  LET t == Then(k, place, q, said) IN Readable(t) /\ t.said \in Seq(Seq(Notes))
  BY DEF Then, Readable
<1>4. CASE DoneForm(k, e)
  <2>1. PICK q \in Seq(Plain) : e = KeyDone(k, q)
    BY <1>4 DEF DoneForm
  <2>2. q \in Seq(Notes) /\ <<q>> \in Seq(Seq(Notes))
    <3>1. q \in Seq(Notes)
      BY Texts
    <3> QED BY <3>1
  <2>3. PICK place \in Readers : e = Then(k, place, <<>>, <<q>>)
    BY <1>2, <2>1 DEF KeyDone
  <2> QED BY <1>2, <1>3, <2>2, <2>3 DEF e
<1>5. CASE GrowsForm(k, c, e)
  <2>1. Append(k.keys, c) \in Seq(Plain)
    BY DEF Readable
  <2>2. PICK place \in Readers : e = Then(k, place, Append(k.keys, c), <<>>)
    BY <1>2, <1>5 DEF GrowsForm
  <2> QED BY <1>2, <1>3, <2>1, <2>2 DEF e
<1>6. CASE OtherForm(k, e)
  BY <1>3, <1>6 DEF OtherForm, Readable, e
<1>7. CASE BackForm(k, c, e)
  <2>1. <<c>> \in Seq(Plain) /\ <<"ESC", "[">> \in Seq(Plain)
    <3>1. "ESC" \in Plain /\ "[" \in Plain
      BY DEF Plain, Bytes
    <3> QED BY <3>1
  <2>2. PICK what \in Seq(Notes), bytes \in Seq(Plain) :
          e = GivenBack(Then(k, "get_key", k.keys, <<what>>), bytes)
    BY <1>7, <2>1 DEF BackForm
  <2>3. /\ e.reader = "get_key" /\ e.keys = k.keys /\ e.said = <<what>>
        /\ e.unread \in {k.unread, bytes \o k.unread}
    BY <2>2, BackIs
  <2>4. bytes \o k.unread \in Seq(Plain) /\ <<what>> \in Seq(Seq(Notes))
    BY <2>2 DEF Readable
  <2> QED BY <1>2, <2>3, <2>4 DEF Readable, e
<1> QED BY <1>1, <1>4, <1>5, <1>6, <1>7

-----------------------------------------------------------------------------
(***************************************************************************)
(* C-x, and what is read after it.                                         *)
(***************************************************************************)
LEMMA WithoutJoined ==
  ASSUME NEW p \in Seq(Plain), NEW q \in Seq(Plain), Without(p), Without(q)
  PROVE  Without(p \o q)
<1>1. Len(p) \in Nat /\ Len(q) \in Nat /\ Len(p \o q) = Len(p) + Len(q)
  BY LenProperties, ConcatProperties
<1>2. \A i \in 1..(Len(p) + Len(q)) : (p \o q)[i] = IF i <= Len(p) THEN p[i] ELSE q[i - Len(p)]
  BY ConcatProperties
<1>3. ASSUME NEW i \in 1..Len(p \o q)
      PROVE  (p \o q)[i] # "C-x"
  <2>1. CASE i <= Len(p)
    BY <1>1, <1>2, <1>3, <2>1 DEF Without
  <2>2. CASE ~(i <= Len(p))
    <3>1. i - Len(p) \in 1..Len(q)
      BY <1>1, <1>3, <2>2
    <3> QED BY <1>1, <1>2, <1>3, <2>2, <3>1 DEF Without
  <2> QED BY <2>1, <2>2
<1> QED BY <1>3 DEF Without

\* what is so once byte c is taken and before it is used
Taking(k, c) == Begun(k) /\ Without(k.unread) /\ (c = "C-x" => k.unread = <<>>)

\* the fields of an outcome
LEMMA ThenIs ==
  ASSUME NEW k, NEW place, NEW q, NEW said
  PROVE  LET e == Then(k, place, q, said)
         IN  e.reader = place /\ e.keys = q /\ e.unread = k.unread /\ e.said = said
  BY DEF Then

\* C-x alone is what a first byte C-x leads to
LEMMA BeginsPrefix ==
  ASSUME NEW k, Readable(k), NEW c \in Plain, Taking(k, c)
  PROVE  Outcome(k, c).keys = <<"C-x">> =>
           /\ k.keys = <<>> /\ k.reader = "get_key" /\ k.unread = <<>> /\ c = "C-x"
           /\ Outcome(k, c) = Then(k, "get_key", <<"C-x">>, <<>>)
<1> DEFINE e == Outcome(k, c)
           q == Append(k.keys, c)
<1>1. DoneForm(k, e) \/ GrowsForm(k, c, e) \/ OtherForm(k, e) \/ BackForm(k, c, e)
  BY Forms
<1>2. SUFFICES ASSUME e.keys = <<"C-x">>
               PROVE  /\ k.keys = <<>> /\ k.reader = "get_key" /\ k.unread = <<>> /\ c = "C-x"
                      /\ e = Then(k, "get_key", <<"C-x">>, <<>>)
  OBVIOUS
<1>3. <<"C-x">> # <<>> /\ Len(<<"C-x">>) = 1
  OBVIOUS
<1>4. k.keys \in Seq(Plain) /\ Len(k.keys) \in Nat /\ Len(q) = Len(k.keys) + 1 /\ q[Len(k.keys) + 1] = c
  <2>1. k.keys \in Seq(Plain)
    BY DEF Readable
  <2>2. Len(k.keys) \in Nat
    BY <2>1, LenProperties
  <2> QED BY <2>1, <2>2, AppendProperties
<1> HIDE DEF e
<1>5. ~DoneForm(k, e)
  <2> SUFFICES ASSUME DoneForm(k, e) PROVE FALSE
    OBVIOUS
  <2>1. PICK q2 : e = KeyDone(k, q2)
    BY DEF DoneForm
  <2>2. e.keys = <<>>
    BY <2>1, ThenIs DEF KeyDone
  <2> QED BY <1>2, <1>3, <2>2
<1>6. ~OtherForm(k, e)
  <2> SUFFICES ASSUME OtherForm(k, e) PROVE FALSE
    OBVIOUS
  <2>1. PICK place, said : e = Then(k, place, k.keys, said)
    BY DEF OtherForm
  <2>2. e.keys = k.keys
    BY <2>1, ThenIs
  <2>3. k.keys = <<>>
    BY DEF OtherForm, Taking, Begun
  <2> QED BY <1>2, <1>3, <2>2, <2>3
<1>7. ~BackForm(k, c, e)
  <2> SUFFICES ASSUME BackForm(k, c, e) PROVE FALSE
    OBVIOUS
  <2>1. <<c>> \in Seq(Plain) /\ <<"ESC", "[">> \in Seq(Plain)
    <3>1. "ESC" \in Plain /\ "[" \in Plain
      BY DEF Plain, Bytes
    <3> QED BY <3>1
  <2>2. PICK what \in Seq(Notes), bytes \in Seq(Plain) :
          e = GivenBack(Then(k, "get_key", k.keys, <<what>>), bytes)
    BY <2>1 DEF BackForm
  <2>3. e.keys = k.keys
    BY <2>2, BackIs
  <2>4. k.keys = <<>>
    BY DEF BackForm, Taking, Begun, InKey
  <2> QED BY <1>2, <1>3, <2>3, <2>4
<1>8. GrowsForm(k, c, e)
  BY <1>1, <1>5, <1>6, <1>7
<1> HIDE DEF q
<1>9. PICK place : /\ place \in {"get_key", "get_key escape"}
                   /\ e = Then(k, place, q, <<>>) /\ (place = k.reader \/ Len(q) >= 2)
  BY <1>8 DEF GrowsForm, q
<1>10. q = <<"C-x">>
  BY <1>2, <1>9 DEF Then
<1>11. Len(k.keys) = 0 /\ c = "C-x"
  <2>1. Len(q) = 1 /\ q[1] = "C-x"
    BY <1>10
  <2> DEFINE l == Len(k.keys)
  <2>2. l \in Nat /\ Len(q) = l + 1 /\ q[l + 1] = c
    BY <1>4
  <2> HIDE DEF l
  <2>a. Len(q) = 1
    BY <2>1
  <2>b. l \in Nat /\ Len(q) = l + 1
    BY <2>2
  <2>3. l = 0 /\ l + 1 = 1
    BY <2>a, <2>b
  <2>4. q[1] = c
    BY <2>2, <2>3
  <2>5. l = 0 /\ c = "C-x"
    BY <2>1, <2>3, <2>4
  <2> QED BY <2>5 DEF l
<1>12. k.keys = <<>>
  BY <1>4, <1>11, EmptySeq
<1>13. place = k.reader
  <2>1. ~(Len(q) >= 2)
    <3>1. ~(1 >= 2)
      OBVIOUS
    <3>2. Len(q) = 1
      BY <1>3, <1>10
    <3> QED BY <3>1, <3>2
  <2> QED BY <1>9, <2>1
<1>14. k.reader = "get_key"
  BY <1>9, <1>12, <1>13 DEF Taking, Begun
<1>15. k.unread = <<>>
  BY <1>11 DEF Taking
<1> QED BY <1>9, <1>10, <1>11, <1>12, <1>13, <1>14, <1>15

\* where C-x may be after a byte
LEMMA OutcomePrefixed ==
  ASSUME NEW k, Readable(k), NEW c \in Plain, Taking(k, c)
  PROVE  LET e == Outcome(k, c)
         IN  /\ Begun(e)
             /\ e.keys = <<"C-x">> => e.unread = <<>>
             /\ Without(e.unread) \/ e.unread = <<"C-x">>
             /\ (k.reader \in {"search", "search ESC"} => c # "C-x") => Without(e.unread)
<1> DEFINE e == Outcome(k, c)
<1>1. DoneForm(k, e) \/ GrowsForm(k, c, e) \/ OtherForm(k, e) \/ BackForm(k, c, e)
  BY Forms
<1>2. e.keys = <<"C-x">> => /\ k.keys = <<>> /\ k.reader = "get_key" /\ k.unread = <<>> /\ c = "C-x"
                            /\ e = Then(k, "get_key", <<"C-x">>, <<>>)
  BY BeginsPrefix
<1> HIDE DEF e
<1>3. e.keys = <<"C-x">> => e.unread = <<>> /\ e.reader = "get_key"
  BY <1>2 DEF Then
<1>4. SUFFICES /\ InKey(e) \/ e.keys = <<>>
               /\ e.reader = "get_key escape" => e.keys # <<>>
               /\ Without(e.unread) \/ e.unread = <<"C-x">>
               /\ (k.reader \in {"search", "search ESC"} => c # "C-x") => Without(e.unread)
  BY <1>3, <1>4 DEF Begun, e
<1>5. Without(k.unread)
  BY DEF Taking
<1>6. CASE DoneForm(k, e)
  <2>1. PICK q : e = KeyDone(k, q)
    BY <1>6 DEF DoneForm
  <2>2. e.keys = <<>> /\ e.unread = k.unread /\ e.reader # "get_key escape"
    BY <2>1 DEF KeyDone, Then
  <2> QED BY <1>5, <2>2
<1>7. CASE GrowsForm(k, c, e)
  <2>1. e.keys = Append(k.keys, c) /\ e.unread = k.unread /\ InKey(e)
    <3>1. PICK place : place \in {"get_key", "get_key escape"} /\ e = Then(k, place, Append(k.keys, c), <<>>)
      BY <1>7 DEF GrowsForm
    <3> DEFINE q == Append(k.keys, c)
    <3>a. e = Then(k, place, q, <<>>)
      BY <3>1
    <3> HIDE DEF q
    <3>2. e.reader = place /\ e.keys = q /\ e.unread = k.unread
      BY <3>a, ThenIs
    <3> QED BY <3>1, <3>2 DEF InKey, q
  <2>2. Append(k.keys, c) # <<>>
    <3>1. k.keys \in Seq(Plain)
      BY DEF Readable
    <3> QED BY <3>1, AppendProperties
  <2> QED BY <1>5, <2>1, <2>2
<1>8. CASE OtherForm(k, e)
  <2>1. k.keys = <<>>
    BY <1>8 DEF OtherForm, Taking, Begun
  <2>2. e.keys = k.keys /\ e.unread = k.unread /\ e.reader # "get_key escape"
    <3>1. PICK place, said : place # "get_key escape" /\ e = Then(k, place, k.keys, said)
      BY <1>8 DEF OtherForm
    <3> DEFINE q == k.keys
    <3>a. e = Then(k, place, q, said)
      BY <3>1
    <3> HIDE DEF q
    <3>2. e.reader = place /\ e.keys = q /\ e.unread = k.unread
      BY <3>a, ThenIs
    <3> QED BY <3>1, <3>2 DEF q
  <2> QED BY <1>5, <2>1, <2>2
<1>9. CASE BackForm(k, c, e)
  <2>1. "ESC" \in Plain /\ "[" \in Plain
    BY DEF Plain, Bytes
  <2>2. <<c>> \in Seq(Plain) /\ <<"ESC", "[">> \in Seq(Plain)
    BY <2>1
  <2>3. PICK what \in Seq(Notes), bytes \in Seq(Plain) :
          /\ bytes = <<c>> \/ bytes = <<"ESC", "[">>
          /\ e = GivenBack(Then(k, "get_key", k.keys, <<what>>), bytes)
    BY <1>9, <2>2 DEF BackForm
  <2>4. e.reader = "get_key" /\ e.keys = k.keys /\ (e.unread = k.unread \/ e.unread = bytes \o k.unread)
    BY <2>3, BackIs
  <2>5. k.reader \in {"search", "search ESC"} /\ k.keys = <<>>
    BY <1>9 DEF BackForm, Taking, Begun, InKey
  <2>6. k.unread \in Seq(Plain)
    BY DEF Readable
  <2>7. CASE bytes = <<"C-x">>
    <3>1. c = "C-x"
      <4>1. <<"ESC", "[">> # <<"C-x">> /\ (<<c>> = <<"C-x">> => c = "C-x")
        OBVIOUS
      <4> QED BY <2>3, <2>7, <4>1
    <3>2. k.unread = <<>>
      BY <3>1 DEF Taking
    <3>3. bytes \o k.unread = <<"C-x">>
      BY <2>3, <2>7, <3>2, Joined
    <3> QED BY <1>5, <2>4, <2>5, <3>1, <3>3
  <2>8. CASE bytes # <<"C-x">>
    <3>1. Without(bytes)
      <4>1. CASE bytes = <<c>>
        <5>1. c # "C-x"
          BY <2>8, <4>1
        <5>2. \A i \in 1..1 : <<c>>[i] = c
          OBVIOUS
        <5>3. Len(<<c>>) = 1
          OBVIOUS
        <5> QED BY <4>1, <5>1, <5>2, <5>3 DEF Without
      <4>2. CASE bytes = <<"ESC", "[">>
        <5>1. \A i \in 1..2 : <<"ESC", "[">>[i] # "C-x"
          OBVIOUS
        <5>2. Len(<<"ESC", "[">>) = 2
          OBVIOUS
        <5> QED BY <4>2, <5>1, <5>2 DEF Without
      <4> QED BY <2>3, <4>1, <4>2
    <3>2. Without(bytes \o k.unread)
      BY <1>5, <2>3, <2>6, <3>1, WithoutJoined
    <3> QED BY <1>5, <2>4, <2>5, <3>2
  <2> QED BY <2>7, <2>8
<1> QED BY <1>1, <1>6, <1>7, <1>8, <1>9

-----------------------------------------------------------------------------
(***************************************************************************)
(* The beginnings of a sequence.                                           *)
(***************************************************************************)
LEMMA PrefixIs ==
  ASSUME NEW S, NEW p \in Seq(S), NEW q \in Seq(S)
  PROVE  IsPrefix(p, q) <=> Len(p) <= Len(q) /\ \A i \in 1..Len(p) : p[i] = q[i]
<1>1. Len(p) \in Nat /\ Len(q) \in Nat
  BY LenProperties
<1>2. CASE Len(p) <= Len(q)
  <2>1. /\ SubSeq(p, 1, Len(p)) \in Seq(S) /\ Len(SubSeq(p, 1, Len(p))) = Len(p)
        /\ \A i \in 1..Len(p) : SubSeq(p, 1, Len(p))[i] = p[i]
    BY <1>1
  <2>2. /\ SubSeq(q, 1, Len(p)) \in Seq(S) /\ Len(SubSeq(q, 1, Len(p))) = Len(p)
        /\ \A i \in 1..Len(p) : SubSeq(q, 1, Len(p))[i] = q[i]
    BY <1>1, <1>2
  <2>3. SubSeq(p, 1, Len(p)) = SubSeq(q, 1, Len(p)) <=> \A i \in 1..Len(p) : p[i] = q[i]
    <3>1. ASSUME \A i \in 1..Len(p) : p[i] = q[i]
          PROVE  SubSeq(p, 1, Len(p)) = SubSeq(q, 1, Len(p))
      <4>1. \A i \in 1..Len(p) : SubSeq(p, 1, Len(p))[i] = SubSeq(q, 1, Len(p))[i]
        BY <2>1, <2>2, <3>1
      <4> QED BY <2>1, <2>2, <4>1, SeqEqual
    <3>2. ASSUME SubSeq(p, 1, Len(p)) = SubSeq(q, 1, Len(p))
          PROVE  \A i \in 1..Len(p) : p[i] = q[i]
      BY <2>1, <2>2, <3>2
    <3> QED BY <3>1, <3>2
  <2> QED BY <1>2, <2>3 DEF IsPrefix
<1>3. CASE ~(Len(p) <= Len(q))
  BY <1>3 DEF IsPrefix
<1> QED BY <1>2, <1>3

\* a prefix stays one when something is put behind the longer one
LEMMA PrefixGrows ==
  ASSUME NEW S, NEW p \in Seq(S), NEW q \in Seq(S)
  PROVE  IsPrefix(p, p \o q)
<1>1. p \o q \in Seq(S) /\ Len(p \o q) = Len(p) + Len(q) /\ Len(p) \in Nat /\ Len(q) \in Nat
  BY ConcatProperties, LenProperties
<1>2. \A i \in 1..Len(p) : (p \o q)[i] = p[i]
  BY <1>1, ConcatProperties
<1>3. Len(p) <= Len(p \o q)
  BY <1>1
<1> DEFINE r == p \o q
<1>4. r \in Seq(S) /\ Len(p) <= Len(r) /\ \A i \in 1..Len(p) : p[i] = r[i]
  BY <1>1, <1>2, <1>3
<1> HIDE DEF r
<1>5. IsPrefix(p, r)
  BY <1>4, PrefixIs
<1> QED BY <1>5 DEF r

\* prefixes along a way
LEMMA PrefixGoesOn ==
  ASSUME NEW S, NEW p \in Seq(S), NEW q \in Seq(S), NEW r \in Seq(S), IsPrefix(p, q), IsPrefix(q, r)
  PROVE  IsPrefix(p, r)
<1>1. /\ Len(p) \in Nat /\ Len(q) \in Nat /\ Len(r) \in Nat
  BY LenProperties
<1>2. /\ Len(p) <= Len(q) /\ \A i \in 1..Len(p) : p[i] = q[i]
      /\ Len(q) <= Len(r) /\ \A i \in 1..Len(q) : q[i] = r[i]
  BY PrefixIs
<1>3. Len(p) <= Len(r) /\ \A i \in 1..Len(p) : i \in 1..Len(q)
  BY <1>1, <1>2
<1>4. \A i \in 1..Len(p) : p[i] = r[i]
  BY <1>2, <1>3
<1> QED BY <1>3, <1>4, PrefixIs

-----------------------------------------------------------------------------
(***************************************************************************)
(* Ways.                                                                   *)
(***************************************************************************)
LEMMA SpotFields ==
  ASSUME NEW x \in Spots
  PROVE  Readable(x) /\ x.at \in Nat /\ x.done \in Seq(Seq(Notes))
  BY DEF Spots, Readable

\* the next byte and the spot behind it
LEMMA BehindIs ==
  ASSUME NEW m \in Seq(Plain), NEW x \in Spots, x.unread # <<>> \/ x.at < Len(m)
  PROVE  /\ Byte(m, x) \in Plain
         /\ Behind(x) \in Spots /\ Behind(x).reader = x.reader /\ Behind(x).keys = x.keys /\ Behind(x).done = x.done
         /\ x.unread # <<>> => Behind(x).unread = Tail(x.unread) /\ Behind(x).at = x.at
         /\ x.unread = <<>> => Behind(x).unread = <<>> /\ Behind(x).at = x.at + 1
<1>1. x.unread \in Seq(Plain) /\ x.at \in Nat
  BY SpotFields DEF Readable
<1>2. CASE x.unread # <<>>
  <2> DEFINE u == Tail(x.unread)
             t == [x EXCEPT !.unread = u]
  <2>1. Byte(m, x) = Head(x.unread) /\ Behind(x) = t
    BY <1>2 DEF Byte, Behind
  <2>2. Head(x.unread) \in Plain /\ u \in Seq(Plain)
    BY <1>1, <1>2, HeadTailProperties
  <2> HIDE DEF u
  <2>3. t \in Spots /\ t.reader = x.reader /\ t.keys = x.keys /\ t.done = x.done /\ t.unread = u /\ t.at = x.at
    BY <2>2 DEF Spots
  <2> HIDE DEF t
  <2> QED BY <1>2, <2>1, <2>2, <2>3 DEF u
<1>3. CASE x.unread = <<>>
  <2> DEFINE a == x.at + 1
             t == [x EXCEPT !.at = a]
  <2>1. Byte(m, x) = m[a] /\ Behind(x) = t
    BY <1>3 DEF Byte, Behind
  <2>2. a \in Nat /\ a \in 1..Len(m)
    <3>1. Len(m) \in Nat /\ x.at < Len(m)
      BY <1>3, LenProperties
    <3> QED BY <1>1, <3>1
  <2> HIDE DEF a
  <2>3. t \in Spots /\ t.reader = x.reader /\ t.keys = x.keys /\ t.done = x.done /\ t.unread = x.unread /\ t.at = a
    BY <2>2 DEF Spots
  <2>4. m[a] \in Plain
    BY <2>2
  <2> HIDE DEF t
  <2> QED BY <1>3, <2>1, <2>3, <2>4 DEF a
<1> QED BY <1>2, <1>3

\* the spot after an outcome
LEMMA AfterIs ==
  ASSUME NEW x \in Spots, NEW e, Readable(e), e.said \in Seq(Seq(Notes))
  PROVE  /\ After(x, e) \in Spots /\ After(x, e).at = x.at
         /\ IsPrefix(x.done, After(x, e).done)
<1>1. x.at \in Nat /\ x.done \in Seq(Seq(Notes))
  BY SpotFields
<1> DEFINE d == x.done \o e.said
<1>2. d \in Seq(Seq(Notes)) /\ IsPrefix(x.done, d)
  BY <1>1, PrefixGrows
<1>3. After(x, e) = [reader |-> e.reader, keys |-> e.keys, unread |-> e.unread, at |-> x.at, done |-> d]
  BY DEF After
<1> HIDE DEF d
<1>4. After(x, e) \in Spots /\ After(x, e).at = x.at /\ After(x, e).done = d
  BY <1>1, <1>2, <1>3 DEF Spots, Readable
<1> QED BY <1>2, <1>4

\* a step goes forward: in the macro and in what was done
LEMMA StepIs ==
  ASSUME NEW m \in Seq(Plain), NEW x \in Spots, NEW y, Step(m, x, y)
  PROVE  /\ y \in Spots /\ x.at <= y.at /\ IsPrefix(x.done, y.done)
         /\ x.unread = <<>> => y.at = x.at + 1
<1> DEFINE b == Behind(x)
           e == Outcome(b, Byte(m, x))
<1>1. y = After(b, e)
  BY DEF Step
<1>2. /\ Byte(m, x) \in Plain /\ b \in Spots /\ b.done = x.done
      /\ x.unread # <<>> => b.at = x.at
      /\ x.unread = <<>> => b.at = x.at + 1
  BY BehindIs DEF Step
<1> HIDE DEF b
<1>3. Readable(b)
  BY <1>2, SpotFields
<1>4. Readable(e) /\ e.said \in Seq(Seq(Notes))
  BY <1>2, <1>3, OutcomeTypes
<1> HIDE DEF e
<1>5. y \in Spots /\ y.at = b.at /\ IsPrefix(b.done, y.done)
  BY <1>1, <1>2, <1>4, AfterIs
<1>6. x.at \in Nat
  BY SpotFields
<1>7. x.at <= b.at
  BY <1>2, <1>6
<1> QED BY <1>2, <1>5, <1>7

\* a way goes as far along any macro that has the bytes taken until there
LEMMA PathUpTo ==
  ASSUME NEW m \in Seq(Plain), NEW n \in Nat, NEW f, Path(m, f, n), NEW k \in 0..n,
         NEW m2 \in Seq(Plain), f[k].at <= Len(m2), \A j \in 1..f[k].at : m2[j] = m[j]
  PROVE  Path(m2, [i \in 0..k |-> f[i]], k)
<1> DEFINE g == [i \in 0..k |-> f[i]]
<1>1. f \in [0..n -> Spots] /\ f[0] = Idle(0, <<>>)
  BY DEF Path
<1>2. 0 \in 0..k /\ k \in Nat /\ \A i \in 0..k : i \in 0..n /\ g[i] = f[i]
  OBVIOUS
<1>3. g \in [0..k -> Spots] /\ g[0] = Idle(0, <<>>)
  BY <1>1, <1>2
<1>4. \A i, j \in 0..k : i <= j => g[i].at <= g[j].at /\ IsPrefix(g[i].done, g[j].done)
  BY <1>2 DEF Path
<1>5. ASSUME NEW i \in 0..(k - 1)
      PROVE  Step(m2, g[i], g[i + 1])
  <2>1. i \in 0..(n - 1) /\ i \in 0..k /\ i + 1 \in 0..k /\ i + 1 <= k /\ k \in 0..n
    OBVIOUS
  <2> DEFINE x == f[i]
             y == f[i + 1]
  <2>2. Step(m, x, y) /\ x \in Spots /\ y \in Spots /\ y.at <= f[k].at /\ g[i] = x /\ g[i + 1] = y
    <3>1. i \in 0..n /\ i + 1 \in 0..n
      BY <2>1
    <3>2. y.at <= f[k].at
      BY <2>1, <3>1 DEF Path
    <3> QED BY <1>1, <1>2, <2>1, <3>1, <3>2 DEF Path
  <2>3. f[k].at \in Nat
    BY <1>1, SpotFields
  <2> HIDE DEF x, y
  <2>4. x.at \in Nat /\ (x.unread = <<>> => y.at = x.at + 1)
    BY <2>2, StepIs, SpotFields
  <2>5. x.unread = <<>> => x.at < Len(m2) /\ m2[x.at + 1] = m[x.at + 1]
    <3> SUFFICES ASSUME x.unread = <<>> PROVE x.at < Len(m2) /\ m2[x.at + 1] = m[x.at + 1]
      OBVIOUS
    <3>1. x.at + 1 \in 1..f[k].at /\ Len(m2) \in Nat
      BY <2>2, <2>3, <2>4, LenProperties
    <3> QED BY <2>3, <2>4, <3>1
  <2>6. Byte(m2, x) = Byte(m, x)
    BY <2>5 DEF Byte
  <2>7. Step(m2, x, y)
    BY <2>2, <2>5, <2>6 DEF Step
  <2> QED BY <2>2, <2>7
<1> QED BY <1>3, <1>4, <1>5 DEF Path

\* and a step further
LEMMA PathGoesOn ==
  ASSUME NEW m \in Seq(Plain), NEW n \in Nat, NEW f, Path(m, f, n), NEW y, Step(m, f[n], y)
  PROVE  \E g : Path(m, g, n + 1) /\ g[n] = f[n] /\ g[n + 1] = y
<1> DEFINE g == [i \in 0..(n + 1) |-> IF i = n + 1 THEN y ELSE f[i]]
<1>1. f \in [0..n -> Spots] /\ f[0] = Idle(0, <<>>) /\ f[n] \in Spots
  BY DEF Path
<1>2. y \in Spots /\ f[n].at <= y.at /\ IsPrefix(f[n].done, y.done)
  BY <1>1, StepIs
<1>3. g[n + 1] = y /\ \A i \in 0..n : g[i] = f[i] /\ i \in 0..(n + 1)
  OBVIOUS
<1>4. g \in [0..(n + 1) -> Spots]
  BY <1>1, <1>2
<1> HIDE DEF g
<1>5. g[0] = Idle(0, <<>>)
  BY <1>1, <1>3
<1>6. ASSUME NEW i \in 0..n
      PROVE  Step(m, g[i], g[i + 1])
  <2>1. CASE i = n
    BY <1>3, <2>1
  <2>2. CASE i # n
    <3>1. i \in 0..(n - 1) /\ i + 1 \in 0..n
      BY <2>2
    <3> QED BY <1>3, <3>1 DEF Path
  <2> QED BY <2>1, <2>2
<1>7. ASSUME NEW i \in 0..(n + 1), NEW j \in 0..(n + 1), i <= j
      PROVE  g[i].at <= g[j].at /\ IsPrefix(g[i].done, g[j].done)
  <2>1. CASE j # n + 1
    <3>1. i \in 0..n /\ j \in 0..n
      BY <1>7, <2>1
    <3> QED BY <1>3, <1>7, <3>1 DEF Path
  <2>2. CASE j = n + 1 /\ i # n + 1
    <3>1. i \in 0..n /\ n \in 0..n /\ i <= n
      BY <2>2
    <3>2. f[i].at <= f[n].at /\ IsPrefix(f[i].done, f[n].done)
      BY <3>1 DEF Path
    <3>3. /\ f[i].at \in Nat /\ f[n].at \in Nat /\ y.at \in Nat
          /\ f[i].done \in Seq(Seq(Notes)) /\ f[n].done \in Seq(Seq(Notes)) /\ y.done \in Seq(Seq(Notes))
      BY <1>1, <1>2, <3>1, SpotFields
    <3>4. f[i].at <= y.at
      BY <1>2, <3>2, <3>3
    <3>5. IsPrefix(f[i].done, y.done)
      BY <1>2, <3>2, <3>3, PrefixGoesOn
    <3> QED BY <1>3, <2>2, <3>1, <3>4, <3>5
  <2>3. CASE j = n + 1 /\ i = n + 1
    <3>1. y.at \in Nat /\ y.done \in Seq(Seq(Notes))
      BY <1>2, SpotFields
    <3>2. y.at <= y.at /\ IsPrefix(y.done, y.done)
      <4>1. Len(y.done) \in Nat
        BY <3>1, LenProperties
      <4>2. IsPrefix(y.done, y.done)
        BY <3>1, <4>1, PrefixIs
      <4> QED BY <3>1, <4>2
    <3> QED BY <1>3, <2>3, <3>2
  <2> QED BY <2>1, <2>2, <2>3
<1>8. Path(m, g, n + 1)
  <2>1. n + 1 - 1 = n
    OBVIOUS
  <2> QED BY <1>4, <1>5, <1>6, <1>7, <2>1 DEF Path
<1> QED BY <1>3, <1>8

\* a way along one macro, and a step further along a longer one
LEMMA PathLonger ==
  ASSUME NEW m \in Seq(Plain), NEW n \in Nat, NEW f, Path(m, f, n), NEW m2 \in Seq(Plain),
         NEW l \in Nat, f[n].at = l, l <= Len(m2), \A j \in 1..l : m2[j] = m[j], NEW y, Step(m2, f[n], y)
  PROVE  \E g : Path(m2, g, n + 1) /\ g[n] = f[n] /\ g[n + 1] = y
<1>1. PICK k : Path(m2, k, n) /\ k[n] = f[n]
  <2> DEFINE k == [i \in 0..n |-> f[i]]
  <2>1. n \in 0..n /\ k[n] = f[n]
    OBVIOUS
  <2>2. Path(m2, k, n)
    BY <2>1, PathUpTo
  <2> QED BY <2>1, <2>2
<1>2. Step(m2, k[n], y)
  BY <1>1
<1> QED BY <1>1, <1>2, PathGoesOn, SMTT(30)

-----------------------------------------------------------------------------
(***************************************************************************)
(* States on a way.                                                        *)
(***************************************************************************)
LEMMA OutcomeSame ==
  ASSUME NEW k, NEW l, NEW c, k.reader = l.reader, k.keys = l.keys, k.unread = l.unread
  PROVE  Outcome(k, c) = Outcome(l, c)
<1>1. ASSUME NEW place, NEW q, NEW said
      PROVE  Then(k, place, q, said) = Then(l, place, q, said)
  BY DEF Then
<1>2. ASSUME NEW q
      PROVE  KeyDone(k, q) = KeyDone(l, q)
  BY <1>1 DEF KeyDone
<1>3. ASSUME NEW q
      PROVE  KeyOutcome(k, q) = KeyOutcome(l, q) /\ EscapeOutcome(k, q) = EscapeOutcome(l, q)
  BY <1>1, <1>2 DEF KeyOutcome, EscapeOutcome
<1>4. SearchOutcome(k, c) = SearchOutcome(l, c)
  <2>1. CASE c = "RET"
    BY <1>1, <2>1 DEF SearchOutcome
  <2>2. CASE c = "ESC"
    <3>1. /\ SearchOutcome(k, c) = Then(k, "search ESC", k.keys, <<>>)
          /\ SearchOutcome(l, c) = Then(l, "search ESC", l.keys, <<>>)
      BY <2>2 DEF SearchOutcome
    <3> QED BY <1>1, <3>1
  <2>3. CASE c = "C-x"
    <3>1. /\ SearchOutcome(k, c) = GivenBack(Then(k, "get_key", k.keys, <<<<"search", "RET">>>>), <<c>>)
          /\ SearchOutcome(l, c) = GivenBack(Then(l, "get_key", l.keys, <<<<"search", "RET">>>>), <<c>>)
      BY <2>3 DEF SearchOutcome
    <3> QED BY <1>1, <3>1
  <2>4. CASE c \notin {"RET", "ESC", "C-x"}
    <3>1. /\ SearchOutcome(k, c) = Then(k, k.reader, k.keys, <<<<"search", c>>>>)
          /\ SearchOutcome(l, c) = Then(l, l.reader, l.keys, <<<<"search", c>>>>)
      BY <2>4 DEF SearchOutcome
    <3> QED BY <1>1, <3>1
  <2> QED BY <2>1, <2>2, <2>3, <2>4
<1>5. SearchEscapeOutcome(k, c) = SearchEscapeOutcome(l, c)
  BY <1>1 DEF SearchEscapeOutcome
<1>6. LineOutcome(k, c) = LineOutcome(l, c)
  BY <1>1, ZenonT(30) DEF LineOutcome
<1>7. LineEscapeOutcome(k, c) = LineEscapeOutcome(l, c)
  BY <1>1 DEF LineEscapeOutcome
<1> QED BY <1>3, <1>4, <1>5, <1>6, <1>7 DEF Outcome

\* the fields of a spot
LEMMA HereIs ==
  ASSUME NEW s \in States, NEW at \in Nat, NEW done \in Seq(Seq(Notes))
  PROVE  LET x == Here(s, at, done)
         IN  /\ x \in Spots /\ x.reader = s.reader /\ x.keys = s.keys /\ x.unread = s.unread
             /\ x.at = at /\ x.done = done
<1>1. s.reader \in Readers /\ s.keys \in Seq(Plain) /\ s.unread \in Seq(Plain)
  BY Fields
<1> QED BY <1>1 DEF Here, Spots

\* a state can be read on
LEMMA StateReadable ==
  ASSUME NEW s \in States
  PROVE  Readable(s)
  BY Fields DEF Readable

\* The byte c that takes state s, through u, to another is the next one on a way
\* along m that is at s.
LEMMA ByteGoes ==
  ASSUME NEW s \in States, NEW u \in States, NEW c \in Plain, Ordinary(u, c), Taken(u, c) \in States,
         u.reader = s.reader, u.keys = s.keys,
         NEW m \in Seq(Plain), NEW at \in Nat, NEW to \in Nat, NEW done \in Seq(Seq(Notes)),
         \/ s.unread # <<>> /\ c = Head(s.unread) /\ u.unread = Tail(s.unread) /\ to = at
         \/ s.unread = <<>> /\ u.unread = <<>> /\ at < Len(m) /\ c = m[at + 1] /\ to = at + 1
  PROVE  Step(m, Here(s, at, done), Here(Taken(u, c), to, done \o Outcome(u, c).said))
<1> DEFINE x == Here(s, at, done)
           b == Here(u, to, done)
           e == Outcome(u, c)
           t == Taken(u, c)
<1>1. /\ x \in Spots /\ x.reader = s.reader /\ x.keys = s.keys /\ x.unread = s.unread /\ x.at = at /\ x.done = done
      /\ b \in Spots /\ b.reader = u.reader /\ b.keys = u.keys /\ b.unread = u.unread /\ b.at = to /\ b.done = done
  BY HereIs
<1>2. b = [reader |-> u.reader, keys |-> u.keys, unread |-> u.unread, at |-> to, done |-> done]
  BY DEF Here
<1>3. x = [reader |-> s.reader, keys |-> s.keys, unread |-> s.unread, at |-> at, done |-> done]
  BY DEF Here
<1>4. t.reader = e.reader /\ t.keys = e.keys /\ t.unread = e.unread
  BY OutcomeIs DEF Yields
<1>5. Here(t, to, done \o e.said) = [reader |-> t.reader, keys |-> t.keys, unread |-> t.unread, at |-> to, done |-> done \o e.said]
  BY DEF Here
<1>6. After(b, e) = [reader |-> e.reader, keys |-> e.keys, unread |-> e.unread, at |-> b.at, done |-> b.done \o e.said]
  BY DEF After
<1> HIDE DEF t
<1>7. Here(t, to, done \o e.said) = After(b, e)
  BY <1>1, <1>4, <1>5, <1>6
<1>8. Outcome(b, c) = e
  BY <1>1, OutcomeSame
<1> HIDE DEF e, x, b
<1>9. (x.unread # <<>> \/ x.at < Len(m)) /\ Byte(m, x) = c
  BY <1>1 DEF Byte
<1>10. Behind(x) = b
  <2>1. CASE s.unread # <<>>
    <3>1. Behind(x) = [x EXCEPT !.unread = Tail(x.unread)]
      BY <1>1, <2>1 DEF Behind
    <3>2. u.unread = Tail(x.unread) /\ to = at
      BY <1>1, <2>1
    <3> QED BY <1>2, <1>3, <3>1, <3>2
  <2>2. CASE s.unread = <<>>
    <3>1. Behind(x) = [x EXCEPT !.at = x.at + 1]
      BY <1>1, <2>2 DEF Behind
    <3>2. u.unread = s.unread /\ to = x.at + 1
      BY <1>1, <2>2
    <3> QED BY <1>2, <1>3, <3>1, <3>2
  <2> QED BY <2>1, <2>2
<1>11. Ordinary(x, c)
  BY <1>1 DEF Ordinary
<1>12. Step(m, x, Here(t, to, done \o e.said))
  BY <1>7, <1>8, <1>9, <1>10, <1>11 DEF Step
<1> QED BY <1>12 DEF x, e, t

\* C-x stays where it may be
LEMMA StaysPrefixed ==
  ASSUME NEW u \in States, NEW c \in Plain, Taking(u, c), Ordinary(u, c),
         u.recording /\ u.reader \in {"search", "search ESC"} => c # "C-x"
  PROVE  Prefixed(Taken(u, c))
<1> DEFINE e == Outcome(u, c)
           t == Taken(u, c)
<1>1. t.reader = e.reader /\ t.keys = e.keys /\ t.unread = e.unread /\ t.recording = u.recording
  BY OutcomeIs DEF Yields
<1>2. /\ Begun(e)
      /\ e.keys = <<"C-x">> => e.unread = <<>>
      /\ Without(e.unread) \/ e.unread = <<"C-x">>
      /\ (u.reader \in {"search", "search ESC"} => c # "C-x") => Without(e.unread)
  BY StateReadable, OutcomePrefixed
<1>3. u.recording \in BOOLEAN
  BY Fields
<1> HIDE DEF e, t
<1>4. Begun(t)
  BY <1>1, <1>2 DEF Begun, InKey
<1>5. t.keys = <<"C-x">> => t.unread = <<>>
  BY <1>1, <1>2
<1>6. Without(t.unread) \/ (t.unread = <<"C-x">> /\ ~t.recording)
  BY <1>1, <1>2, <1>3
<1> QED BY <1>4, <1>5, <1>6 DEF Prefixed, t

-----------------------------------------------------------------------------
(***************************************************************************)
(* The four ways to read a byte: it was given back, it is the next one of  *)
(* the macro that is played, it starts this macro again, or it is typed.   *)
(***************************************************************************)
GivenByte(s, c, u) ==
  /\ s.unread # <<>> /\ c = Head(s.unread) /\ u.unread = Tail(s.unread)
  /\ u.macro = s.macro /\ u.recording = s.recording /\ u.play = s.play /\ u.repeat = s.repeat
  /\ u.ran = s.ran /\ u.cut = s.cut /\ u.tested = s.tested

\* the next one of the macro
MacroByte(s, c, u) ==
  /\ s.unread = <<>> /\ u.unread = <<>> /\ s.play >= 0 /\ s.play < Len(s.macro) /\ c = s.macro[s.play + 1]
  /\ u.macro = s.macro /\ u.recording = s.recording /\ u.play = s.play + 1 /\ u.repeat = s.repeat
  /\ u.ran = s.ran /\ u.cut = s.cut /\ u.tested = s.tested

\* nothing is given back and nothing of the macro is left
AtEnd(s) == s.unread = <<>> /\ ~(s.play >= 0 /\ s.play < Len(s.macro))

\* e is typed after a replay
AgainByte(s, c, u) ==
  /\ AtEnd(s) /\ u.unread = <<>> /\ s.repeat /\ s.macro # <<>> /\ c = Head(s.macro)
  /\ u.macro = s.macro /\ u.recording = s.recording /\ u.play = 1 /\ u.repeat = TRUE
  /\ u.ran = <<>> /\ u.cut = s.cut /\ u.tested = FALSE

\* typed: not recorded, recorded, or too much for the macro
TypedByte(s, c, u) ==
  /\ AtEnd(s) /\ u.unread = <<>> /\ u.play = -1 /\ u.repeat = FALSE /\ u.ran = <<>> /\ u.tested = FALSE
  /\ \/ ~s.recording /\ ~u.recording /\ u.macro = s.macro /\ u.cut = s.cut
     \/ s.recording /\ u.recording /\ u.macro = Append(s.macro, c) /\ u.cut = s.cut
     \/ s.recording /\ ~u.recording /\ u.cut

\* there is no other way
LEMMA ReadsFrom ==
  ASSUME NEW s \in States, NEW r \in ReadKeyByte(s)
  PROVE  LET c == r[1] u == r[2]
         IN  /\ u.reader = s.reader /\ u.keys = s.keys /\ u.meant = s.meant
             /\ GivenByte(s, c, u) \/ MacroByte(s, c, u) \/ AgainByte(s, c, u) \/ TypedByte(s, c, u)
<1>1. CASE s.unread # <<>>
  <2> DEFINE q == Tail(s.unread)
             u == [s EXCEPT !.unread = q]
  <2>1. r = <<Head(s.unread), u>>
    BY <1>1 DEF ReadKeyByte
  <2> HIDE DEF q
  <2>2. /\ u.unread = q /\ u.reader = s.reader /\ u.keys = s.keys /\ u.meant = s.meant
        /\ u.macro = s.macro /\ u.recording = s.recording /\ u.play = s.play /\ u.repeat = s.repeat
        /\ u.ran = s.ran /\ u.cut = s.cut /\ u.tested = s.tested
    BY DEF States
  <2> HIDE DEF u
  <2>3. GivenByte(s, Head(s.unread), u)
    BY <1>1, <2>2 DEF GivenByte, q
  <2>4. r[1] = Head(s.unread) /\ r[2] = u
    BY <2>1
  <2> QED BY <2>2, <2>3, <2>4
<1>2. CASE s.unread = <<>> /\ s.play >= 0 /\ s.play < Len(s.macro)
  <2> DEFINE p == s.play + 1
             u == [s EXCEPT !.play = p]
  <2>1. r = <<s.macro[p], u>>
    BY <1>2 DEF ReadKeyByte
  <2> HIDE DEF p
  <2>2. /\ u.unread = s.unread /\ u.reader = s.reader /\ u.keys = s.keys /\ u.meant = s.meant
        /\ u.macro = s.macro /\ u.recording = s.recording /\ u.play = p /\ u.repeat = s.repeat
        /\ u.ran = s.ran /\ u.cut = s.cut /\ u.tested = s.tested
    BY DEF States
  <2> HIDE DEF u
  <2>3. MacroByte(s, s.macro[p], u)
    BY <1>2, <2>2 DEF MacroByte, p
  <2>4. r[1] = s.macro[p] /\ r[2] = u
    BY <2>1
  <2> QED BY <2>2, <2>3, <2>4
<1>3. CASE AtEnd(s)
  <2> DEFINE quiet == [s EXCEPT !.play = -1, !.repeat = FALSE, !.ran = <<>>, !.tested = FALSE]
             Read(c) == IF s.repeat /\ c = "e" /\ s.macro # <<>>
                          THEN <<Head(s.macro), [Played(quiet) EXCEPT !.play = 1]>>
                          ELSE <<c, Recorded(quiet, c)>>
  <2>1. ReadKeyByte(s) = {Read(c) : c \in Typed(s)}
    BY <1>3 DEF ReadKeyByte, AtEnd
  <2>2. PICK c \in Typed(s) : r = Read(c)
    BY <2>1
  <2>3. /\ quiet.unread = s.unread /\ quiet.reader = s.reader /\ quiet.keys = s.keys /\ quiet.meant = s.meant
        /\ quiet.macro = s.macro /\ quiet.recording = s.recording /\ quiet.play = -1 /\ quiet.repeat = FALSE
        /\ quiet.ran = <<>> /\ quiet.cut = s.cut /\ quiet.tested = FALSE
    BY DEF States
  <2>4. DOMAIN quiet = DOMAIN s /\ {"play", "repeat", "ran", "macro", "recording", "cut"} \subseteq DOMAIN s
    BY DEF States
  <2> HIDE DEF quiet
  <2>5. CASE s.repeat /\ c = "e" /\ s.macro # <<>>
    <3> DEFINE u == [Played(quiet) EXCEPT !.play = 1]
    <3>1. r = <<Head(s.macro), u>>
      BY <2>2, <2>5
    <3>2. /\ u.unread = quiet.unread /\ u.reader = quiet.reader /\ u.keys = quiet.keys /\ u.meant = quiet.meant
          /\ u.macro = quiet.macro /\ u.recording = quiet.recording /\ u.play = 1 /\ u.repeat = TRUE
          /\ u.ran = <<>> /\ u.cut = quiet.cut /\ u.tested = quiet.tested
      BY <2>4 DEF Played
    <3> HIDE DEF u
    <3>3. AgainByte(s, Head(s.macro), u)
      BY <1>3, <2>3, <2>5, <3>2 DEF AgainByte, AtEnd
    <3>4. r[1] = Head(s.macro) /\ r[2] = u
      BY <3>1
    <3> QED BY <2>3, <3>2, <3>3, <3>4
  <2>6. CASE ~(s.repeat /\ c = "e" /\ s.macro # <<>>)
    <3> DEFINE u == Recorded(quiet, c)
    <3>1. r = <<c, u>>
      BY <2>2, <2>6
    <3>2. /\ u.unread = quiet.unread /\ u.reader = quiet.reader /\ u.keys = quiet.keys /\ u.meant = quiet.meant
          /\ u.play = quiet.play /\ u.repeat = quiet.repeat /\ u.ran = quiet.ran /\ u.tested = quiet.tested
          /\ \/ ~quiet.recording /\ ~u.recording /\ u.macro = quiet.macro /\ u.cut = quiet.cut
             \/ quiet.recording /\ u.recording /\ u.macro = Append(quiet.macro, c) /\ u.cut = quiet.cut
             \/ quiet.recording /\ ~u.recording /\ u.cut
      <4>1. CASE ~quiet.recording
        BY <4>1 DEF Recorded
      <4>2. CASE quiet.recording /\ Len(quiet.macro) < MacroMax
        <5> DEFINE m == Append(quiet.macro, c)
        <5>1. u = [quiet EXCEPT !.macro = m]
          BY <4>2 DEF Recorded
        <5> HIDE DEF u, m
        <5>2. /\ u.unread = quiet.unread /\ u.reader = quiet.reader /\ u.keys = quiet.keys /\ u.meant = quiet.meant
              /\ u.play = quiet.play /\ u.repeat = quiet.repeat /\ u.ran = quiet.ran /\ u.tested = quiet.tested
              /\ u.macro = m /\ u.cut = quiet.cut /\ u.recording = quiet.recording
          BY <2>4, <5>1
        <5> QED BY <4>2, <5>2 DEF m, u
      <4>3. CASE quiet.recording /\ ~(Len(quiet.macro) < MacroMax)
        <5>1. u = [quiet EXCEPT !.recording = FALSE, !.cut = TRUE]
          BY <4>3 DEF Recorded
        <5> HIDE DEF u
        <5>2. /\ u.unread = quiet.unread /\ u.reader = quiet.reader /\ u.keys = quiet.keys /\ u.meant = quiet.meant
              /\ u.play = quiet.play /\ u.repeat = quiet.repeat /\ u.ran = quiet.ran /\ u.tested = quiet.tested
              /\ u.recording = FALSE /\ u.cut = TRUE
          BY <2>4, <5>1
        <5> QED BY <4>3, <5>2 DEF u
      <4> QED BY <4>1, <4>2, <4>3
    <3> HIDE DEF u
    <3>3. TypedByte(s, c, u)
      BY <1>3, <2>3, <3>2 DEF TypedByte, AtEnd
    <3>4. r[1] = c /\ r[2] = u
      BY <3>1
    <3> QED BY <2>3, <3>2, <3>3, <3>4
  <2> QED BY <2>5, <2>6
<1> QED BY <1>1, <1>2, <1>3 DEF AtEnd

\* arithmetic of the key C-x c
LEMMA TwoIsOneMore == \A l \in Nat : \A k : k = l + 1 /\ k = 2 => l = 1 /\ l + 1 = 2
  OBVIOUS

\* a byte that ends a command of macros was not given back
LEMMA TakesPrefixed ==
  ASSUME NEW s \in States, NEW c \in Plain, NEW u \in States, u.reader = s.reader, u.keys = s.keys,
         \/ s.unread # <<>> /\ c = Head(s.unread) /\ u.unread = Tail(s.unread)
         \/ s.unread = <<>> /\ u.unread = <<>>,
         Prefixed(s)
  PROVE  /\ Taking(u, c)
         /\ ~Ordinary(u, c) => /\ s.unread = <<>> /\ u.reader = "get_key" /\ u.keys = <<"C-x">>
                               /\ c \in {"(", ")", "e"}
<1>1. s.unread \in Seq(Plain) /\ s.keys \in Seq(Plain) /\ Len(s.unread) \in Nat /\ Len(s.keys) \in Nat
  BY Fields, LenProperties
<1>2. Begun(u)
  BY DEF Prefixed, Begun, InKey
<1>3. Without(u.unread) /\ (c = "C-x" => u.unread = <<>>)
  <2>1. CASE s.unread = <<>>
    <3>1. u.unread = <<>> /\ Len(<<>>) = 0
      BY <2>1
    <3> QED BY <3>1 DEF Without
  <2>2. CASE s.unread # <<>> /\ Without(s.unread)
    <3> DEFINE q == s.unread
    <3>1. q \in Seq(Plain) /\ q # <<>> /\ Len(q) \in Nat /\ Len(q) # 0
      BY <1>1, <2>2, EmptySeq
    <3>2. /\ Head(q) = q[1] /\ Len(Tail(q)) = Len(q) - 1
          /\ \A i \in 1..(Len(q) - 1) : Tail(q)[i] = q[i + 1]
      BY <3>1, HeadTailProperties
    <3>3. \A i \in 1..Len(q) : q[i] # "C-x"
      BY <2>2 DEF Without
    <3> HIDE DEF q
    <3>4. q[1] # "C-x"
      BY <3>1, <3>3
    <3>5. \A i \in 1..(Len(q) - 1) : i + 1 \in 1..Len(q)
      BY <3>1
    <3>6. \A i \in 1..Len(Tail(q)) : Tail(q)[i] # "C-x"
      BY <3>2, <3>3, <3>5
    <3>7. c = q[1] /\ u.unread = Tail(q)
      BY <2>2, <3>2 DEF q
    <3> QED BY <3>4, <3>6, <3>7 DEF Without
  <2>3. CASE s.unread = <<"C-x">>
    <3>1. Tail(<<"C-x">>) = <<>> /\ <<"C-x">> # <<>> /\ Len(<<>>) = 0
      OBVIOUS
    <3>2. u.unread = <<>>
      BY <2>3, <3>1
    <3> QED BY <3>1, <3>2 DEF Without
  <2> QED BY <2>1, <2>2, <2>3 DEF Prefixed
<1>4. ASSUME ~Ordinary(u, c)
      PROVE  s.unread = <<>> /\ u.reader = "get_key" /\ u.keys = <<"C-x">> /\ c \in {"(", ")", "e"}
  <2>1. Append(s.keys, c) \in MacroKeys
    BY <1>4 DEF Ordinary
  <2>2. PICK d : d \in {"(", ")", "e"} /\ Append(s.keys, c) = <<"C-x", d>>
    BY <2>1 DEF MacroKeys
  <2> DEFINE q == Append(s.keys, c)
             l == Len(s.keys)
  <2>3. Len(q) = 2 /\ q[1] = "C-x" /\ q[2] = d
    BY <2>2
  <2>4. l \in Nat /\ Len(q) = l + 1 /\ q[l + 1] = c /\ \A i \in 1..l : q[i] = s.keys[i]
    BY <1>1, AppendProperties
  <2> HIDE DEF q, l
  <2>a. l \in Nat /\ Len(q) = l + 1 /\ Len(q) = 2
    BY <2>3, <2>4
  <2>5. l = 1 /\ l + 1 = 2
    BY <2>a, TwoIsOneMore
  <2>6. c = d
    BY <2>3, <2>4, <2>5
  <2>7. q[1] = s.keys[1]
    BY <2>4, <2>5
  <2>8. s.keys = <<"C-x">>
    <3>1. Len(s.keys) = 1 /\ s.keys[1] = "C-x"
      BY <2>3, <2>5, <2>7 DEF l
    <3> DEFINE k == <<"C-x">>
    <3>2. k \in Seq(Plain) /\ Len(k) = 1 /\ k[1] = "C-x"
      <4>1. "C-x" \in Plain
        BY DEF Plain, Bytes
      <4> QED BY <4>1
    <3>3. \A i \in 1..1 : i = 1
      OBVIOUS
    <3> HIDE DEF k
    <3>4. s.keys = k
      BY <1>1, <3>1, <3>2, <3>3, SeqEqual
    <3> QED BY <3>4 DEF k
  <2>9. s.unread = <<>> /\ s.reader = "get_key"
    BY <2>8 DEF Prefixed, Begun
  <2> QED BY <2>2, <2>6, <2>8, <2>9
<1> QED BY <1>2, <1>3, <1>4 DEF Taking

-----------------------------------------------------------------------------
(***************************************************************************)
(* The commands of macros, when none is played.                            *)
(***************************************************************************)
LEMMA DidNothing ==
  ASSUME NEW u \in States, NEW v \in States, NEW what, u.play = -1, ~u.recording \/ ~v.recording
  PROVE  Did(u, v, what) = v
<1>1. ~(u.play >= 0)
  OBVIOUS
<1>2. Did(u, v, what) = [v EXCEPT !.meant = v.meant, !.ran = v.ran]
  BY <1>1 DEF Did
<1> QED BY <1>2 DEF States

\* where C-x e leads to, and every other way to end a macro
PlaysIf(v, plays) ==
  IF plays /\ v.macro # <<>> THEN v.play = 0 /\ v.repeat = TRUE /\ v.ran = <<>>
  ELSE v.play = -1 /\ v.repeat = FALSE

\* the end of kmacro_call
LEMMA PlayedOrNot ==
  ASSUME NEW v \in States, v.play = -1, v.repeat = FALSE
  PROVE  LET w == IF v.play >= 0 \/ v.macro = <<>> THEN v ELSE Played(v)
         IN  /\ w \in States /\ PlaysIf(w, TRUE)
             /\ w.reader = v.reader /\ w.keys = v.keys /\ w.unread = v.unread /\ w.macro = v.macro
             /\ w.recording = v.recording /\ w.meant = v.meant /\ w.cut = v.cut
<1>1. ~(v.play >= 0)
  OBVIOUS
<1>2. CASE v.macro = <<>>
  <2>1. PlaysIf(v, TRUE)
    BY <1>2 DEF PlaysIf
  <2> QED BY <1>2, <2>1
<1>3. CASE v.macro # <<>>
  <2> DEFINE w == Played(v)
  <2>1. w \in States
    BY PlayedIs
  <2>2. /\ w.reader = v.reader /\ w.keys = v.keys /\ w.unread = v.unread /\ w.macro = v.macro
        /\ w.recording = v.recording /\ w.meant = v.meant /\ w.cut = v.cut
        /\ w.play = 0 /\ w.repeat = TRUE /\ w.ran = <<>>
    BY DEF States, Played
  <2> HIDE DEF w
  <2>3. PlaysIf(w, TRUE)
    BY <1>3, <2>2 DEF PlaysIf
  <2> QED BY <1>1, <1>3, <2>1, <2>2, <2>3 DEF w
<1> QED BY <1>2, <1>3

\* C-x and one of ( ) e are dispatched as a key
LEMMA MacroCommand ==
  ASSUME NEW u \in States, u.reader = "get_key", u.keys = <<"C-x">>, NEW c \in Plain, c \in {"(", ")", "e"}
  PROVE  Taken(u, c) = Dispatched(u, <<"C-x", c>>)
<1> DEFINE q == <<"C-x", c>>
<1>1. q \in Seq(Plain) /\ q \in KeyMap
  <2>1. "C-x" \in Plain
    BY DEF Plain, Bytes
  <2> QED BY <2>1 DEF KeyMap
<1>2. Append(u.keys, c) = q
  <2> DEFINE k == u.keys
  <2>a. k = <<"C-x">> /\ k \in Seq(Plain)
    BY Fields
  <2>b. Len(<<"C-x">>) = 1 /\ <<"C-x">>[1] = "C-x"
    OBVIOUS
  <2>1. k \in Seq(Plain) /\ Len(k) = 1 /\ k[1] = "C-x"
    BY <2>a, <2>b
  <2>2. q \in Seq(Plain) /\ Len(q) = 2 /\ q[1] = "C-x" /\ q[2] = c
    BY <1>1
  <2> HIDE DEF k, q
  <2>3. Append(k, c) \in Seq(Plain) /\ Len(Append(k, c)) = 2 /\ Append(k, c)[1] = "C-x" /\ Append(k, c)[2] = c
    BY <2>1, AppendProperties, SMTT(30)
  <2>4. \A i \in 1..2 : i = 1 \/ i = 2
    OBVIOUS
  <2>5. Append(k, c) = q
    BY <2>2, <2>3, <2>4, SeqEqual
  <2> QED BY <2>5 DEF k
<1> HIDE DEF q
<1>3. CString(q) = q
  BY <1>1, PlainString
<1>4. GetKey(u, c) = Dispatched(u, q)
  BY <1>1, <1>2, <1>3 DEF GetKey
<1> QED BY <1>4 DEF Taken, q

\* no macro is recorded
LEMMA CommandOutside ==
  ASSUME NEW u \in States, u.play = -1, u.repeat = FALSE, u.recording = FALSE,
         u.reader = "get_key", u.keys = <<"C-x">>, NEW c \in Plain, c \in {"(", ")", "e"}
  PROVE  LET v == Taken(u, c)
         IN  /\ v.reader = "get_key" /\ v.keys = <<>> /\ v.unread = u.unread
             /\ c = "(" => /\ v.recording = TRUE /\ v.cut = FALSE /\ v.macro = <<>> /\ v.meant = <<>>
                           /\ v.play = -1 /\ v.repeat = FALSE
             /\ c # "(" => /\ v.recording = FALSE /\ v.cut = u.cut /\ v.macro = u.macro /\ v.meant = u.meant
                           /\ PlaysIf(v, c = "e")
<1> DEFINE t == [u EXCEPT !.keys = <<>>, !.reader = "get_key"]
           q == <<"C-x", c>>
           v == Taken(u, c)
<1>1. /\ t.reader = "get_key" /\ t.keys = <<>> /\ t.unread = u.unread /\ t.macro = u.macro /\ t.recording = FALSE
      /\ t.play = -1 /\ t.repeat = FALSE /\ t.meant = u.meant /\ t.cut = u.cut
  BY DEF States
<1>2. t \in States
  <2>1. <<>> \in Seq(Plain) /\ "get_key" \in Readers
    BY DEF Readers
  <2> QED BY <2>1 DEF States
<1>3. v = Dispatched(u, q)
  BY MacroCommand
<1>4. CASE c = "("
  <2> DEFINE w == KmacroStart(t)
  <2>1. v = Did(u, w, q)
    BY <1>3, <1>4 DEF Dispatched
  <2>2. w = [t EXCEPT !.macro = <<>>, !.recording = TRUE, !.meant = <<>>, !.cut = FALSE]
    BY <1>1 DEF KmacroStart
  <2> HIDE DEF t
  <2>3. <<>> \in Seq(Plain) /\ <<>> \in Seq(Seq(Notes))
    OBVIOUS
  <2> HIDE DEF w
  <2>4. w \in States
    BY <1>2, <2>2, <2>3 DEF States
  <2>5. /\ w.reader = t.reader /\ w.keys = t.keys /\ w.unread = t.unread /\ w.recording = TRUE /\ w.cut = FALSE
        /\ w.macro = <<>> /\ w.meant = <<>> /\ w.play = t.play /\ w.repeat = t.repeat
    BY <1>2, <2>2 DEF States
  <2>6. v = w
    BY <2>1, <2>4, DidNothing
  <2> HIDE DEF v
  <2> QED BY <1>1, <1>4, <2>5, <2>6 DEF v
<1>5. CASE c = ")"
  <2>1. v = Did(u, KmacroEnd(t), q)
    BY <1>3, <1>5 DEF Dispatched
  <2>2. KmacroEnd(t) = t
    BY <1>1 DEF KmacroEnd
  <2> HIDE DEF t
  <2>3. v = t
    BY <1>2, <2>1, <2>2, DidNothing
  <2>4. PlaysIf(t, c = "e")
    BY <1>1, <1>5 DEF PlaysIf
  <2> HIDE DEF v
  <2> QED BY <1>1, <1>5, <2>3, <2>4 DEF v
<1>6. CASE c = "e"
  <2> DEFINE w == IF t.play >= 0 \/ t.macro = <<>> THEN t ELSE Played(t)
  <2>1. v = Did(u, KmacroCall(t), q)
    BY <1>3, <1>6 DEF Dispatched
  <2>2. KmacroCall(t) = w
    BY <1>1 DEF KmacroCall
  <2> HIDE DEF t
  <2>3. /\ w \in States /\ PlaysIf(w, TRUE)
        /\ w.reader = t.reader /\ w.keys = t.keys /\ w.unread = t.unread /\ w.macro = t.macro
        /\ w.recording = t.recording /\ w.meant = t.meant /\ w.cut = t.cut
    BY <1>1, <1>2, PlayedOrNot
  <2> HIDE DEF w
  <2>4. v = w
    BY <2>1, <2>2, <2>3, DidNothing
  <2> HIDE DEF v
  <2>5. PlaysIf(v, c = "e")
    BY <1>6, <2>3, <2>4
  <2> QED BY <1>1, <1>6, <2>3, <2>4, <2>5 DEF v
<1> QED BY <1>4, <1>5, <1>6

\* one is recorded, and the command, which ends it, is in it
LEMMA CommandInside ==
  ASSUME NEW u \in States, u.play = -1, u.repeat = FALSE, u.recording = TRUE,
         u.reader = "get_key", u.keys = <<"C-x">>, NEW c \in Plain, c \in {")", "e"},
         EndsWith(u.macro, "C-x", c)
  PROVE  LET v == Taken(u, c)
         IN  /\ v.reader = "get_key" /\ v.keys = <<>> /\ v.unread = u.unread
             /\ v.recording = FALSE /\ v.cut = u.cut /\ v.macro = Shorter(u.macro) /\ v.meant = u.meant
             /\ PlaysIf(v, c = "e")
<1> DEFINE t == [u EXCEPT !.keys = <<>>, !.reader = "get_key"]
           q == <<"C-x", c>>
           v == Taken(u, c)
           m == Shorter(u.macro)
<1>1. /\ t.reader = "get_key" /\ t.keys = <<>> /\ t.unread = u.unread /\ t.macro = u.macro /\ t.recording = TRUE
      /\ t.play = -1 /\ t.repeat = FALSE /\ t.meant = u.meant /\ t.cut = u.cut
  BY DEF States
<1>2. t \in States
  <2>1. <<>> \in Seq(Plain) /\ "get_key" \in Readers
    BY DEF Readers
  <2> QED BY <2>1 DEF States
<1>3. v = Dispatched(u, q)
  BY MacroCommand
<1>4. m \in Seq(Plain)
  <2>1. u.macro \in Seq(Plain)
    BY Fields
  <2> QED BY <2>1, CutKeys
<1> DEFINE w == [t EXCEPT !.recording = FALSE, !.macro = m]
<1>5. /\ w \in States /\ w.reader = t.reader /\ w.keys = t.keys /\ w.unread = t.unread /\ w.macro = m
      /\ w.recording = FALSE /\ w.play = t.play /\ w.repeat = t.repeat /\ w.meant = t.meant /\ w.cut = t.cut
  <2> HIDE DEF t, m
  <2> QED BY <1>2, <1>4 DEF States
<1>6. CASE c = ")"
  <2>1. v = Did(u, KmacroEnd(t), q)
    BY <1>3, <1>6 DEF Dispatched
  <2> HIDE DEF t
  <2>2. KmacroEnd(t) = w
    BY <1>1, <1>6 DEF KmacroEnd
  <2> HIDE DEF w
  <2>3. v = w
    BY <1>5, <2>1, <2>2, DidNothing
  <2>4. PlaysIf(w, c = "e")
    BY <1>1, <1>5, <1>6 DEF PlaysIf
  <2> HIDE DEF v, m
  <2> QED BY <1>1, <1>5, <2>3, <2>4 DEF v, m
<1>7. CASE c = "e"
  <2>1. v = Did(u, KmacroCall(t), q)
    BY <1>3, <1>7 DEF Dispatched
  <2> HIDE DEF t
  <2> DEFINE y == IF w.play >= 0 \/ w.macro = <<>> THEN w ELSE Played(w)
  <2>2. KmacroCall(t) = y
    <3>1. KmacroEnd(t) = [t EXCEPT !.recording = FALSE]
      <4>1. ~EndsWith(t.macro, "C-x", ")")
        BY <1>1, <1>7 DEF EndsWith
      <4>2. KmacroEnd(t) = [t EXCEPT !.recording = FALSE, !.macro = t.macro]
        BY <1>1, <4>1 DEF KmacroEnd
      <4> QED BY <1>2, <4>2 DEF States
    <3> DEFINE k == [t EXCEPT !.recording = FALSE]
    <3>2. k.macro = u.macro
      BY <1>1, <1>2 DEF States
    <3>3. [k EXCEPT !.macro = m] = w
      BY <1>2 DEF States
    <3> HIDE DEF k, w, m
    <3>4. KmacroEnd(t) = k
      BY <3>1 DEF k
    <3>5. EndsWith(k.macro, "C-x", "e") /\ Shorter(k.macro) = m
      BY <1>7, <3>2 DEF m
    <3>6. KmacroCall(t) = LET x == [k EXCEPT !.macro = m]
                          IN  IF x.play >= 0 \/ x.macro = <<>> THEN x ELSE Played(x)
      BY <1>1, <3>4, <3>5 DEF KmacroCall
    <3> QED BY <3>3, <3>6
  <2> HIDE DEF w
  <2>3. /\ y \in States /\ PlaysIf(y, TRUE)
        /\ y.reader = w.reader /\ y.keys = w.keys /\ y.unread = w.unread /\ y.macro = w.macro
        /\ y.recording = w.recording /\ y.meant = w.meant /\ y.cut = w.cut
    BY <1>1, <1>5, PlayedOrNot
  <2> HIDE DEF y
  <2>4. v = y
    BY <1>5, <2>1, <2>2, <2>3, DidNothing
  <2> HIDE DEF v, m
  <2>5. PlaysIf(v, c = "e")
    BY <1>7, <2>3, <2>4
  <2> QED BY <1>1, <1>5, <2>3, <2>4, <2>5 DEF v, m
<1> QED BY <1>6, <1>7

-----------------------------------------------------------------------------
(***************************************************************************)
(* A macro while it is recorded, and while it is played.                   *)
(***************************************************************************)
LEMMA IdleIs ==
  ASSUME NEW s, s.reader = "get_key", s.keys = <<>>, s.unread = <<>>, NEW at, NEW done
  PROVE  Here(s, at, done) = Idle(at, done)
  BY DEF Here, Idle

\* a byte read while a macro is recorded: given back, or typed and recorded
RecordedByte(s, c, u) ==
  /\ s.recording /\ u.recording /\ u.reader = s.reader /\ u.keys = s.keys /\ u.meant = s.meant /\ u.cut = s.cut
  /\ \/ s.unread # <<>> /\ c = Head(s.unread) /\ u.unread = Tail(s.unread) /\ u.macro = s.macro
     \/ s.unread = <<>> /\ u.unread = <<>> /\ u.macro = Append(s.macro, c)

\* what is recorded leads to what was meant
LEMMA RecordingGoesOn ==
  ASSUME NEW s \in States, NEW u \in States, NEW c \in Plain, Prefixed(s), Recording(s),
         RecordedByte(s, c, u), Taking(u, c), Ordinary(u, c), Taken(u, c) \in States
  PROVE  Recording(Taken(u, c))
<1> DEFINE t == Taken(u, c)
           m == u.macro
           l == Len(s.macro)
           e == Outcome(u, c)
           x == Here(s, l, s.meant)
           y == Here(t, Len(m), s.meant \o e.said)
<1>0. /\ s.recording /\ u.recording /\ u.reader = s.reader /\ u.keys = s.keys /\ u.meant = s.meant /\ u.cut = s.cut
      /\ \/ s.unread # <<>> /\ c = Head(s.unread) /\ u.unread = Tail(s.unread) /\ m = s.macro
         \/ s.unread = <<>> /\ u.unread = <<>> /\ m = Append(s.macro, c)
  BY DEF RecordedByte
<1>1. /\ t.reader = e.reader /\ t.keys = e.keys /\ t.unread = e.unread /\ t.macro = m /\ t.recording
      /\ t.cut = s.cut /\ t.meant = s.meant \o e.said
  <2>1. Yields(u, t, e)
    BY <1>0, OutcomeIs
  <2> HIDE DEF t, e, m
  <2>2. t.macro = u.macro /\ t.recording = u.recording /\ t.cut = u.cut /\ t.meant = u.meant \o e.said
    BY <1>0, <2>1 DEF Yields
  <2>3. t.reader = e.reader /\ t.keys = e.keys /\ t.unread = e.unread
    BY <2>1 DEF Yields
  <2> QED BY <1>0, <2>2, <2>3 DEF m
<1>2. ~s.cut /\ \E n \in Nat : \E f : Path(s.macro, f, n) /\ f[n] = x
  BY <1>0 DEF Recording
<1>n. PICK n \in Nat : \E f : Path(s.macro, f, n) /\ f[n] = x
  BY <1>2
<1>3. PICK f : Path(s.macro, f, n) /\ f[n] = x
  BY <1>n
<1>4. s.macro \in Seq(Plain) /\ m \in Seq(Plain) /\ s.meant \in Seq(Seq(Notes)) /\ l \in Nat /\ Len(m) \in Nat
  BY Fields, LenProperties
<1>5. /\ l <= Len(m) /\ \A j \in 1..l : m[j] = s.macro[j]
      /\ s.unread # <<>> => Len(m) = l
      /\ s.unread = <<>> => Len(m) = l + 1 /\ m[l + 1] = c
  <2>1. CASE s.unread # <<>>
    <3>1. m = s.macro
      BY <1>0, <2>1
    <3> QED BY <1>4, <2>1, <3>1
  <2>2. CASE s.unread = <<>>
    <3>1. m = Append(s.macro, c)
      BY <1>0, <2>2
    <3>2. Len(m) = l + 1 /\ m[l + 1] = c /\ \A j \in 1..l : m[j] = s.macro[j]
      BY <1>4, <3>1, AppendProperties
    <3> QED BY <1>4, <2>2, <3>2
  <2> QED BY <2>1, <2>2
<1>6. x \in Spots /\ x.at = l
  BY <1>4, HereIs
<1>8. Step(m, x, y)
  <2>1. \/ s.unread # <<>> /\ c = Head(s.unread) /\ u.unread = Tail(s.unread) /\ Len(m) = l
        \/ s.unread = <<>> /\ u.unread = <<>> /\ l < Len(m) /\ c = m[l + 1] /\ Len(m) = l + 1
    <3>1. Len(m) = l + 1 => l < Len(m)
      BY <1>4
    <3> QED BY <1>0, <1>5, <3>1
  <2> DEFINE k == Len(m)
  <2>2. k \in Nat /\ y = Here(t, k, s.meant \o e.said)
    BY <1>4
  <2>3. \/ s.unread # <<>> /\ c = Head(s.unread) /\ u.unread = Tail(s.unread) /\ k = l
        \/ s.unread = <<>> /\ u.unread = <<>> /\ l < Len(m) /\ c = m[l + 1] /\ k = l + 1
    BY <2>1
  <2> HIDE DEF k, l, m, y
  <2> QED BY <1>0, <1>4, <2>2, <2>3, ByteGoes
<1>9. PICK h : Path(m, h, n + 1) /\ h[n] = x /\ h[n + 1] = y
  <2> DEFINE k == s.macro
  <2> HIDE DEF x, y, m, t, e, l
  <2>1. f[n].at = l /\ l <= Len(m) /\ \A j \in 1..l : m[j] = k[j]
    BY <1>3, <1>4, <1>5, <1>6
  <2>2. l \in Nat /\ m \in Seq(Plain) /\ k \in Seq(Plain) /\ Path(k, f, n) /\ Step(m, f[n], y)
    BY <1>3, <1>4, <1>8
  <2> HIDE DEF k
  <2>3. \E h : Path(m, h, n + 1) /\ h[n] = f[n] /\ h[n + 1] = y
    BY <2>1, <2>2, PathLonger
  <2> QED BY <1>3, <2>3
<1>10. y = Here(t, Len(t.macro), t.meant)
  BY <1>1
<1>11. t.keys = <<"C-x">> => /\ t.macro # <<>> /\ t.macro[Len(t.macro)] = "C-x"
                             /\ x = Idle(Len(t.macro) - 1, t.meant)
  <2> SUFFICES ASSUME e.keys = <<"C-x">>
               PROVE  m # <<>> /\ m[Len(m)] = "C-x" /\ x = Idle(Len(m) - 1, t.meant)
    BY <1>1
  <2>1. /\ u.keys = <<>> /\ u.reader = "get_key" /\ u.unread = <<>> /\ c = "C-x"
        /\ e = Then(u, "get_key", <<"C-x">>, <<>>)
    BY <1>0, StateReadable, BeginsPrefix
  <2>2. e.said = <<>>
    BY <2>1 DEF Then
  <2>3. t.meant = s.meant
    BY <1>1, <1>4, <2>2, Joined
  <2>4. s.unread = <<>>
    <3> SUFFICES ASSUME s.unread # <<>> PROVE FALSE
      OBVIOUS
    <3>1. s.unread \in Seq(Plain) /\ Head(s.unread) = s.unread[1] /\ Len(s.unread) \in Nat /\ Len(s.unread) # 0
      BY Fields, HeadTailProperties, LenProperties, EmptySeq
    <3>2. 1 \in 1..Len(s.unread)
      BY <3>1
    <3>3. Without(s.unread)
      BY <1>0 DEF Prefixed
    <3>4. s.unread[1] # "C-x"
      BY <3>2, <3>3 DEF Without
    <3> QED BY <1>0, <2>1, <3>1, <3>4
  <2>5. x = Idle(l, s.meant)
    <3>1. s.reader = "get_key" /\ s.keys = <<>>
      BY <1>0, <2>1
    <3> QED BY <2>4, <3>1, IdleIs
  <2> HIDE DEF e, t, m, x, l
  <2>6. Len(m) = l + 1 /\ m[l + 1] = "C-x"
    BY <1>5, <2>1, <2>4
  <2>6a. Len(m) = l + 1
    BY <2>6
  <2>6b. Len(m) - 1 = l /\ Len(m) # 0
    BY <1>4, <2>6a
  <2>7. Len(m) - 1 = l /\ m[Len(m)] = "C-x" /\ Len(m) # 0
    BY <2>6, <2>6b
  <2>8. m # <<>>
    BY <1>4, <2>7, EmptySeq
  <2> QED BY <2>3, <2>5, <2>7, <2>8
<1>12. ~t.cut
  BY <1>1, <1>2
<1>13. n + 1 \in Nat /\ n + 1 > 0 /\ n + 1 - 1 = n
  OBVIOUS
<1> DEFINE k == n + 1
<1>14. k \in Nat /\ Path(t.macro, h, k) /\ h[k] = Here(t, Len(t.macro), t.meant) /\ k > 0 /\ h[k - 1] = x
  BY <1>1, <1>9, <1>10, <1>13
<1> HIDE DEF k, t, x
<1> QED BY <1>11, <1>12, <1>14 DEF Recording, t

\* what is played next is what was meant next
LEMMA PlayGoesOn ==
  ASSUME NEW s \in States, NEW u \in States, NEW c \in Plain, Playing(s), Replayable(s), s.play >= 0,
         u.reader = s.reader, u.keys = s.keys, u.meant = s.meant, Taken(u, c) \in States,
         GivenByte(s, c, u) \/ MacroByte(s, c, u)
  PROVE  Ordinary(u, c) /\ Replayable(Taken(u, c))
<1> DEFINE m == s.macro
           t == Taken(u, c)
           x == Here(s, s.play, s.ran)
           e == Outcome(u, c)
           y == Here(t, u.play, s.ran \o e.said)
<1>1. ~s.recording /\ ~s.cut /\ m # <<>>
  BY DEF Playing
<1>n. PICK n \in Nat : \E f : /\ Path(m, f, n) /\ f[n] = Idle(Len(m), s.meant)
                               /\ \E i \in 0..n : f[i] = x
  BY <1>1 DEF Replayable
<1>2. PICK f : /\ Path(m, f, n) /\ f[n] = Idle(Len(m), s.meant)
               /\ \E i \in 0..n : f[i] = x
  BY <1>n
<1>3. PICK i \in 0..n : f[i] = x
  BY <1>2
<1>4. /\ m \in Seq(Plain) /\ s.play \in Nat /\ Len(m) \in Nat /\ s.ran \in Seq(Seq(Notes))
      /\ u.macro = m /\ u.recording = s.recording /\ u.cut = s.cut /\ u.ran = s.ran /\ u.play >= 0 /\ u.play \in Nat
  <2>1. s.play \in -1..MacroMax /\ MacroMax \in Nat /\ m \in Seq(Plain) /\ s.ran \in Seq(Seq(Notes))
    BY Fields, Sizes
  <2>2. s.play \in Nat /\ Len(m) \in Nat
    BY <2>1, LenProperties
  <2>3. u.play = s.play \/ u.play = s.play + 1
    BY DEF GivenByte, MacroByte
  <2>4. u.play >= 0 /\ u.play \in Nat
    BY <2>2, <2>3
  <2>5. u.macro = m /\ u.recording = s.recording /\ u.cut = s.cut /\ u.ran = s.ran
    BY DEF GivenByte, MacroByte
  <2> QED BY <2>1, <2>2, <2>4, <2>5
<1>5. x \in Spots /\ x.reader = s.reader /\ x.keys = s.keys /\ x.unread = s.unread /\ x.at = s.play
  BY <1>4, HereIs
<1>6. /\ s.unread # <<>> \/ s.play < Len(m)
      /\ c = Byte(m, x)
      /\ \/ s.unread # <<>> /\ c = Head(s.unread) /\ u.unread = Tail(s.unread) /\ u.play = s.play
         \/ s.unread = <<>> /\ u.unread = <<>> /\ s.play < Len(m) /\ c = m[s.play + 1] /\ u.play = s.play + 1
  <2> HIDE DEF x
  <2> QED BY <1>5 DEF GivenByte, MacroByte, Byte
<1>7. i # n
  <2> SUFFICES ASSUME i = n PROVE FALSE
    OBVIOUS
  <2>1. x = Idle(Len(m), s.meant)
    BY <1>2, <1>3
  <2>2. x.unread = <<>> /\ x.at = Len(m)
    BY <2>1 DEF Idle
  <2>3. s.unread = <<>> /\ s.play = Len(m)
    BY <1>5, <2>2
  <2> HIDE DEF x, m
  <2>4. ~(Len(m) < Len(m))
    BY <1>4
  <2> QED BY <1>6, <2>3, <2>4
<1>8. i \in 0..(n - 1) /\ i + 1 \in 0..n
  BY <1>7
<1>9. Step(m, x, f[i + 1])
  BY <1>2, <1>3, <1>8 DEF Path
<1>10. Ordinary(u, c)
  <2>1. Ordinary(x, c)
    BY <1>6, <1>9 DEF Step
  <2> HIDE DEF x
  <2> QED BY <1>5, <2>1 DEF Ordinary
<1>11. Step(m, x, y)
  BY <1>4, <1>6, <1>10, ByteGoes
<1>12. f[i + 1] = y
  BY <1>9, <1>11 DEF Step
<1>13. /\ t.macro = m /\ t.recording = s.recording /\ t.cut = s.cut /\ t.play = u.play
       /\ t.meant = s.meant /\ t.ran = s.ran \o e.said
  <2>1. Yields(u, t, e)
    BY <1>10, OutcomeIs
  <2> HIDE DEF t, e, m
  <2> QED BY <1>1, <1>4, <2>1 DEF Yields
<1>14. f[i + 1] = Here(t, t.play, t.ran)
  BY <1>12, <1>13
<1>15. Path(t.macro, f, n) /\ f[n] = Idle(Len(t.macro), t.meant)
  BY <1>2, <1>13
<1>16. \E j \in 0..n : f[j] = Here(t, t.play, t.ran)
  BY <1>8, <1>14
<1> HIDE DEF t, m
<1>17. Replayable(t)
  BY <1>15, <1>16 DEF Replayable
<1> QED BY <1>10, <1>17 DEF t

\* and once more from its beginning
LEMMA PlaysAgain ==
  ASSUME NEW s \in States, NEW u \in States, NEW c \in Plain, Playing(s), Replayable(s),
         u.reader = s.reader, u.keys = s.keys, u.meant = s.meant, Taken(u, c) \in States,
         AgainByte(s, c, u)
  PROVE  Ordinary(u, c) /\ Replayable(Taken(u, c))
<1> DEFINE m == s.macro
           t == Taken(u, c)
           x == Here(s, 0, <<>>)
           e == Outcome(u, c)
           y == Here(t, 1, <<>> \o e.said)
<1>0. /\ AtEnd(s) /\ s.unread = <<>> /\ u.unread = <<>> /\ s.repeat /\ m # <<>> /\ c = Head(m)
      /\ u.macro = m /\ u.recording = s.recording /\ u.play = 1 /\ u.ran = <<>> /\ u.cut = s.cut
  BY DEF AgainByte, AtEnd
<1>1. ~s.recording /\ ~s.cut /\ s.play >= 0
  BY <1>0 DEF Playing
<1>n. PICK n \in Nat : \E f : /\ Path(m, f, n) /\ f[n] = Idle(Len(m), s.meant)
                               /\ \E i \in 0..n : f[i] = Here(s, s.play, s.ran)
  BY <1>0, <1>1 DEF Replayable
<1>2. PICK f : /\ Path(m, f, n) /\ f[n] = Idle(Len(m), s.meant)
               /\ \E i \in 0..n : f[i] = Here(s, s.play, s.ran)
  BY <1>n
<1>3. PICK i \in 0..n : f[i] = Here(s, s.play, s.ran)
  BY <1>2
<1>4. m \in Seq(Plain) /\ s.play \in Nat /\ Len(m) \in Nat /\ Len(m) # 0 /\ s.ran \in Seq(Seq(Notes))
  <2>1. s.play \in -1..MacroMax /\ MacroMax \in Nat /\ m \in Seq(Plain) /\ s.ran \in Seq(Seq(Notes))
    BY Fields, Sizes
  <2> HIDE DEF m
  <2> QED BY <1>0, <1>1, <2>1, LenProperties, EmptySeq
<1>5. i = n
  <2> SUFFICES ASSUME i # n PROVE FALSE
    OBVIOUS
  <2>1. i \in 0..(n - 1)
    OBVIOUS
  <2>2. Step(m, f[i], f[i + 1])
    BY <1>2, <2>1 DEF Path
  <2>3. f[i].unread = <<>> /\ f[i].at = s.play
    BY <1>0, <1>3 DEF Here
  <2>4. s.play < Len(m)
    BY <2>2, <2>3 DEF Step
  <2> QED BY <1>0, <1>1, <2>4 DEF AtEnd
<1>6. s.reader = "get_key" /\ s.keys = <<>>
  <2>1. Here(s, s.play, s.ran) = Idle(Len(m), s.meant)
    BY <1>2, <1>3, <1>5
  <2>2. Here(s, s.play, s.ran).reader = s.reader /\ Here(s, s.play, s.ran).keys = s.keys
    BY DEF Here
  <2>3. Idle(Len(m), s.meant).reader = "get_key" /\ Idle(Len(m), s.meant).keys = <<>>
    BY DEF Idle
  <2> QED BY <2>1, <2>2, <2>3
<1>7. f[0] = x
  <2>1. f[0] = Idle(0, <<>>)
    BY <1>2 DEF Path
  <2> QED BY <1>0, <1>6, <2>1, IdleIs
<1>8. n # 0
  <2>1. f[0] = Idle(0, <<>>)
    BY <1>2 DEF Path
  <2>2. Idle(0, <<>>).at = 0 /\ Idle(Len(m), s.meant).at = Len(m)
    BY DEF Idle
  <2> QED BY <1>2, <1>4, <2>1, <2>2
<1>9. 0 \in 0..(n - 1) /\ 1 \in 0..n /\ 0 + 1 = 1
  BY <1>8
<1>10. Step(m, x, f[1])
  <2>1. Step(m, f[0], f[0 + 1])
    BY <1>2, <1>9 DEF Path
  <2> QED BY <1>7, <1>9, <2>1
<1>11. c = m[1] /\ 0 < Len(m)
  <2>1. Head(m) = m[1]
    BY <1>0, <1>4, HeadTailProperties
  <2> QED BY <1>0, <1>4, <2>1
<1>12. <<>> \in Seq(Seq(Notes)) /\ 0 \in Nat /\ 1 \in Nat
  OBVIOUS
<1>13. x \in Spots /\ x.reader = s.reader /\ x.keys = s.keys /\ x.unread = s.unread /\ x.at = 0
  <2> DEFINE at == 0
             done == <<>>
  <2>1. at \in Nat /\ done \in Seq(Seq(Notes)) /\ x = Here(s, at, done) /\ at = 0
    BY <1>12
  <2> HIDE DEF at, done, x
  <2> QED BY <2>1, HereIs
<1>14. Ordinary(u, c)
  <2>1. Byte(m, x) = c
    <3> HIDE DEF x
    <3> QED BY <1>0, <1>9, <1>11, <1>13 DEF Byte
  <2>2. Ordinary(x, c)
    BY <1>10, <2>1 DEF Step
  <2> HIDE DEF x
  <2> QED BY <1>13, <2>2 DEF Ordinary
<1>15. Step(m, x, y)
  <2> DEFINE at == 0
             to == 1
             done == <<>>
  <2>1. at \in Nat /\ to \in Nat /\ done \in Seq(Seq(Notes)) /\ at < Len(m) /\ c = m[at + 1] /\ to = at + 1
    BY <1>9, <1>11, <1>12
  <2>2. x = Here(s, at, done) /\ y = Here(t, to, done \o e.said)
    OBVIOUS
  <2> HIDE DEF at, to, done, x, y, m
  <2>3. Step(m, Here(s, at, done), Here(Taken(u, c), to, done \o Outcome(u, c).said))
    BY <1>0, <1>4, <1>14, <2>1, ByteGoes
  <2> QED BY <2>2, <2>3
<1>16. f[1] = y
  BY <1>10, <1>15 DEF Step
<1>17. /\ t.macro = m /\ t.recording = s.recording /\ t.cut = s.cut /\ t.play = 1
       /\ t.meant = s.meant /\ t.ran = <<>> \o e.said
  <2>1. Yields(u, t, e)
    BY <1>14, OutcomeIs
  <2>2. 1 >= 0
    OBVIOUS
  <2> HIDE DEF t, e, m
  <2> QED BY <1>0, <1>1, <2>1, <2>2 DEF Yields
<1>18. f[1] = Here(t, t.play, t.ran)
  BY <1>16, <1>17
<1>19. Path(t.macro, f, n) /\ f[n] = Idle(Len(t.macro), t.meant)
  BY <1>2, <1>17
<1>20. \E j \in 0..n : f[j] = Here(t, t.play, t.ran)
  BY <1>9, <1>18
<1> HIDE DEF t, m
<1>21. Replayable(t)
  BY <1>19, <1>20 DEF Replayable
<1> QED BY <1>14, <1>21 DEF t

-----------------------------------------------------------------------------
(***************************************************************************)
(* What is typed.                                                          *)
(***************************************************************************)
\* no macro is recorded or played, and nothing is left to read
Quiet(u) == u.recording = FALSE /\ u.play = -1 /\ u.repeat = FALSE /\ u.unread = <<>>

\* c ends a command of macros
Commands(u, c) == u.reader = "get_key" /\ u.keys = <<"C-x">> /\ c \in {"(", ")", "e"}

\* nothing is played and the macro is what it was
LEMMA SameMacro ==
  ASSUME NEW s, NEW t, Replayable(s), t.macro = s.macro /\ t.meant = s.meant /\ t.recording = s.recording,
         t.cut = s.cut, t.play = -1
  PROVE  Replayable(t)
<1>1. ~(t.play >= 0)
  OBVIOUS
<1>2. SUFFICES ASSUME ~t.recording, ~t.cut, t.macro # <<>>
               PROVE  \E n \in Nat : \E f : Path(t.macro, f, n) /\ f[n] = Idle(Len(t.macro), t.meant)
  BY <1>1 DEF Replayable
<1>3. ~s.recording /\ ~s.cut /\ s.macro # <<>>
  BY <1>2
<1>4. \E n \in Nat : \E f : Path(s.macro, f, n) /\ f[n] = Idle(Len(s.macro), s.meant)
  BY <1>3 DEF Replayable
<1> QED BY <1>4

\* a macro begins with a way of no steps
LEMMA EmptyPath == \E f : Path(<<>>, f, 0) /\ f[0] = Idle(0, <<>>)
<1> DEFINE f == [i \in 0..0 |-> Idle(0, <<>>)]
           x == Idle(0, <<>>)
<1>1. x \in Spots /\ IsPrefix(x.done, x.done) /\ x.at <= x.at
  <2>1. <<>> \in Seq(Plain) /\ <<>> \in Seq(Seq(Notes)) /\ "get_key" \in Readers /\ 0 \in Nat /\ 0 <= 0
    BY DEF Readers
  <2>2. x.done = <<>> /\ x.at = 0
    BY DEF Idle
  <2>3. x \in Spots
    BY <2>1 DEF Idle, Spots
  <2>4. IsPrefix(<<>>, <<>>)
    BY <2>1, PrefixIs
  <2> QED BY <2>1, <2>2, <2>3, <2>4
<1>2. 0 \in 0..0 /\ \A i \in 0..0 : f[i] = x
  OBVIOUS
<1> HIDE DEF x
<1>3. f \in [0..0 -> Spots]
  BY <1>1, <1>2
<1> HIDE DEF f
<1>4. 0..(0 - 1) = {}
  OBVIOUS
<1>5. Path(<<>>, f, 0)
  BY <1>1, <1>2, <1>3, <1>4 DEF Path, x
<1> QED BY <1>2, <1>5 DEF x

\* small facts about the parts of the invariant
LEMMA NotPlaying ==
  ASSUME NEW s, s.play = -1, s.repeat = FALSE
  PROVE  Playing(s)
<1>1. (s.play >= 0) = FALSE
  OBVIOUS
<1> QED BY <1>1 DEF Playing

LEMMA NowPlaying ==
  ASSUME NEW s, s.play \in Nat, s.repeat = TRUE, s.recording = FALSE, s.cut = FALSE, s.macro # <<>>
  PROVE  Playing(s)
<1>1. (s.play >= 0) = TRUE
  OBVIOUS
<1> QED BY <1>1 DEF Playing

LEMMA IdlePrefixed ==
  ASSUME NEW s, s.reader = "get_key", s.keys = <<>>, s.unread = <<>>
  PROVE  Prefixed(s)
<1>1. Len(<<>>) = 0 /\ 1..0 = {}
  OBVIOUS
<1>2. Without(s.unread)
  BY <1>1 DEF Without
<1>3. s.keys # <<"C-x">> /\ "get_key" # "get_key escape"
  OBVIOUS
<1>4. Begun(s)
  BY <1>3 DEF Begun, InKey
<1> QED BY <1>2, <1>3, <1>4 DEF Prefixed

\* between two keys, with a macro that is played from its first byte or not
LEMMA PlaysOrNot ==
  ASSUME NEW v \in States, NEW yes \in BOOLEAN, PlaysIf(v, yes), v.reader = "get_key" /\ v.keys = <<>>,
         v.unread = <<>>, v.recording = FALSE, yes => ~v.cut,
         ~v.cut /\ v.macro # <<>> =>
           \E n \in Nat : \E f : Path(v.macro, f, n) /\ f[n] = Idle(Len(v.macro), v.meant)
  PROVE  Replays(v)
<1>1. Prefixed(v)
  BY IdlePrefixed
<1>2. Playing(v) /\ (v.play >= 0 => v.play = 0 /\ v.ran = <<>>)
  <2>1. CASE yes /\ v.macro # <<>>
    <3>1. v.play = 0 /\ v.repeat = TRUE /\ v.ran = <<>>
      BY <2>1 DEF PlaysIf
    <3>2. v.play \in Nat /\ v.cut = FALSE
      BY <2>1, <3>1, Fields
    <3> QED BY <2>1, <3>1, <3>2, NowPlaying
  <2>2. CASE ~(yes /\ v.macro # <<>>)
    <3>1. v.play = -1 /\ v.repeat = FALSE
      BY <2>2 DEF PlaysIf
    <3>2. ~(v.play >= 0)
      BY <3>1
    <3> QED BY <3>1, <3>2, NotPlaying
  <2> QED BY <2>1, <2>2
<1>3. Recording(v)
  BY DEF Recording
<1>4. Replayable(v)
  <2>1. SUFFICES ASSUME ~v.cut, v.macro # <<>>
                 PROVE  \E n \in Nat : \E f :
                          /\ Path(v.macro, f, n) /\ f[n] = Idle(Len(v.macro), v.meant)
                          /\ v.play >= 0 => \E i \in 0..n : f[i] = Here(v, v.play, v.ran)
    BY DEF Replayable
  <2>2. PICK n \in Nat : \E f : Path(v.macro, f, n) /\ f[n] = Idle(Len(v.macro), v.meant)
    BY <2>1
  <2>3. PICK f : Path(v.macro, f, n) /\ f[n] = Idle(Len(v.macro), v.meant)
    BY <2>2
  <2>4. 0 \in 0..n /\ f[0] = Idle(0, <<>>)
    BY <2>3 DEF Path
  <2>5. v.play >= 0 => f[0] = Here(v, v.play, v.ran)
    BY <1>2, <2>4, IdleIs
  <2> QED BY <2>3, <2>4, <2>5
<1> QED BY <1>1, <1>2, <1>3, <1>4 DEF Replays

\* a byte typed while no macro is recorded
LEMMA TypedOutside ==
  ASSUME NEW u \in States, NEW c \in Plain, Taking(u, c), Taken(u, c) \in States, Quiet(u), Replayable(u),
         ~PlaysCut(u, c), Ordinary(u, c) \/ Commands(u, c)
  PROVE  Replays(Taken(u, c))
<1> DEFINE v == Taken(u, c)
<1>0. u.recording = FALSE /\ u.play = -1 /\ u.repeat = FALSE /\ u.unread = <<>>
  BY DEF Quiet
<1>1. CASE Ordinary(u, c)
  <2>1. Yields(u, v, Outcome(u, c))
    BY <1>1, OutcomeIs
  <2>2. /\ v.macro = u.macro /\ v.recording = FALSE /\ v.play = -1 /\ v.repeat = FALSE /\ v.cut = u.cut
        /\ v.meant = u.meant
    <3> HIDE DEF v
    <3> QED BY <1>0, <2>1 DEF Yields
  <2>3. Prefixed(v)
    BY <1>0, <1>1, StaysPrefixed
  <2> HIDE DEF v
  <2>4. Replayable(v)
    BY <1>0, <2>2, SameMacro
  <2>6. Playing(v) /\ Recording(v)
    BY <2>2, NotPlaying DEF Recording
  <2> QED BY <2>3, <2>4, <2>6 DEF Replays, v
<1>2. CASE Commands(u, c)
  <2>1. u.reader = "get_key" /\ u.keys = <<"C-x">> /\ c \in {"(", ")", "e"}
    BY <1>2 DEF Commands
  <2>2. /\ v.reader = "get_key" /\ v.keys = <<>> /\ v.unread = u.unread
        /\ c = "(" => /\ v.recording = TRUE /\ v.cut = FALSE /\ v.macro = <<>> /\ v.meant = <<>>
                      /\ v.play = -1 /\ v.repeat = FALSE
        /\ c # "(" => /\ v.recording = FALSE /\ v.cut = u.cut /\ v.macro = u.macro /\ v.meant = u.meant
                      /\ PlaysIf(v, c = "e")
    BY <1>0, <2>1, CommandOutside
  <2>3. c = "e" => ~u.cut
    BY <2>1 DEF PlaysCut
  <2> HIDE DEF v
  <2>4. CASE c = "("
    <3>1. /\ v.reader = "get_key" /\ v.keys = <<>> /\ v.unread = <<>> /\ v.recording = TRUE /\ v.cut = FALSE
          /\ v.macro = <<>> /\ v.meant = <<>> /\ v.play = -1 /\ v.repeat = FALSE
      BY <1>0, <2>2, <2>4
    <3>2. Recording(v)
      <4>1. Here(v, Len(v.macro), v.meant) = Idle(0, <<>>)
        <5>1. Len(<<>>) = 0
          OBVIOUS
        <5> QED BY <3>1, <5>1, IdleIs
      <4>2. v.keys # <<"C-x">> /\ 0 \in Nat
        BY <3>1
      <4>3. \E f : Path(v.macro, f, 0) /\ f[0] = Here(v, Len(v.macro), v.meant)
        BY <3>1, <4>1, EmptyPath
      <4> QED BY <3>1, <4>2, <4>3 DEF Recording
    <3>3. Prefixed(v)
      BY <3>1, IdlePrefixed
    <3>5. Playing(v) /\ Replayable(v)
      BY <3>1, NotPlaying DEF Replayable
    <3> QED BY <3>2, <3>3, <3>5 DEF Replays, v
  <2>5. CASE c # "("
    <3>1. /\ v.reader = "get_key" /\ v.keys = <<>> /\ v.unread = <<>> /\ v.recording = FALSE /\ v.cut = u.cut
          /\ v.macro = u.macro /\ v.meant = u.meant /\ PlaysIf(v, c = "e")
      BY <1>0, <2>2, <2>5
    <3>2. ~v.cut /\ v.macro # <<>> =>
            \E n \in Nat : \E f : Path(v.macro, f, n) /\ f[n] = Idle(Len(v.macro), v.meant)
      BY <1>0, <3>1 DEF Replayable
    <3>3. v \in States
      BY DEF v
    <3> DEFINE yes == c = "e"
    <3>4. yes \in BOOLEAN /\ PlaysIf(v, yes) /\ (yes => ~v.cut)
      BY <2>3, <3>1
    <3> HIDE DEF yes
    <3>5. Replays(v)
      BY <3>1, <3>2, <3>3, <3>4, PlaysOrNot
    <3> QED BY <3>5 DEF v
  <2> QED BY <2>4, <2>5
<1> QED BY <1>1, <1>2

\* Shorter takes the last two bytes
LEMMA ShorterIs ==
  ASSUME NEW q \in Seq(Plain), NEW l \in Nat, Len(q) = l + 1, l >= 1
  PROVE  LET m == Shorter(q)
         IN  /\ m \in Seq(Plain) /\ Len(m) = l - 1 /\ l - 1 \in Nat
             /\ \A j \in 1..(l - 1) : m[j] = q[j]
<1> DEFINE k == l - 1
<1>1. Len(q) - 2 = k /\ k \in Nat /\ k \in 1..Len(q) \cup {0} /\ k <= Len(q) /\ 1 \in 1..Len(q)
  OBVIOUS
<1>2. Shorter(q) = SubSeq(q, 1, k)
  BY <1>1 DEF Shorter
<1> HIDE DEF k
<1>3. \A i \in 1..k : i \in 1..Len(q)
  BY <1>1
<1>4. SubSeq(q, 1, k) = [i \in 1..k |-> q[i]]
  BY <1>1, <1>3
<1>5. Len(SubSeq(q, 1, k)) = k /\ SubSeq(q, 1, k) \in Seq(Plain)
  <2>1. [i \in 1..k |-> q[i]] \in [1..k -> Plain]
    BY <1>3
  <2>2. [i \in 1..k |-> q[i]] \in Seq(Plain)
    BY <1>1, <2>1, SeqDef
  <2> QED BY <1>1, <1>4, <2>2
<1> QED BY <1>1, <1>2, <1>4, <1>5 DEF k

\* C-x ) and C-x e are taken from the end of the macro
LEMMA TypedInside ==
  ASSUME NEW s \in States, NEW u \in States, NEW c \in Plain, Recording(s), RecordedByte(s, c, u),
         s.unread = <<>>, u.play = -1, u.repeat = FALSE, Commands(u, c), c # "(", Taken(u, c) \in States
  PROVE  Replays(Taken(u, c))
<1> DEFINE v == Taken(u, c)
           k == s.macro
           q == u.macro
           m == Shorter(q)
           l == Len(k)
<1>0. /\ s.recording /\ u.recording /\ u.reader = "get_key" /\ u.keys = <<"C-x">> /\ s.keys = <<"C-x">>
      /\ u.meant = s.meant /\ u.cut = s.cut /\ u.unread = <<>> /\ q = Append(k, c)
      /\ u.recording = TRUE
  BY Fields DEF RecordedByte, Commands
<1>1. ~s.cut /\ \E n \in Nat : \E f :
         /\ Path(k, f, n) /\ n > 0 /\ k # <<>> /\ k[l] = "C-x"
         /\ f[n - 1] = Idle(l - 1, s.meant)
  BY <1>0 DEF Recording
<1>n. PICK n \in Nat : \E f :
         /\ Path(k, f, n) /\ n > 0 /\ k # <<>> /\ k[l] = "C-x"
         /\ f[n - 1] = Idle(l - 1, s.meant)
  BY <1>1
<1>2. PICK f : /\ Path(k, f, n) /\ n > 0 /\ k # <<>> /\ k[l] = "C-x"
               /\ f[n - 1] = Idle(l - 1, s.meant)
  BY <1>n
<1>3. k \in Seq(Plain) /\ l \in Nat /\ l >= 1
  <2>1. k \in Seq(Plain) /\ l \in Nat
    BY Fields, LenProperties
  <2> HIDE DEF k, l
  <2>2. l # 0
    BY <1>2, <2>1, EmptySeq DEF l
  <2> QED BY <2>1, <2>2
<1>4. /\ q \in Seq(Plain) /\ Len(q) = l + 1 /\ q[l + 1] = c
      /\ \A j \in 1..l : q[j] = k[j]
  <2> HIDE DEF k, q
  <2> QED BY <1>0, <1>3, AppendProperties DEF l
<1>5. EndsWith(q, "C-x", c)
  <2> HIDE DEF k, q, l
  <2>1. l \in 1..l /\ l + 1 - 1 = l /\ l + 1 >= 2
    BY <1>3
  <2>2. Len(q) - 1 = l /\ Len(q) >= 2
    BY <1>4, <2>1
  <2>3. q[l] = "C-x"
    BY <1>2, <1>4, <2>1
  <2> QED BY <1>4, <2>2, <2>3 DEF EndsWith
<1>6. c \in {")", "e"}
  BY DEF Commands
<1>7. /\ v.reader = "get_key" /\ v.keys = <<>> /\ v.unread = u.unread
      /\ v.recording = FALSE /\ v.cut = u.cut /\ v.macro = m /\ v.meant = u.meant
      /\ PlaysIf(v, c = "e")
  BY <1>0, <1>5, <1>6, CommandInside
<1>8. /\ m \in Seq(Plain) /\ Len(m) = l - 1 /\ l - 1 \in Nat
      /\ \A j \in 1..(l - 1) : m[j] = q[j]
  <2> HIDE DEF q, l
  <2> QED BY <1>3, <1>4, ShorterIs
<1> DEFINE i == n - 1
           g == [j \in 0..i |-> f[j]]
<1>9. Path(m, g, i) /\ g[i] = Idle(Len(m), s.meant) /\ i \in Nat
  <2>1. i \in 0..n /\ i \in Nat /\ i \in 0..i /\ g[i] = f[i]
    BY <1>2
  <2> DEFINE b == l - 1
  <2>2. \A j \in 1..b : j \in 1..l
    BY <1>3
  <2>3. f[i] = Idle(b, s.meant)
    BY <1>2
  <2>4. f[i].at = b
    BY <2>3 DEF Idle
  <2>5. b \in Nat /\ Len(m) = b /\ m \in Seq(Plain) /\ k \in Seq(Plain) /\ \A j \in 1..b : m[j] = k[j]
    BY <1>3, <1>4, <1>8, <2>2
  <2> HIDE DEF b, m, k, l, i
  <2>6. f[i].at <= Len(m) /\ \A j \in 1..f[i].at : m[j] = k[j]
    BY <2>4, <2>5
  <2>7. Path(m, [j \in 0..i |-> f[j]], i)
    BY <1>2, <2>1, <2>5, <2>6, PathUpTo
  <2> QED BY <2>1, <2>3, <2>5, <2>7
<1> HIDE DEF g, i, m
<1>10. ~v.cut /\ v.macro # <<>> =>
         \E j \in Nat : \E h : Path(v.macro, h, j) /\ h[j] = Idle(Len(v.macro), v.meant)
  <2>1. v.macro = m /\ v.meant = s.meant
    BY <1>0, <1>7
  <2> HIDE DEF v
  <2> QED BY <1>9, <2>1
<1> HIDE DEF v, k, q, l
<1> DEFINE yes == c = "e"
<1>11. yes \in BOOLEAN /\ PlaysIf(v, yes) /\ (yes => ~v.cut)
  BY <1>0, <1>1, <1>7
<1>12. v \in States
  BY DEF v
<1> HIDE DEF yes
<1>13. v.reader = "get_key" /\ v.keys = <<>> /\ v.unread = <<>> /\ v.recording = FALSE
  BY <1>0, <1>7
<1>14. Replays(v)
  BY <1>10, <1>11, <1>12, <1>13, PlaysOrNot
<1> QED BY <1>14 DEF v

-----------------------------------------------------------------------------
(***************************************************************************)
(* Every step.                                                             *)
(***************************************************************************)
LEMMA YieldsBesides ==
  ASSUME NEW u \in States, NEW c \in Plain, Ordinary(u, c), Taken(u, c) \in States
  PROVE  LET t == Taken(u, c)
         IN  /\ t.macro = u.macro /\ t.recording = u.recording /\ t.play = u.play /\ t.repeat = u.repeat
             /\ t.cut = u.cut /\ (~u.recording => t.meant = u.meant)
<1> DEFINE t == Taken(u, c)
<1>1. Yields(u, t, Outcome(u, c))
  BY OutcomeIs
<1> HIDE DEF t
<1> QED BY <1>1 DEF Yields, t

\* a byte that was given back
LEMMA GivenKeeps ==
  ASSUME NEW s \in States, NEW u \in States, NEW c \in Plain, Replays(s), GivenByte(s, c, u),
         u.reader = s.reader /\ u.keys = s.keys /\ u.meant = s.meant, ~EndsSearch(u, c), Taken(u, c) \in States
  PROVE  Replays(Taken(u, c))
<1> DEFINE t == Taken(u, c)
<1>0. Prefixed(s) /\ Playing(s) /\ Recording(s) /\ Replayable(s)
  BY DEF Replays
<1>1. /\ s.unread # <<>> /\ c = Head(s.unread) /\ u.unread = Tail(s.unread)
      /\ u.macro = s.macro /\ u.recording = s.recording /\ u.play = s.play /\ u.repeat = s.repeat /\ u.cut = s.cut
  BY DEF GivenByte
<1>2. Taking(u, c) /\ Ordinary(u, c)
  BY <1>0, <1>1, TakesPrefixed
<1>3. /\ t.macro = s.macro /\ t.recording = s.recording /\ t.play = s.play /\ t.repeat = s.repeat
      /\ t.cut = s.cut /\ (~s.recording => t.meant = s.meant)
  BY <1>1, <1>2, YieldsBesides
<1>4. u.recording /\ u.reader \in {"search", "search ESC"} => c # "C-x"
  BY DEF EndsSearch
<1>5. Prefixed(t)
  BY <1>2, <1>4, StaysPrefixed
<1>6. Playing(t)
  <2> HIDE DEF t
  <2> QED BY <1>0, <1>3 DEF Playing
<1>7. CASE s.recording
  <2>1. RecordedByte(s, c, u)
    BY <1>1, <1>7 DEF RecordedByte
  <2>2. Recording(t)
    BY <1>0, <1>2, <2>1, RecordingGoesOn
  <2> HIDE DEF t
  <2>3. Replayable(t)
    BY <1>3, <1>7 DEF Replayable
  <2> QED BY <1>5, <1>6, <2>2, <2>3 DEF Replays, t
<1>8. CASE ~s.recording /\ s.play >= 0
  <2>1. Replayable(t)
    BY <1>0, <1>8, PlayGoesOn
  <2> HIDE DEF t
  <2>2. Recording(t)
    BY <1>3, <1>8 DEF Recording
  <2> QED BY <1>5, <1>6, <2>1, <2>2 DEF Replays, t
<1>9. CASE ~s.recording /\ ~(s.play >= 0)
  <2>1. s.play = -1
    <3>1. s.play \in -1..MacroMax /\ MacroMax \in Nat
      BY Fields, Sizes
    <3> QED BY <1>9, <3>1
  <2> HIDE DEF t
  <2>2. Replayable(t)
    BY <1>0, <1>3, <1>9, <2>1, SameMacro
  <2>3. Recording(t)
    BY <1>3, <1>9 DEF Recording
  <2> QED BY <1>5, <1>6, <2>2, <2>3 DEF Replays, t
<1> QED BY <1>7, <1>8, <1>9

\* the next byte of the macro that is played, or its first one
LEMMA PlayedKeeps ==
  ASSUME NEW s \in States, NEW u \in States, NEW c \in Plain, Replays(s),
         MacroByte(s, c, u) \/ AgainByte(s, c, u),
         u.reader = s.reader /\ u.keys = s.keys /\ u.meant = s.meant, Taken(u, c) \in States
  PROVE  Replays(Taken(u, c))
<1> DEFINE t == Taken(u, c)
<1>0. Prefixed(s) /\ Playing(s) /\ Recording(s) /\ Replayable(s)
  BY DEF Replays
<1>1. s.play \in -1..MacroMax /\ MacroMax \in Nat /\ s.recording \in BOOLEAN /\ s.cut \in BOOLEAN
  BY Fields, Sizes
<1>2. /\ s.play >= 0 /\ s.repeat = TRUE /\ s.recording = FALSE /\ s.cut = FALSE /\ s.macro # <<>>
      /\ s.unread = <<>> /\ u.unread = <<>> /\ u.macro = s.macro /\ u.recording = s.recording /\ u.cut = s.cut
      /\ u.repeat = TRUE /\ u.play \in Nat
  <2>1. CASE MacroByte(s, c, u)
    <3>1. /\ s.unread = <<>> /\ u.unread = <<>> /\ s.play >= 0
          /\ u.macro = s.macro /\ u.recording = s.recording /\ u.play = s.play + 1 /\ u.repeat = s.repeat
          /\ u.cut = s.cut
      BY <2>1 DEF MacroByte
    <3>2. s.repeat = TRUE /\ s.recording = FALSE /\ s.cut = FALSE /\ s.macro # <<>>
      BY <1>0, <1>1, <3>1 DEF Playing
    <3>3. u.play \in Nat
      BY <1>1, <3>1
    <3> QED BY <3>1, <3>2, <3>3
  <2>2. CASE AgainByte(s, c, u)
    <3>1. /\ s.unread = <<>> /\ u.unread = <<>> /\ s.repeat /\ s.macro # <<>>
          /\ u.macro = s.macro /\ u.recording = s.recording /\ u.play = 1 /\ u.repeat = TRUE
          /\ u.cut = s.cut
      BY <2>2 DEF AgainByte, AtEnd
    <3>2. s.play >= 0 /\ s.repeat = TRUE /\ s.recording = FALSE /\ s.cut = FALSE
      BY <1>0, <1>1, <3>1, Fields DEF Playing
    <3>3. u.play \in Nat
      BY <3>1
    <3> QED BY <3>1, <3>2, <3>3
  <2> QED BY <2>1, <2>2
<1>3. Ordinary(u, c) /\ Replayable(t)
  BY <1>0, <1>2, PlayGoesOn, PlaysAgain
<1>4. Taking(u, c)
  BY <1>0, <1>2, TakesPrefixed
<1>5. /\ t.macro = s.macro /\ t.recording = FALSE /\ t.play = u.play /\ t.repeat = TRUE
      /\ t.cut = FALSE
  BY <1>2, <1>3, YieldsBesides
<1>6. Prefixed(t)
  BY <1>2, <1>3, <1>4, StaysPrefixed
<1> HIDE DEF t
<1>7. Playing(t)
  BY <1>2, <1>5, NowPlaying
<1>8. Recording(t)
  BY <1>5 DEF Recording
<1> QED BY <1>3, <1>6, <1>7, <1>8 DEF Replays, t

\* a byte that is typed
LEMMA TypedKeeps ==
  ASSUME NEW s \in States, NEW u \in States, NEW c \in Plain, Replays(s), TypedByte(s, c, u),
         u.reader = s.reader /\ u.keys = s.keys /\ u.meant = s.meant,
         ~Nested(u, c), ~EndsSearch(u, c), ~PlaysCut(u, c), Taken(u, c) \in States
  PROVE  Replays(Taken(u, c))
<1> DEFINE t == Taken(u, c)
<1>0. Prefixed(s) /\ Playing(s) /\ Recording(s) /\ Replayable(s)
  BY DEF Replays
<1>1. /\ s.unread = <<>> /\ u.unread = <<>> /\ u.play = -1 /\ u.repeat = FALSE
      /\ \/ ~s.recording /\ ~u.recording /\ u.macro = s.macro /\ u.cut = s.cut
         \/ s.recording /\ u.recording /\ u.macro = Append(s.macro, c) /\ u.cut = s.cut
         \/ s.recording /\ ~u.recording /\ u.cut
  BY DEF TypedByte, AtEnd
<1>2. Taking(u, c) /\ (Ordinary(u, c) \/ Commands(u, c))
  BY <1>0, <1>1, TakesPrefixed DEF Commands
<1>3. CASE ~u.recording
  <2>1. Quiet(u)
    BY <1>1, <1>3, Fields DEF Quiet
  <2>2. Replayable(u)
    <3>1. CASE u.cut
      BY <3>1 DEF Replayable
    <3>2. CASE ~u.cut
      <4>1. u.macro = s.macro /\ u.meant = s.meant /\ u.recording = s.recording /\ u.cut = s.cut
        BY <1>1, <1>3, <3>2, Fields
      <4> QED BY <1>0, <1>1, <4>1, SameMacro
    <3> QED BY <3>1, <3>2
  <2> QED BY <1>2, <2>1, <2>2, TypedOutside
<1>4. CASE u.recording
  <2>1. RecordedByte(s, c, u)
    BY <1>1, <1>4 DEF RecordedByte
  <2>2. CASE Ordinary(u, c)
    <3>1. Recording(t)
      BY <1>0, <1>2, <2>1, <2>2, RecordingGoesOn
    <3>2. u.recording /\ u.reader \in {"search", "search ESC"} => c # "C-x"
      BY DEF EndsSearch
    <3>3. Prefixed(t)
      BY <1>2, <2>2, <3>2, StaysPrefixed
    <3>4. t.recording /\ t.play = -1 /\ t.repeat = FALSE
      BY <1>1, <1>4, <2>2, YieldsBesides
    <3> HIDE DEF t
    <3>5. Playing(t) /\ Replayable(t)
      BY <3>4, NotPlaying DEF Replayable
    <3> QED BY <3>1, <3>3, <3>5 DEF Replays, t
  <2>3. CASE Commands(u, c)
    <3>1. c # "("
      BY <1>4, <2>3 DEF Commands, Nested
    <3> QED BY <1>0, <1>1, <2>1, <2>3, <3>1, TypedInside
  <2> QED BY <1>2, <2>2, <2>3
<1> QED BY <1>3, <1>4

\* the tester puts its keys in
LEMMA InjectKeeps ==
  ASSUME NEW s \in States, NEW t \in States, Replays(s), s.reader = "get_key" /\ s.keys = <<>>,
         ~s.recording, s.play < 0, t.reader = s.reader /\ t.keys = s.keys /\ t.macro = s.macro,
         t.recording = s.recording /\ t.play = s.play /\ t.repeat = s.repeat /\ t.cut = s.cut,
         t.meant = s.meant, Without(t.unread)
  PROVE  Replays(t)
<1>0. Playing(s) /\ Replayable(s)
  BY DEF Replays
<1>1. s.play = -1 /\ t.play = -1
  <2>1. s.play \in -1..MacroMax /\ MacroMax \in Nat
    BY Fields, Sizes
  <2> QED BY <2>1
<1>2. Replayable(t)
  BY <1>0, <1>1, SameMacro
<1>3. Playing(t)
  BY <1>0 DEF Playing
<1>4. Recording(t)
  BY DEF Recording
<1>5. t.keys # <<"C-x">> /\ "get_key" # "get_key escape"
  OBVIOUS
<1>6. Begun(t)
  BY <1>5 DEF Begun, InKey
<1> QED BY <1>2, <1>3, <1>4, <1>5, <1>6 DEF Prefixed, Replays

\* the end of a macro is the end of its way
LEMMA PlayedIsMeant ==
  ASSUME NEW s \in States, Replays(s), s.play >= 0
  PROVE  /\ IsPrefix(s.ran, s.meant)
         /\ s.play = Len(s.macro) /\ s.unread = <<>> =>
              s.reader = "get_key" /\ s.keys = <<>> /\ s.ran = s.meant
<1> DEFINE m == s.macro
           x == Here(s, s.play, s.ran)
<1>1. ~s.recording /\ ~s.cut /\ m # <<>>
  BY DEF Replays, Playing
<1>n. PICK n \in Nat : \E f : /\ Path(m, f, n) /\ f[n] = Idle(Len(m), s.meant)
                              /\ \E i \in 0..n : f[i] = x
  BY <1>1 DEF Replays, Replayable
<1>2. PICK f : /\ Path(m, f, n) /\ f[n] = Idle(Len(m), s.meant)
               /\ \E i \in 0..n : f[i] = x
  BY <1>n
<1>3. PICK i \in 0..n : f[i] = x
  BY <1>2
<1>4. x.done = s.ran /\ x.unread = s.unread /\ x.at = s.play /\ x.reader = s.reader /\ x.keys = s.keys
  BY DEF Here
<1>5. IsPrefix(s.ran, s.meant)
  <2>1. n \in 0..n /\ i <= n
    OBVIOUS
  <2>2. IsPrefix(f[i].done, f[n].done)
    BY <1>2, <2>1 DEF Path
  <2>3. f[n].done = s.meant
    BY <1>2 DEF Idle
  <2> HIDE DEF x
  <2> QED BY <1>3, <1>4, <2>2, <2>3
<1>6. ASSUME s.play = Len(m), s.unread = <<>>
      PROVE  s.reader = "get_key" /\ s.keys = <<>> /\ s.ran = s.meant
  <2>1. i = n
    <3> SUFFICES ASSUME i # n PROVE FALSE
      OBVIOUS
    <3>1. i \in 0..(n - 1)
      OBVIOUS
    <3>2. Step(m, f[i], f[i + 1])
      BY <1>2, <3>1 DEF Path
    <3>3. f[i].unread = <<>> /\ f[i].at = s.play
      BY <1>3, <1>4, <1>6
    <3>4. s.play < Len(m)
      BY <3>2, <3>3 DEF Step
    <3>5. s.play \in Int
      <4>1. s.play \in -1..MacroMax /\ MacroMax \in Nat
        BY Fields, Sizes
      <4> QED BY <4>1
    <3> QED BY <1>6, <3>4, <3>5
  <2>2. x = Idle(Len(m), s.meant)
    BY <1>2, <1>3, <2>1
  <2> HIDE DEF x
  <2>3. x.reader = "get_key" /\ x.keys = <<>> /\ x.done = s.meant
    BY <2>2 DEF Idle
  <2> QED BY <1>4, <2>3
<1> QED BY <1>5, <1>6

\* None of what the extra steps do is typed, and of what is put in, a C-@ is a
\* key by itself, and there is no C-x.
Settled == Extras = {} /\ \A s \in Injections : s = <<"NUL">> \/ (s \in Seq(Plain) /\ Without(s))

\* the invariant that a replay needs
RInv == IInv /\ Replays(Unmarked)

\* from records to the state
LEMMA BecameReplays ==
  ASSUME NEW s \in States, Replays(s), Become(s)
  PROVE  Replays(Unmarked)'
<1>1. Unmarked' = s
  BY Became
<1>2. Replays(Unmarked')
  BY <1>1
<1> QED BY <1>2

\* the invariant: at first, after every step, and what it implies
LEMMA RInvInit == Init => RInv
<1> SUFFICES ASSUME Init PROVE RInv
  OBVIOUS
<1>1. IInv
  BY IInvInit
<1> DEFINE s == Now
<1>2. /\ s.reader = "get_key" /\ s.keys = <<>> /\ s.unread = <<>> /\ s.macro = <<>> /\ s.recording = FALSE
      /\ s.play = -1 /\ s.repeat = FALSE
  BY DEF Init, Now
<1> HIDE DEF s
<1>3. Prefixed(s) /\ Playing(s)
  BY <1>2, IdlePrefixed, NotPlaying
<1>4. Recording(s) /\ Replayable(s)
  BY <1>2 DEF Recording, Replayable
<1>5. Unmarked = s
  BY DEF Init, Unmarked, s
<1> QED BY <1>1, <1>3, <1>4, <1>5 DEF RInv, Replays

LEMMA RInvStep ==
  ASSUME Settled, RInv, [Next]_vars
  PROVE  RInv'
<1>0. IInv /\ Replays(Unmarked) /\ NoNul /\ Extras = {}
  BY DEF RInv, Settled, NoNul
<1>1. IInv'
  BY <1>0, IInvStep
<1>a. CASE unread = <<"NUL">>
  <2>1. Unmarked' = Unmarked
    BY <1>0, <1>a, MarkedStep
  <2>2. Replays(Unmarked')
    BY <1>0, <2>1
  <2> QED BY <1>1, <2>2 DEF RInv
<1>2. ASSUME unread # <<"NUL">>, ReadByte
      PROVE  RInv'
  <2>0. Now \in States /\ Room(Now) /\ Replays(Now)
    BY <1>0, <1>2 DEF IInv, Unmarked
  <2>1. PICK r \in ReadKeyByte(Now) :
          /\ ~Nested(r[2], r[1]) /\ ~EndsSearch(r[2], r[1]) /\ ~PlaysCut(r[2], r[1])
          /\ Become(Taken(r[2], r[1]))
    BY <1>0, <1>2 DEF ReadByte
  <2> DEFINE c == r[1]
             u == r[2]
             s == Now
             t == Taken(u, c)
  <2>2. c \in Plain /\ u \in States /\ Fresh(u)
    BY <1>0, <2>0, <2>1, Reads
  <2>3. t \in States
    BY <2>2, ByteTaken
  <2>4. /\ u.reader = s.reader /\ u.keys = s.keys /\ u.meant = s.meant
        /\ GivenByte(s, c, u) \/ MacroByte(s, c, u) \/ AgainByte(s, c, u) \/ TypedByte(s, c, u)
    BY <2>0, <2>1, ReadsFrom
  <2>5. s \in States /\ Replays(s) /\ ~Nested(u, c) /\ ~EndsSearch(u, c) /\ ~PlaysCut(u, c) /\ Become(t)
    BY <2>0, <2>1
  <2> HIDE DEF c, u, s
  <2>6. Replays(t)
    BY <2>2, <2>3, <2>4, <2>5, GivenKeeps, PlayedKeeps, TypedKeeps
  <2> HIDE DEF t
  <2> QED BY <1>1, <2>3, <2>5, <2>6, BecameReplays DEF RInv
<1>3. CASE Inject
  <2> DEFINE s == Unmarked
  <2>1. /\ s.reader = "get_key" /\ s.keys = <<>> /\ ~s.recording /\ s.play < 0
        /\ \E bytes \in Injections : \E t \in States :
             /\ Unmarked' = t /\ t.unread = IF bytes = <<"NUL">> THEN <<>> ELSE bytes
             /\ t.reader = s.reader /\ t.keys = s.keys /\ t.macro = s.macro /\ t.recording = s.recording
             /\ t.play = s.play /\ t.repeat = s.repeat /\ t.cut = s.cut /\ t.meant = s.meant
    BY <1>0, <1>3, Injected
  <2>2. s \in States /\ Replays(s)
    BY <1>0 DEF IInv
  <2> HIDE DEF s
  <2>3. PICK bytes \in Injections, t \in States :
          /\ Unmarked' = t /\ t.unread = IF bytes = <<"NUL">> THEN <<>> ELSE bytes
          /\ t.reader = s.reader /\ t.keys = s.keys /\ t.macro = s.macro /\ t.recording = s.recording
          /\ t.play = s.play /\ t.repeat = s.repeat /\ t.cut = s.cut /\ t.meant = s.meant
    BY <2>1
  <2>4. Without(t.unread)
    <3>1. Len(<<>>) = 0 /\ 1..0 = {}
      OBVIOUS
    <3>2. Without(<<>>)
      BY <3>1 DEF Without
    <3> QED BY <2>3, <3>2 DEF Settled
  <2>5. Replays(t)
    BY <2>1, <2>2, <2>3, <2>4, InjectKeeps
  <2>6. Replays(Unmarked')
    BY <2>3, <2>5
  <2> QED BY <1>1, <2>6 DEF RInv
<1>4. CASE UNCHANGED vars
  <2>1. Unmarked' = Unmarked
    BY <1>4 DEF vars, Unmarked, Now
  <2>2. Replays(Unmarked')
    BY <1>0, <2>1
  <2> QED BY <1>1, <2>2 DEF RInv
<1> QED BY <1>a, <1>2, <1>3, <1>4 DEF Next

LEMMA RInvImplies == RInv => ReplayMeansRecording
<1> SUFFICES ASSUME RInv, play >= 0 PROVE ReplayMeansRecording
  BY DEF ReplayMeansRecording
<1> DEFINE s == Now
<1>1. s \in States /\ Replays(s)
  <2>1. Unmarked = Now
    BY PlayedUnmarked DEF RInv
  <2> QED BY <2>1 DEF RInv, IInv
<1>2. /\ s.play = play /\ s.ran = ran /\ s.meant = meant /\ s.macro = macro /\ s.unread = unread
      /\ s.reader = reader /\ s.keys = keys
  BY DEF Now
<1> HIDE DEF s
<1>3. s.play >= 0
  BY <1>2
<1>4. /\ IsPrefix(s.ran, s.meant)
      /\ s.play = Len(s.macro) /\ s.unread = <<>> =>
           s.reader = "get_key" /\ s.keys = <<>> /\ s.ran = s.meant
  BY <1>1, <1>3, PlayedIsMeant
<1> QED BY <1>2, <1>4 DEF ReplayMeansRecording

\* Playing a macro does what its keys did when they were typed, in the same
\* order, and all of it, with nothing left to read for the last key once all its
\* bytes were read (the store, the macro and the replay of key.c).
THEOREM ReplayIsRecording ==
  ASSUME Settled
  PROVE  Spec => []ReplayMeansRecording
<1>1. Init => RInv
  BY RInvInit
<1>2. RInv /\ [Next]_vars => RInv'
  BY RInvStep
<1>3. RInv => ReplayMeansRecording
  BY RInvImplies
<1> QED BY <1>1, <1>2, <1>3, PTL DEF Spec

-----------------------------------------------------------------------------
(***************************************************************************)
(* The keys of the tester.                                                 *)
(***************************************************************************)
\* f reads bytes, which are given back, to the end, and the last key with it
Reading(bytes, f, n) ==
  /\ f[0] = [reader |-> "get_key", keys |-> <<>>, unread |-> bytes, at |-> 0, done |-> <<>>]
  /\ \A i \in 0..(n - 1) : Step(<<>>, f[i], f[i + 1])
  /\ f[n].reader = "get_key" /\ f[n].keys = <<>> /\ f[n].unread = <<>>

\* whole keys, of which none is a command of macros
Whole(bytes) == \E n \in Nat : \E f : Reading(bytes, f, n)

\* every one of the tester's keys is whole
WholeKeys == \A s \in Injections : Whole(s) \/ s = <<"NUL">>

\* as long as bytes of the tester are read, the state is on their way
Testing(s) ==
  s.tested =>
    /\ s.play = -1
    /\ \E n \in Nat : \E bytes, f :
         Reading(bytes, f, n) /\ \E i \in 0..n : \E done \in Seq(Seq(Notes)) : f[i] = Here(s, 0, done)

\* no byte but a typed one ends the tester's keys: notes, the commands, any byte
LEMMA DidTested ==
  ASSUME NEW before, NEW s \in States, NEW what
  PROVE  Did(before, s, what).tested = s.tested
  BY DEF Did, States

LEMMA EndTested ==
  ASSUME NEW s \in States, Len(s.macro) <= MacroMax
  PROVE  KmacroEnd(s).tested = s.tested /\ KmacroCall(s).tested = s.tested /\ KmacroStart(s).tested = s.tested
<1> DEFINE u == KmacroEnd(s)
           m == IF EndsWith(u.macro, "C-x", "e") THEN Shorter(u.macro) ELSE u.macro
           v == [u EXCEPT !.macro = m]
           t == IF ~s.recording THEN s ELSE v
<1>1. u.tested = s.tested
  BY DEF KmacroEnd, States
<1>2. u \in States /\ u.macro \in Seq(Plain)
  BY MacroEnds, Fields
<1>3. KmacroCall(s) = IF t.play >= 0 \/ t.macro = <<>> THEN t ELSE Played(t)
  BY DEF KmacroCall
<1> HIDE DEF u
<1>4. m \in Seq(Plain)
  BY <1>2, CutKeys
<1> HIDE DEF m
<1>5. v \in States /\ v.tested = s.tested
  BY <1>1, <1>2, <1>4 DEF States
<1> HIDE DEF v
<1>6. t \in States /\ t.tested = s.tested
  BY <1>5
<1> HIDE DEF t
<1>7. Played(t).tested = t.tested
  BY <1>6 DEF Played, States
<1>8. KmacroStart(s).tested = s.tested
  BY DEF KmacroStart, States
<1> QED BY <1>1, <1>3, <1>6, <1>7, <1>8 DEF u

LEMMA TestedStays ==
  ASSUME NEW u \in States, NEW c \in Plain, Len(u.macro) <= MacroMax
  PROVE  Taken(u, c).tested = u.tested
<1>1. CASE Ordinary(u, c)
  BY <1>1, OutcomeIs DEF Yields
<1>2. CASE ~Ordinary(u, c)
  <2> DEFINE q == Append(u.keys, c)
  <2>1. u.reader \in {"get_key", "get_key escape"} /\ q \in MacroKeys
    BY <1>2 DEF Ordinary
  <2>a. q \in Seq(Plain)
    BY Fields, AppendProperties
  <2> HIDE DEF q
  <2>b. q = <<"C-x", "(">> \/ q = <<"C-x", ")">> \/ q = <<"C-x", "e">>
    BY <2>1 DEF MacroKeys
  <2>2. q \in Seq(Plain) /\ q \in KeyMap
    BY <2>a, <2>b DEF KeyMap
  <2>3. Dispatched(u, q).tested = u.tested
    <3> DEFINE t == [u EXCEPT !.keys = <<>>, !.reader = "get_key"]
    <3>1. t \in States /\ t.macro = u.macro /\ t.tested = u.tested
      <4>1. <<>> \in Seq(Plain) /\ "get_key" \in Readers
        BY DEF Readers
      <4> QED BY <4>1 DEF States
    <3> DEFINE v == CASE q = <<"C-x", "(">> -> KmacroStart(t)
                      [] q = <<"C-x", ")">> -> KmacroEnd(t)
                      [] q = <<"C-x", "e">> -> KmacroCall(t)
                      [] q = <<"C-s">>      -> [t EXCEPT !.reader = "search"]
                      [] q = <<"ESC", "a">> -> [t EXCEPT !.reader = "line_edit"]
                      [] OTHER              -> t
    <3>2. Dispatched(u, q) = Did(u, v, q)
      BY DEF Dispatched
    <3> HIDE DEF t
    <3>3. v = KmacroStart(t) \/ v = KmacroEnd(t) \/ v = KmacroCall(t)
      <4>1. CASE q = <<"C-x", "(">>
        BY <4>1
      <4>2. CASE q = <<"C-x", ")">>
        <5>1. q # <<"C-x", "(">>
          BY <4>2
        <5> QED BY <4>2, <5>1
      <4>3. CASE q = <<"C-x", "e">>
        <5>1. q # <<"C-x", "(">> /\ q # <<"C-x", ")">>
          BY <4>3
        <5> QED BY <4>3, <5>1
      <4> QED BY <2>b, <4>1, <4>2, <4>3
    <3> HIDE DEF v
    <3>4. v \in States /\ v.tested = t.tested
      BY <3>1, <3>3, EndTested, MacroStarts, MacroEnds, MacroPlays
    <3> QED BY <3>1, <3>2, <3>4, DidTested
  <2>4. CASE u.reader = "get_key"
    <3>1. CString(q) = q
      BY <2>2, PlainString
    <3>2. Taken(u, c) = Dispatched(u, q)
      BY <2>2, <2>4, <3>1 DEF Taken, GetKey, q
    <3> QED BY <2>3, <3>2
  <2>5. CASE u.reader = "get_key escape"
    <3>1. Taken(u, c) = IF Complete(q) THEN Dispatched(u, q) ELSE [u EXCEPT !.keys = q]
      BY <2>5 DEF Taken, GetEscape, q
    <3>2. [u EXCEPT !.keys = q].tested = u.tested
      BY DEF States
    <3> QED BY <2>3, <3>1, <3>2
  <2> QED BY <2>1, <2>4, <2>5
<1> QED BY <1>1, <1>2

\* every byte goes on with the tester's keys, or is typed after them
LEMMA TestingKeeps ==
  ASSUME NEW s \in States, NEW u \in States, NEW c \in Plain, Testing(s), Len(u.macro) <= MacroMax,
         u.reader = s.reader /\ u.keys = s.keys, Taken(u, c) \in States,
         GivenByte(s, c, u) \/ MacroByte(s, c, u) \/ AgainByte(s, c, u) \/ TypedByte(s, c, u)
  PROVE  Testing(Taken(u, c))
<1> DEFINE t == Taken(u, c)
<1>1. t.tested = u.tested
  BY TestedStays
<1>2. CASE ~u.tested
  <2>1. ~t.tested
    BY <1>1, <1>2
  <2> HIDE DEF t
  <2> QED BY <2>1 DEF Testing, t
<1>3. CASE u.tested
  <2>1. s.tested
    BY <1>3 DEF GivenByte, MacroByte, AgainByte, TypedByte
  <2>2. s.play = -1 /\ \E n \in Nat : \E bytes, f :
           Reading(bytes, f, n) /\ \E i \in 0..n : \E done \in Seq(Seq(Notes)) : f[i] = Here(s, 0, done)
    BY <2>1 DEF Testing
  <2>3. PICK n \in Nat : \E bytes, f :
           Reading(bytes, f, n) /\ \E i \in 0..n : \E done \in Seq(Seq(Notes)) : f[i] = Here(s, 0, done)
    BY <2>2
  <2>4. PICK bytes, f :
           Reading(bytes, f, n) /\ \E i \in 0..n : \E done \in Seq(Seq(Notes)) : f[i] = Here(s, 0, done)
    BY <2>3
  <2>5. PICK i \in 0..n, done \in Seq(Seq(Notes)) : f[i] = Here(s, 0, done)
    BY <2>4
  <2>6. GivenByte(s, c, u)
    <3>1. ~(s.play >= 0)
      BY <2>2
    <3>2. ~MacroByte(s, c, u)
      BY <3>1 DEF MacroByte
    <3>3. ~AgainByte(s, c, u) /\ ~TypedByte(s, c, u)
      BY <1>3 DEF AgainByte, TypedByte
    <3> QED BY <3>2, <3>3
  <2>7. s.unread # <<>> /\ c = Head(s.unread) /\ u.unread = Tail(s.unread) /\ u.play = s.play
    BY <2>6 DEF GivenByte
  <2>8. f[i].reader = s.reader /\ f[i].keys = s.keys /\ f[i].unread = s.unread
    BY <2>5 DEF Here
  <2>9. i \in 0..(n - 1) /\ i + 1 \in 0..n
    <3>1. i # n
      BY <2>4, <2>7, <2>8 DEF Reading
    <3> QED BY <3>1
  <2>10. Step(<<>>, f[i], f[i + 1])
    BY <2>4, <2>9 DEF Reading
  <2>11. Ordinary(u, c)
    <3>1. Byte(<<>>, f[i]) = c
      BY <2>7, <2>8 DEF Byte
    <3>2. Ordinary(f[i], c)
      BY <2>10, <3>1 DEF Step
    <3> QED BY <2>8, <3>2 DEF Ordinary
  <2> DEFINE at == 0
             e == Outcome(u, c)
             m == <<>>
             said == done \o e.said
             y == Here(t, at, said)
  <2>12. Step(m, f[i], y)
    <3>1. at \in Nat /\ m \in Seq(Plain) /\ f[i] = Here(s, at, done)
      BY <2>5
    <3> HIDE DEF at, m
    <3> QED BY <2>7, <2>11, <3>1, ByteGoes
  <2>13. f[i + 1] = y
    BY <2>10, <2>12 DEF Step
  <2>14. said \in Seq(Seq(Notes))
    <3>1. e.said \in Seq(Seq(Notes))
      BY StateReadable, OutcomeTypes
    <3> HIDE DEF e
    <3> QED BY <3>1, ConcatProperties
  <2>15. t.play = -1
    BY <2>2, <2>7, <2>11, YieldsBesides
  <2> HIDE DEF t, said
  <2> QED BY <2>4, <2>9, <2>13, <2>14, <2>15 DEF Testing, t
<1> QED BY <1>2, <1>3, Fields

\* the invariant that the tester needs
TInv == IInv /\ Testing(Unmarked)

\* from records to the state
LEMMA BecameTesting ==
  ASSUME NEW s \in States, Testing(s), Become(s)
  PROVE  Testing(Unmarked)'
<1>1. Unmarked' = s
  BY Became
<1>2. Testing(Unmarked')
  BY <1>1
<1> QED BY <1>2

\* the way of no bytes
LEMMA NothingIsWhole == Whole(<<>>)
<1> DEFINE f == [i \in 0..0 |-> [reader |-> "get_key", keys |-> <<>>, unread |-> <<>>, at |-> 0, done |-> <<>>]]
<1>1. f[0] = [reader |-> "get_key", keys |-> <<>>, unread |-> <<>>, at |-> 0, done |-> <<>>]
  OBVIOUS
<1>2. 0..(0 - 1) = {}
  OBVIOUS
<1> HIDE DEF f
<1>3. Reading(<<>>, f, 0)
  BY <1>1, <1>2 DEF Reading
<1> QED BY <1>3 DEF Whole

LEMMA TInvStep ==
  ASSUME NoNul, WholeKeys, TInv, [Next]_vars
  PROVE  TInv'
<1>0. IInv /\ Testing(Unmarked)
  BY DEF TInv
<1>1. IInv'
  BY <1>0, IInvStep
<1>a. CASE unread = <<"NUL">>
  <2>1. Unmarked' = Unmarked
    BY <1>0, <1>a, MarkedStep
  <2>2. Testing(Unmarked')
    BY <1>0, <2>1
  <2> QED BY <1>1, <2>2 DEF TInv
<1>2. ASSUME unread # <<"NUL">>, ReadByte
      PROVE  TInv'
  <2>0. Now \in States /\ Room(Now) /\ Testing(Now)
    BY <1>0, <1>2 DEF IInv, Unmarked
  <2>1. PICK r \in ReadKeyByte(Now) : Become(Taken(r[2], r[1]))
    BY <1>2 DEF ReadByte
  <2> DEFINE c == r[1]
             u == r[2]
             s == Now
             t == Taken(u, c)
  <2>2. c \in Plain /\ u \in States /\ Fresh(u)
    BY <2>0, <2>1, Reads
  <2>3. t \in States
    BY <2>2, ByteTaken
  <2>4. /\ u.reader = s.reader /\ u.keys = s.keys
        /\ GivenByte(s, c, u) \/ MacroByte(s, c, u) \/ AgainByte(s, c, u) \/ TypedByte(s, c, u)
    BY <2>0, <2>1, ReadsFrom
  <2>5. s \in States /\ Testing(s) /\ Become(t)
    BY <2>0, <2>1
  <2> HIDE DEF c, u, s
  <2>6. Len(u.macro) <= MacroMax
    BY <2>2, FreshRoom DEF Room
  <2>7. Testing(t)
    BY <2>2, <2>3, <2>4, <2>5, <2>6, TestingKeeps
  <2> HIDE DEF t
  <2> QED BY <1>1, <2>3, <2>5, <2>7, BecameTesting DEF TInv
<1>3. CASE Inject
  <2> DEFINE s == Unmarked
             LeftOf(bytes) == IF bytes = <<"NUL">> THEN <<>> ELSE bytes
  <2>1. /\ s.reader = "get_key" /\ s.keys = <<>> /\ s.play < 0
        /\ \E bytes \in Injections : \E t \in States :
             /\ Unmarked' = t /\ t.unread = LeftOf(bytes)
             /\ t.reader = s.reader /\ t.keys = s.keys /\ t.play = s.play
    BY <1>0, <1>3, Injected
  <2>2. s \in States
    BY <1>0 DEF IInv
  <2> HIDE DEF s
  <2>3. PICK bytes \in Injections, t \in States :
          /\ Unmarked' = t /\ t.unread = LeftOf(bytes)
          /\ t.reader = s.reader /\ t.keys = s.keys /\ t.play = s.play
    BY <2>1
  <2>4. t.play = -1
    <3>1. s.play \in -1..MacroMax /\ MacroMax \in Nat
      BY <2>2, Fields, Sizes
    <3> QED BY <2>1, <2>3, <3>1
  <2> DEFINE left == LeftOf(bytes)
  <2>5. Whole(left)
    BY NothingIsWhole DEF WholeKeys
  <2>a. t.unread = left
    BY <2>3
  <2> HIDE DEF left
  <2>6. PICK n \in Nat : \E f : Reading(left, f, n)
    BY <2>5 DEF Whole
  <2>7. PICK f : Reading(left, f, n)
    BY <2>6
  <2>8. f[0] = Here(t, 0, <<>>)
    BY <2>1, <2>3, <2>7, <2>a DEF Reading, Here
  <2>9. 0 \in 0..n /\ <<>> \in Seq(Seq(Notes))
    OBVIOUS
  <2>10. Testing(t)
    BY <2>4, <2>7, <2>8, <2>9 DEF Testing
  <2>11. Testing(Unmarked')
    BY <2>3, <2>10
  <2> QED BY <1>1, <2>11 DEF TInv
<1>4. CASE UNCHANGED vars
  <2>1. Unmarked' = Unmarked
    BY <1>4 DEF vars, Unmarked, Now
  <2>2. Testing(Unmarked')
    BY <1>0, <2>1
  <2> QED BY <1>1, <2>2 DEF TInv
<1> QED BY <1>a, <1>2, <1>3, <1>4 DEF Next

LEMMA TInvImplies == TInv => TesterNeverBlocks
<1> SUFFICES ASSUME TInv, tested, unread = <<>> PROVE reader = "get_key" /\ keys = <<>>
  BY DEF TesterNeverBlocks
<1> DEFINE s == Now
<1>1. s.tested /\ Testing(s)
  <2>1. Unmarked = Now
    BY DEF Unmarked
  <2> QED BY <2>1 DEF TInv, Now
<1>2. s.unread = unread /\ s.reader = reader /\ s.keys = keys
  BY DEF Now
<1> HIDE DEF s
<1>3. PICK n \in Nat : \E bytes, f :
         Reading(bytes, f, n) /\ \E i \in 0..n : \E done \in Seq(Seq(Notes)) : f[i] = Here(s, 0, done)
  BY <1>1 DEF Testing
<1>4. PICK bytes, f :
         Reading(bytes, f, n) /\ \E i \in 0..n : \E done \in Seq(Seq(Notes)) : f[i] = Here(s, 0, done)
  BY <1>3
<1>5. PICK i \in 0..n, done \in Seq(Seq(Notes)) : f[i] = Here(s, 0, done)
  BY <1>4
<1>6. f[i].reader = s.reader /\ f[i].keys = s.keys /\ f[i].unread = <<>> /\ f[i].at = 0
  BY <1>2, <1>5 DEF Here
<1>7. i = n
  <2> SUFFICES ASSUME i # n PROVE FALSE
    OBVIOUS
  <2>1. i \in 0..(n - 1)
    OBVIOUS
  <2>2. Step(<<>>, f[i], f[i + 1])
    BY <1>4, <2>1 DEF Reading
  <2>3. 0 < Len(<<>>)
    BY <1>6, <2>2 DEF Step
  <2>4. Len(<<>>) = 0
    OBVIOUS
  <2> QED BY <2>3, <2>4
<1>8. s.reader = "get_key" /\ s.keys = <<>>
  BY <1>4, <1>6, <1>7 DEF Reading
<1> QED BY <1>2, <1>8

\* Whole keys that the tester puts in are read in their order, and the last one
\* is complete with the last byte: no read of the keyboard is in between
\* (key.c:256).
THEOREM TesterIsNotBlocked ==
  ASSUME NoNul, WholeKeys
  PROVE  Spec => []TesterNeverBlocks
<1>1. Init => TInv
  <2> SUFFICES ASSUME Init PROVE TInv
    OBVIOUS
  <2>1. ~Unmarked.tested
    BY DEF Init, Unmarked, Now
  <2>2. Testing(Unmarked)
    BY <2>1 DEF Testing
  <2> QED BY <2>2, IInvInit DEF TInv
<1>2. TInv /\ [Next]_vars => TInv'
  BY TInvStep
<1>3. TInv => TesterNeverBlocks
  BY TInvImplies
<1> QED BY <1>1, <1>2, <1>3, PTL DEF Spec

\* such keys are there: a search that RET ends is one
LEMMA SearchIsWhole == Whole(<<"C-s", "RET">>)
<1> DEFINE x == [reader |-> "get_key", keys |-> <<>>, unread |-> <<"C-s", "RET">>, at |-> 0, done |-> <<>>]
           y == [reader |-> "search", keys |-> <<>>, unread |-> <<"RET">>, at |-> 0, done |-> <<>> \o <<<<"C-s">>>>]
           z == [reader |-> "get_key", keys |-> <<>>, unread |-> <<>>, at |-> 0,
                 done |-> y.done \o <<<<"search", "RET">>>>]
           f == [i \in 0..2 |-> IF i = 0 THEN x ELSE IF i = 1 THEN y ELSE z]
<1>1. Step(<<>>, x, y)
  <2> DEFINE b == [x EXCEPT !.unread = <<"RET">>]
             q == <<"C-s">>
  <2>1. x.unread # <<>> /\ Byte(<<>>, x) = "C-s" /\ Behind(x) = b
    BY DEF Byte, Behind
  <2>2. Append(x.keys, "C-s") = q /\ Append(b.keys, "C-s") = q
    OBVIOUS
  <2>3. q \notin MacroKeys /\ q \notin KeyMap
    BY DEF MacroKeys, KeyMap
  <2>4. ~StartsKey(q)
    <3>1. CString(q) = q
      <4>1. "C-s" \in Plain
        BY DEF Plain, Bytes
      <4>2. q \in Seq(Plain)
        BY <4>1
      <4> QED BY <4>2, PlainString
    <3>2. \A k \in KeyMap : 1 < Len(k) => k[1] # "C-s" /\ 1 \in 1..Len(k)
      BY DEF KeyMap
    <3>a. Len(q) = 1
      OBVIOUS
    <3>3. \A k \in KeyMap : 1 < Len(k) => SubSeq(k, 1, 1) # q
      <4>1. q[1] = "C-s"
        OBVIOUS
      <4> SUFFICES ASSUME NEW k \in KeyMap, 1 < Len(k), SubSeq(k, 1, 1) = q PROVE FALSE
        OBVIOUS
      <4>2. SubSeq(k, 1, 1)[1] = k[1]
        BY <3>2
      <4> HIDE DEF q
      <4>3. k[1] = "C-s"
        BY <4>1, <4>2
      <4> QED BY <3>2, <4>3
    <3> HIDE DEF q
    <3> QED BY <3>1, <3>a, <3>3 DEF StartsKey
  <2>5. KeyOutcome(b, q) = KeyDone(b, q)
    BY <2>3, <2>4 DEF KeyOutcome
  <2>6. KeyDone(b, q) = [reader |-> "search", keys |-> <<>>, unread |-> <<"RET">>, said |-> <<q>>]
    BY DEF KeyDone, Then
  <2>7. Outcome(b, "C-s") = [reader |-> "search", keys |-> <<>>, unread |-> <<"RET">>, said |-> <<q>>]
    BY <2>2, <2>5, <2>6 DEF Outcome
  <2>8. Ordinary(x, "C-s")
    BY <2>2, <2>3 DEF Ordinary
  <2>9. After(b, Outcome(b, "C-s")) = y
    BY <2>7 DEF After
  <2> QED BY <2>1, <2>8, <2>9 DEF Step
<1>2. Step(<<>>, y, z)
  <2> DEFINE b == [y EXCEPT !.unread = <<>>]
  <2>1. y.unread # <<>> /\ Byte(<<>>, y) = "RET" /\ Behind(y) = b
    BY DEF Byte, Behind
  <2>2. Outcome(b, "RET") = [reader |-> "get_key", keys |-> <<>>, unread |-> <<>>, said |-> <<<<"search", "RET">>>>]
    BY DEF Outcome, SearchOutcome, Then
  <2>3. Ordinary(y, "RET")
    BY DEF Ordinary
  <2>4. After(b, Outcome(b, "RET")) = z
    <3>1. b.at = 0 /\ b.done = y.done
      OBVIOUS
    <3> DEFINE e == Outcome(b, "RET")
    <3>2. e.reader = "get_key" /\ e.keys = <<>> /\ e.unread = <<>> /\ e.said = <<<<"search", "RET">>>>
      BY <2>2
    <3> HIDE DEF b, y, e
    <3>3. After(b, e) = [reader |-> e.reader, keys |-> e.keys, unread |-> e.unread, at |-> b.at, done |-> b.done \o e.said]
      BY DEF After
    <3>4. After(b, e) = z
      BY <3>1, <3>2, <3>3
    <3> QED BY <3>4 DEF e
  <2> QED BY <2>1, <2>3, <2>4 DEF Step
<1>3. z.reader = "get_key" /\ z.keys = <<>> /\ z.unread = <<>>
  OBVIOUS
<1> HIDE DEF y, z
<1>4. f[0] = x /\ f[1] = y /\ f[2] = z /\ 0 + 1 = 1 /\ 1 + 1 = 2 /\ 0..(2 - 1) = {0, 1}
  OBVIOUS
<1> HIDE DEF f
<1>5. \A i \in 0..(2 - 1) : Step(<<>>, f[i], f[i + 1])
  <2> HIDE DEF x
  <2> QED BY <1>1, <1>2, <1>4
<1>6. Reading(<<"C-s", "RET">>, f, 2)
  BY <1>3, <1>4, <1>5 DEF Reading
<1> QED BY <1>6 DEF Whole

\* a typed byte ends the replay or starts a new one
LEMMA TypedEnds ==
  ASSUME NEW s \in States, NEW u \in States, NEW c \in Plain, Prefixed(s), s.recording = FALSE,
         u.reader = s.reader /\ u.keys = s.keys, Taken(u, c) \in States, TypedByte(s, c, u)
  PROVE  Taken(u, c).play = -1 \/ Taken(u, c).play = 0
<1> DEFINE t == Taken(u, c)
<1>1. s.unread = <<>> /\ u.unread = <<>> /\ u.play = -1 /\ u.repeat = FALSE /\ u.recording = FALSE
  BY Fields DEF TypedByte, AtEnd
<1>2. Ordinary(u, c) \/ Commands(u, c)
  BY <1>1, TakesPrefixed DEF Commands
<1>3. CASE Ordinary(u, c)
  BY <1>1, <1>3, YieldsBesides
<1>4. CASE Commands(u, c)
  <2>1. u.reader = "get_key" /\ u.keys = <<"C-x">> /\ c \in {"(", ")", "e"}
    BY <1>4 DEF Commands
  <2>2. /\ t.reader = "get_key" /\ t.keys = <<>> /\ t.unread = u.unread
        /\ c = "(" => /\ t.recording = TRUE /\ t.cut = FALSE /\ t.macro = <<>> /\ t.meant = <<>>
                      /\ t.play = -1 /\ t.repeat = FALSE
        /\ c # "(" => /\ t.recording = FALSE /\ t.cut = u.cut /\ t.macro = u.macro /\ t.meant = u.meant
                      /\ PlaysIf(t, c = "e")
    BY <1>1, <2>1, CommandOutside
  <2> HIDE DEF t
  <2>3. t.play = -1 \/ t.play = 0
    BY <2>2 DEF PlaysIf
  <2> QED BY <2>3 DEF t
<1> QED BY <1>2, <1>3, <1>4

\* while a macro is played
LEMMA PlayingStays ==
  ASSUME NEW s \in States, NEW u \in States, NEW c \in Plain, Replays(s), s.play >= 0,
         u.reader = s.reader /\ u.keys = s.keys /\ u.meant = s.meant, Taken(u, c) \in States,
         GivenByte(s, c, u) \/ MacroByte(s, c, u) \/ AgainByte(s, c, u) \/ TypedByte(s, c, u)
  PROVE  LET t == Taken(u, c)
         IN  t.play > s.play => t.macro = s.macro /\ ~t.recording
<1> DEFINE t == Taken(u, c)
<1>0. Prefixed(s) /\ Playing(s) /\ Replayable(s) /\ s.play \in Int
  <2>1. s.play \in -1..MacroMax /\ MacroMax \in Nat
    BY Fields, Sizes
  <2> QED BY <2>1 DEF Replays
<1>1. ~s.recording
  BY <1>0 DEF Playing
<1>2. CASE GivenByte(s, c, u) \/ MacroByte(s, c, u) \/ AgainByte(s, c, u)
  <2>1. u.macro = s.macro /\ u.recording = s.recording
    BY <1>2 DEF GivenByte, MacroByte, AgainByte
  <2>2. Ordinary(u, c)
    BY <1>0, <1>2, PlayGoesOn, PlaysAgain
  <2>3. t.macro = u.macro /\ t.recording = u.recording
    BY <2>2, YieldsBesides
  <2> HIDE DEF t
  <2> QED BY <1>1, <2>1, <2>3 DEF t
<1>3. CASE TypedByte(s, c, u)
  <2>1. s.recording = FALSE
    BY <1>1, Fields
  <2>2. t.play = -1 \/ t.play = 0
    BY <1>0, <1>3, <2>1, TypedEnds
  <2> HIDE DEF t
  <2>3. ~(t.play > s.play)
    BY <1>0, <2>2
  <2> QED BY <2>3 DEF t
<1> QED BY <1>2, <1>3

LEMMA MacroStays ==
  ASSUME Settled, RInv, [Next]_vars, play >= 0, play' > play
  PROVE  macro' = macro /\ ~recording'
<1>0. Now \in States /\ Room(Now) /\ Replays(Now) /\ IInv /\ NoNul
  <2>1. Unmarked = Now
    BY PlayedUnmarked DEF RInv
  <2> QED BY <2>1 DEF RInv, IInv, Settled, NoNul
<1>1. play \in Int
  <2>1. Now.play \in -1..MacroMax /\ MacroMax \in Nat
    BY <1>0, Fields, Sizes
  <2> QED BY <2>1 DEF Now
<1>2. CASE ReadByte
  <2>1. PICK r \in ReadKeyByte(Now) : Become(Taken(r[2], r[1]))
    BY <1>2 DEF ReadByte
  <2> DEFINE c == r[1]
             u == r[2]
             s == Now
             t == Taken(u, c)
  <2>2. c \in Plain /\ u \in States /\ Fresh(u)
    BY <1>0, <2>1, Reads
  <2>3. t \in States
    BY <2>2, ByteTaken
  <2>4. /\ u.reader = s.reader /\ u.keys = s.keys /\ u.meant = s.meant
        /\ GivenByte(s, c, u) \/ MacroByte(s, c, u) \/ AgainByte(s, c, u) \/ TypedByte(s, c, u)
    BY <1>0, <2>1, ReadsFrom
  <2>5. s \in States /\ Replays(s)
    BY <1>0
  <2>6. s.play = play /\ s.macro = macro /\ play' = t.play /\ macro' = t.macro /\ recording' = t.recording
    BY <2>1 DEF Now, Become
  <2> HIDE DEF c, u, s
  <2>7. t.play > s.play => t.macro = s.macro /\ ~t.recording
    BY <2>2, <2>3, <2>4, <2>5, <2>6, PlayingStays
  <2> HIDE DEF t
  <2> QED BY <2>6, <2>7
<1>3. CASE Inject
  BY <1>1, <1>3 DEF Inject, TesterCanInject
<1>4. CASE UNCHANGED vars
  BY <1>1, <1>4 DEF vars
<1> QED BY <1>2, <1>3, <1>4 DEF Next

\* The macro changes only by what is typed while it is recorded: never while
\* one is played (kmacro_start and kmacro_end of key.c).
THEOREM MacroStaysPlayed ==
  ASSUME Settled
  PROVE  Spec => PlayedMacroStays
<1>1. Init => RInv
  BY RInvInit
<1>2. RInv /\ [Next]_vars => RInv'
  BY RInvStep
<1>3. RInv /\ [Next]_vars => [play >= 0 /\ play' > play => macro' = macro /\ ~recording']_vars
  BY MacroStays
<1> QED BY <1>1, <1>2, <1>3, PTL DEF Spec, PlayedMacroStays
=============================================================================
