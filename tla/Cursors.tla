------------------------------- MODULE Cursors -------------------------------
(***************************************************************************)
(* The cursors of windows (w2b, b2w and update_display of src/display.c,   *)
(* with their callers in src/window.c, src/buffer.c and src/command.c).    *)
(*                                                                         *)
(* A buffer has one cursor, b_point.  A window keeps a copy while another  *)
(* is selected: b2w() makes it, and w2b() puts it back, moved by what the  *)
(* text grew or shrank by elsewhere, if it is after the cursor the change  *)
(* was made at.  Of a text only its length is kept, and of the windows     *)
(* only which buffer they show (see Windows).  Every action is a command   *)
(* with the update_display() that ends it.                                 *)
(***************************************************************************)
EXTENDS Integers, SequencesExt

CONSTANTS
  Buffers,
  MaxWindows,           \* bound: windows
  MaxText,              \* bound: bytes of a text
  Drift,                \* bound: how far out of its text a cursor is followed
  Extras                \* which of the steps named in ExtraSteps are taken

ExtraSteps == {"regions", "popups", "append"}

ASSUME CursorSizes ==
  /\ Buffers # {} /\ MaxWindows \in Nat \ {0} /\ {MaxText, Drift} \subseteq Nat
  /\ Extras \subseteq ExtraSteps

VARIABLES
  text,                 \* [Buffers -> the length of the text]
  size, psize,          \* b_size, b_psize
  point, cpoint,        \* b_point, b_cpoint
  lost,                 \* windows dropped and still counted in b_cnt
  win,                  \* the windows: w_bufp and w_point
  cur                   \* curwp

vars == <<text, size, psize, point, cpoint, lost, win, cur>>

Now == [text |-> text, size |-> size, psize |-> psize, point |-> point, cpoint |-> cpoint,
        lost |-> lost, win |-> win, cur |-> cur]

Count(s, b) == Cardinality({i \in DOMAIN s.win : s.win[i].buf = b}) + s.lost[b]      \* b_cnt

B2w(s, i) ==
  LET b == s.win[i].buf
  IN  [s EXCEPT !.win[i].point = s.point[b], !.size[b] = s.text[b]]

W2bUnmoved(s, i) == [s EXCEPT !.point[s.win[i].buf] = s.win[i].point]   \* mutant

W2bWhenShrunk(s, i) ==                                                  \* mutant
  LET b == s.win[i].buf
      p == s.win[i].point
  IN  [s EXCEPT !.point[b] = IF p > s.cpoint[b] /\ s.size[b] < s.psize[b]
                             THEN p + (s.size[b] - s.psize[b]) ELSE p]

W2b(s, i) ==
  LET b == s.win[i].buf
      p == s.win[i].point
  IN  [s EXCEPT !.point[b] = IF p > s.cpoint[b] THEN p + (s.size[b] - s.psize[b]) ELSE p]

W2bNever(s, i) == s                                                     \* mutant
W2bIfShared(s, i) == IF Count(s, s.win[i].buf) > 1 THEN W2b(s, i) ELSE s

\* a window's turn in update_display(); display() ends with b2w()
Turn(t, w) == IF w.stale THEN B2w(W2b(t, w.at), w.at) ELSE t

\* update_display(), with the windows of marked to be painted
Refreshed(s, marked) ==
  LET b     == s.win[s.cur].buf
      own   == B2w([s EXCEPT !.cpoint[b] = s.point[b]], s.cur)
      turns == [i \in DOMAIN s.win |->
                  [at |-> i, stale |-> i # s.cur /\ (s.win[i].buf = b \/ i \in marked)]]
      all   == IF Len(s.win) = 1 THEN own ELSE W2b(FoldLeft(Turn, own, turns), s.cur)
  IN  [all EXCEPT !.psize[b] = all.size[b]]

All(s) == DOMAIN s.win

Become(s, marked) ==
  LET t == Refreshed(s, marked)
  IN  /\ \A b \in Buffers : t.point[b] \in -Drift..(MaxText + Drift)
      /\ text' = t.text /\ size' = t.size /\ psize' = t.psize /\ point' = t.point
      /\ cpoint' = t.cpoint /\ lost' = t.lost /\ win' = t.win /\ cur' = t.cur

Init ==
  /\ text \in [Buffers -> 0..MaxText]
  /\ size = [b \in Buffers |-> 0] /\ psize = size /\ point = size /\ cpoint = size /\ lost = size
  /\ win \in {<<[buf |-> b, point |-> 0]>> : b \in Buffers} /\ cur = 1

-----------------------------------------------------------------------------
(* Windows                                                                   *)

\* a second window on the buffer, above number i; redraw() refreshes at once
Split ==
  /\ Len(win) < MaxWindows
  /\ LET s == [Now EXCEPT !.win = InsertAt(@, cur + 1, win[cur])]
     IN  Become(Refreshed(B2w(s, cur + 1), All(s)), {})

\* other_window, select_screen_window
SelectWindow == \E i \in DOMAIN win \ {cur} : Become(W2bIfShared([Now EXCEPT !.cur = i], i), {cur})

DeleteOtherWindows ==
  /\ Len(win) > 1
  /\ Become([Now EXCEPT !.win = <<win[cur]>>, !.cur = 1], {})

DeleteWindow ==
  /\ Len(win) > 1
  /\ LET heir == IF cur = 1 THEN 2 ELSE cur - 1
         s    == W2bIfShared(Now, heir)
         t    == [s EXCEPT !.win = RemoveAt(@, cur), !.cur = IF cur = 1 THEN 1 ELSE heir]
     IN  Become(t, All(t))

\* relayout_windows, when the screen holds fewer windows or all the same
Resize == \E n \in {Len(win), Len(win) - 1} \ {0} :
  /\ LET gone == IF n = Len(win) THEN 0 ELSE IF cur = Len(win) THEN n ELSE Len(win)
         s    == IF gone = 0 THEN Now
                 ELSE [Now EXCEPT !.win = RemoveAt(@, gone), !.lost[win[gone].buf] = @ + 1,
                                  !.cur = IF cur > gone THEN @ - 1 ELSE @]
     IN  s.lost \in [Buffers -> 0..1] /\ Become(s, All(s))

\* Another buffer in window i: here, by C-x b, C-x right, C-x left or after
\* C-x k; in another window, whose w_point stays, by hijack_window and
\* restore_hijacked_window.
ShowBuffer == \E i \in DOMAIN win, b \in Buffers :
  /\ i = cur \/ "popups" \in Extras
  /\ Become([Now EXCEPT !.win[i].buf = b], {i})

-----------------------------------------------------------------------------
(* The text                                                                  *)

This == win[cur].buf

Move == \E p \in 0..text[This] : Become([Now EXCEPT !.point[This] = p], {})

Insert == \E n \in 1..(MaxText - text[This]) :
  Become([Now EXCEPT !.text[This] = @ + n, !.point[This] = @ + n], {})

\* DEL, C-d, and with "regions" C-w and C-k
Delete == \E p \in 0..text[This] : \E n \in 1..(text[This] - p) :
  /\ point[This] \in p..(p + n) /\ (n = 1 \/ "regions" \in Extras)
  /\ Become([Now EXCEPT !.text[This] = @ - n, !.point[This] = p], {})

\* movegap takes a cursor in the text
Edit == point[This] \in 0..text[This] /\ (Move \/ Insert \/ Delete)

\* append_string to a buffer: a message, the output of a program
Appended(s, b, n) ==
  LET end   == s.text[b] + n
      shown == \E i \in DOMAIN s.win : s.win[i].buf = b
  IN  [s EXCEPT !.text[b] = end, !.point[b] = end, !.size[b] = IF shown THEN end ELSE @,
                !.win = [i \in DOMAIN @ |-> IF @[i].buf = b THEN [@[i] EXCEPT !.point = end] ELSE @[i]]]

AppendString == \E b \in Buffers : \E n \in 1..(MaxText - text[b]) :
  /\ b = This \/ "append" \in Extras
  /\ Become(Appended(Now, b, n), IF Count(Now, b) > 0 THEN All(Now) ELSE {})

Next ==
  \/ Split \/ SelectWindow \/ DeleteOtherWindows \/ DeleteWindow \/ Resize \/ ShowBuffer \/ Edit \/ AppendString

Spec == Init /\ [][Next]_vars

-----------------------------------------------------------------------------
(* Properties                                                                *)

TypeOK ==
  /\ {text, size, psize, cpoint} \subseteq [Buffers -> 0..MaxText]
  /\ point \in [Buffers -> Int] /\ lost \in [Buffers -> Nat]
  /\ win \in Seq([buf : Buffers, point : Int]) /\ cur \in DOMAIN win

\* Every cursor, also of a window that is not selected, is in the text that
\* the window shows: movegap() asserts it when the next key is typed there.
CursorsInText ==
  /\ TypeOK
  /\ \A i \in DOMAIN win : {win[i].point, point[win[i].buf]} \subseteq 0..text[win[i].buf]

\* Where the text that was at q is after an edit of the selected window.
Followed(q) ==
  LET n  == text'[This] - text[This]
      at == IF n >= 0 THEN point[This] ELSE point'[This]
  IN  IF q <= at THEN q ELSE q + n

\* The insertion went past q: w2b() compares q with the cursor it left.
Overtaken(q) == text'[This] > text[This] /\ point[This] < q /\ q <= point'[This]

\* Each other window on the text that is edited keeps its cursor before the
\* same character; but after an insertion of n, w2b() leaves a cursor that was
\* up to n behind it where it was, before another character.
CursorsFollow ==
  [][Edit =>
       \A i \in DOMAIN win \ {cur} :
         LET q == win[i].point
         IN  win'[i].point = IF win[i].buf # This \/ Overtaken(q) THEN q ELSE Followed(q)]_vars

\* Not so: without the exception.
CursorsAlwaysFollow ==
  [][Edit =>
       \A i \in DOMAIN win \ {cur} :
         win'[i].point = IF win[i].buf # This THEN win[i].point ELSE Followed(win[i].point)]_vars

\* Selecting another window on a buffer that two windows show finds the cursor
\* where that window had it, not where the other one left the buffer's.
CursorsKept ==
  [][cur' # cur /\ Len(win') = Len(win) /\ Count(Now, win[cur'].buf) > 1
       => point'[win'[cur'].buf] = win[cur'].point]_vars

\* C-x 0: "the remaining window keeps its own cursor, even on the same buffer"
\* (window.c:244). It does not hold: see README.
RemainingKeepsCursor ==
  [][DeleteWindow => point'[win'[cur'].buf] = win[IF cur = 1 THEN 2 ELSE cur - 1].point]_vars
=============================================================================
