------------------------------- MODULE Windows -------------------------------
(***************************************************************************)
(* The buffers, the windows that show them, and the rows of the screen     *)
(* (src/buffer.c, src/window.c, and the popups of src/funcmap.c).          *)
(*                                                                         *)
(* Every action is one command.  What is in the buffers, and the cursors   *)
(* that windows keep, is in Cursors.                                       *)
(***************************************************************************)
EXTENDS Integers, SequencesExt

CONSTANTS
  Names,                \* buffer names, ordered as strcmp orders them
  Scratch,              \* *scratch*
  Help,                 \* *help*, or *lisp_output*: shown in a popup
  Completions,          \* *completions*, shown while M-x asks
  Heights,              \* the heights the screen may have
  MaxWindows,           \* bound: windows
  MaxLost               \* bound: windows dropped from the screen

\* w_top and w_rows are of type char: rows above 127 are not modelled
ASSUME WindowSizes ==
  /\ Names \subseteq Nat \ {0} /\ IsFiniteSet(Names)
  /\ {Scratch, Help, Completions} \subseteq Names /\ Help # Completions
  /\ Heights \subseteq 4..129 /\ Heights # {}
  /\ MaxWindows \in Nat \ {0} /\ MaxLost \in Nat

VARIABLES
  buf,                  \* [name -> buffer], the list from bheadp on
  win,                  \* the windows, from wheadp on, top to bottom
  cur,                  \* curwp, as an index of win
  curbp,                \* curbp, as a name: what the commands edit
  screen,               \* screen_rows()
  aborted               \* an assertion of window.c or buffer.c ended the editor

vars == <<buf, win, cur, curbp, screen, aborted>>

None == 0               \* NULL, of a w_hijack

\* b_cnt; and, as a history, how many of the windows counted in it
\* relayout_windows dropped
NewBuffer == [cnt |-> 0, lost |-> 0]

\* w_bufp, w_hijack, w_top, w_rows
NewWindow(b) == [buf |-> b, hijack |-> None, top |-> 0, rows |-> 0]

-----------------------------------------------------------------------------
(* Buffers and windows as a command finds them: a record [buf, win] that the *)
(* functions of the core turn into another.                                  *)

Now == [buf |-> buf, win |-> win]

FindBuffer(s, b) ==
  [s EXCEPT !.buf = [n \in DOMAIN @ \cup {b} |-> IF n \in DOMAIN @ THEN @[n] ELSE NewBuffer]]

Associate(s, b, i) == [s EXCEPT !.win[i].buf = b, !.buf[b].cnt = @ + 1]
Disassociate(s, i) == [s EXCEPT !.buf[s.win[i].buf].cnt = @ - 1]
Show(s, b, i) == Associate(Disassociate(s, i), b, i)

\* the command leaves window c of s selected, and b in curbp
Become(s, c, b) == buf' = s.buf /\ win' = s.win /\ cur' = c /\ curbp' = b

Init ==
  /\ screen \in Heights
  /\ win = <<[NewWindow(Scratch) EXCEPT !.rows = screen - 2]>>
  /\ buf = [b \in {Scratch} |-> [NewBuffer EXCEPT !.cnt = 1]]
  /\ cur = 1 /\ curbp = Scratch
  /\ aborted = FALSE

-----------------------------------------------------------------------------
(* Windows                                                                   *)

SplitWithoutModeLine(s, c) ==                                           \* mutant
  LET rows  == s.win[c].rows
      upper == rows \div 2
      new   == [NewWindow(s.win[c].buf) EXCEPT !.top = s.win[c].top + upper + 1, !.rows = rows - upper]
      t     == [s EXCEPT !.win = InsertAt([@ EXCEPT ![c].rows = upper], c + 1, new)]
  IN  Associate(t, new.buf, c + 1)

SplitWindow(s, c) ==
  LET rows  == s.win[c].rows
      upper == (rows - 1) \div 2
      lower == (rows - 1) - upper
      new   == [NewWindow(s.win[c].buf) EXCEPT !.top = s.win[c].top + upper + 1, !.rows = lower]
      t     == [s EXCEPT !.win = InsertAt([@ EXCEPT ![c].rows = upper], c + 1, new)]
  IN  Associate(t, new.buf, c + 1)

Split ==
  /\ win[cur].rows >= 3 /\ Len(win) < MaxWindows
  /\ Become(SplitWindow(Now, cur), cur, curbp)
  /\ UNCHANGED <<screen, aborted>>

\* other_window, which comes round to the only window, and select_screen_window
OtherWindow ==
  /\ \E i \in DOMAIN win :
       /\ i # cur \/ Len(win) = 1
       /\ Become(Now, i, win[i].buf)
  /\ UNCHANGED <<screen, aborted>>

\* free_other_windows, one_window
OnlyWindow(s, c) ==
  LET freed(b) == {i \in DOMAIN s.win \ {c} : s.win[i].buf = b}
  IN  [buf |-> [b \in DOMAIN s.buf |-> [s.buf[b] EXCEPT !.cnt = @ - Cardinality(freed(b))]],
       win |-> <<[s.win[c] EXCEPT !.top = 0, !.rows = screen - 2]>>]

DeleteOtherWindows ==
  /\ Len(win) > 1
  /\ Become(OnlyWindow(Now, cur), 1, curbp)
  /\ UNCHANGED <<screen, aborted>>

RestoredUncounted(s, i) ==                                              \* mutant
  IF s.win[i].hijack = None THEN s
  ELSE [Associate(s, s.win[i].hijack, i) EXCEPT !.win[i].hijack = None]

Restored(s, i) ==                                    \* restore_hijacked_window
  IF s.win[i].hijack = None THEN s
  ELSE [Show(s, s.win[i].hijack, i) EXCEPT !.win[i].hijack = None]

DeleteWindow ==
  /\ Len(win) > 1
  /\ LET heir  == IF cur = 1 THEN 2 ELSE cur - 1
         grown == [win EXCEPT ![heir].rows = @ + win[cur].rows + 1,
                              ![heir].top = IF cur = 1 THEN win[cur].top ELSE @]
         s     == Disassociate(Restored([buf |-> buf, win |-> grown], cur), cur)
     IN  Become([s EXCEPT !.win = RemoveAt(@, cur)], IF cur = 1 THEN 1 ELSE heir, win[heir].buf)
  /\ UNCHANGED <<screen, aborted>>

\* a line for window cur, from the one below or else the one above
EnlargeWindow ==
  /\ LET below == cur < Len(win) /\ win[cur + 1].rows > 1
         above == cur > 1 /\ win[cur - 1].rows > 1
         w     == IF below
                  THEN [win EXCEPT ![cur].rows = @ + 1, ![cur + 1].top = @ + 1, ![cur + 1].rows = @ - 1]
                  ELSE [win EXCEPT ![cur - 1].rows = @ - 1, ![cur].top = @ - 1, ![cur].rows = @ + 1]
     IN  /\ below \/ above
         /\ Become([buf |-> buf, win |-> w], cur, curbp)
  /\ UNCHANGED <<screen, aborted>>

RowsOf(ws) == FoldLeft(LAMBDA n, w : n + w.rows + 1, 0, ws)

\* each window keeps its share of avail rows, and the last gets what is left
Share(ws, k, avail, left) ==
  LET fair == IF k = Len(ws) THEN left ELSE ((ws[k].rows + 1) * avail) \div RowsOf(ws)
  IN  Min({Max({fair, 2}), left - 2 * (Len(ws) - k)})

Laid(ws, avail) ==
  LET used[k \in 0..Len(ws)] ==
        IF k = 0 THEN 0 ELSE used[k - 1] + Share(ws, k, avail, avail - used[k - 1])
  IN  [k \in DOMAIN ws |-> [ws[k] EXCEPT !.top = used[k - 1], !.rows = used[k] - used[k - 1] - 1]]

\* Of the windows that cannot have two rows each the last ones go, but never
\* the selected one; b_cnt of their buffers stays.
Resize == \E rows \in Heights :
  /\ screen' = rows
  /\ LET avail == rows - 1
         room  == Max({1, Min({Len(win), avail \div 2})})
         kept  == IF cur <= room THEN 1..room ELSE 1..(room - 1) \cup {cur}
         stay  == [i \in 1..room |-> win[IF i \in kept THEN i ELSE cur]]
         gone  == DOMAIN win \ kept
         bs    == [b \in DOMAIN buf |-> [buf[b] EXCEPT
                     !.lost = @ + Cardinality({i \in gone : win[i].buf = b})]]
     IN  /\ MapThenSumSet(LAMBDA b : bs[b].lost, DOMAIN bs) <= MaxLost
         /\ Become([buf |-> bs, win |-> Laid(stay, avail)], Min({cur, room}), curbp)
  /\ UNCHANGED aborted

-----------------------------------------------------------------------------
(* Buffers                                                                   *)

\* C-x b, C-x C-f, C-x C-b
SelectBuffer == \E b \in Names :
  /\ Become(Show(FindBuffer(Now, b), b, cur), cur, b)
  /\ UNCHANGED <<screen, aborted>>

NextOrSame(bs, b) == LET later == {n \in bs : n > b} IN IF later # {} THEN Min(later) ELSE b  \* mutant
NextOf(bs, b) == LET later == {n \in bs : n > b} IN IF later # {} THEN Min(later) ELSE Min(bs)
PreviousOf(bs, b) == LET earlier == {n \in bs : n < b} IN IF earlier # {} THEN Max(earlier) ELSE Max(bs)

\* next_buffer in s: in the window, whatever it shows, the buffer after curbp
Following(s) == NextOf(DOMAIN s.buf, curbp)
GivenWay(s) == Show(s, Following(s), cur)

NextBuffer ==
  /\ Become(GivenWay(Now), cur, Following(Now))
  /\ UNCHANGED <<screen, aborted>>

PreviousBuffer ==
  /\ DOMAIN buf # {curbp}
  /\ LET b == PreviousOf(DOMAIN buf, curbp) IN Become(Show(Now, b, cur), cur, b)
  /\ UNCHANGED <<screen, aborted>>

\* delete_buffer: the windows are not asked
Without(s, b) == [s EXCEPT !.buf = [n \in DOMAIN @ \ {b} |-> @[n]]]

KillBuffer ==                                                  \* killbuffer
  /\ DOMAIN buf # {Scratch}
  /\ LET s == IF DOMAIN buf = {curbp} THEN FindBuffer(Now, Scratch) ELSE Now
     IN  Become(Without(GivenWay(s), curbp), cur, Following(s))
  /\ UNCHANGED <<screen, aborted>>

\* (kill-buffer name).  With one buffer left it is *scratch* that goes, made
\* for the purpose or not.
DeleteBufferByName == \E name \in DOMAIN buf :
  LET gone == IF DOMAIN buf = {name} THEN Scratch ELSE name
      s    == FindBuffer(Now, gone)
  IN  /\ aborted' = (gone = curbp /\ Following(s) = gone)
      /\ IF aborted' THEN UNCHANGED <<buf, win, cur, curbp>>
         ELSE IF gone = curbp THEN Become(Without(GivenWay(s), gone), cur, Following(s))
         ELSE Become(Without(s, gone), cur, curbp)
      /\ UNCHANGED screen

-----------------------------------------------------------------------------
(* Popups                                                                    *)

\* popup_window: what it does when no window shows b and there are others,
\* for window i that it takes over
Hijacked(s, b, i) ==
  [Show(s, b, i) EXCEPT !.win[i].hijack = s.win[i].buf]

Victim(c) == IF c = 1 THEN 2 ELSE 1

\* [state, selected window, curbp] after popup_window
PopupWindow(s, b) ==
  IF \E i \in DOMAIN s.win : s.win[i].buf = b THEN [state |-> s, at |-> cur, current |-> curbp]
  ELSE IF Len(s.win) > 1 THEN [state |-> Hijacked(s, b, Victim(cur)), at |-> cur, current |-> curbp]
  ELSE LET t == Show(SplitWindow(s, 1), b, 1) IN [state |-> t, at |-> 2, current |-> t.win[2].buf]

\* its assertions: a window to split, and none taken over twice
CanPopUp(b) ==
  \/ \E i \in DOMAIN win : win[i].buf = b
  \/ IF Len(win) = 1 THEN win[1].rows >= 3 ELSE win[Victim(cur)].hijack = None

PopUp ==                                    \* list_bindings, apropos, repl
  /\ Len(win) = 1 => 2 <= MaxWindows
  /\ aborted' = ~CanPopUp(Help)
  /\ LET p == PopupWindow(FindBuffer(Now, Help), Help)
     IN  IF aborted' THEN UNCHANGED <<buf, win, cur, curbp>> ELSE Become(p.state, p.at, p.current)
  /\ UNCHANGED screen

\* M-x with TAB TAB: the candidates in a window while it asks, which is then
\* given back, or deleted as the other one.  restore_hijacked_window does not
\* set curbp, not even when it gives back the selected window.
ExecuteCommand ==
  /\ Len(win) = 1 => 2 <= MaxWindows
  /\ aborted' = ~CanPopUp(Completions)
  /\ LET p  == PopupWindow(FindBuffer(Now, Completions), Completions)
         at == Min({i \in DOMAIN p.state.win : p.state.win[i].buf = Completions})
     IN  IF aborted' THEN UNCHANGED <<buf, win, cur, curbp>>
         ELSE IF p.state.win[at].hijack # None THEN Become(Restored(p.state, at), p.at, p.current)
         ELSE IF Len(p.state.win) = 2 THEN Become(OnlyWindow(p.state, p.at), 1, p.current)
         ELSE Become(p.state, p.at, p.current)
  /\ UNCHANGED screen

\* A window shows, or is to get back, a buffer that was freed.  What a command
\* does then is undefined, and not modelled.
Dangles(bs, ws) ==
  \E i \in DOMAIN ws : ws[i].buf \notin DOMAIN bs \/ ws[i].hijack \notin DOMAIN bs \cup {None}

Next ==
  /\ ~aborted /\ ~Dangles(buf, win)
  /\ \/ Split \/ OtherWindow \/ DeleteOtherWindows \/ DeleteWindow \/ EnlargeWindow
     \/ Resize \/ SelectBuffer \/ NextBuffer \/ PreviousBuffer \/ KillBuffer \/ DeleteBufferByName
     \/ PopUp \/ ExecuteCommand

Spec == Init /\ [][Next]_vars

-----------------------------------------------------------------------------
(* Properties                                                                *)

TypeOK ==
  /\ DOMAIN buf \subseteq Names /\ buf \in [DOMAIN buf -> [cnt : Nat, lost : Nat]]
  /\ win \in Seq([buf : Names, hijack : Names \cup {None}, top : Nat, rows : Nat \ {0}])
  /\ cur \in DOMAIN win /\ curbp \in Names /\ screen \in Heights /\ aborted \in BOOLEAN

\* b_cnt of a buffer is the number of windows that show it, and of those that
\* relayout_windows dropped without disassociate_b (buffer.c, window.c).
CountsHonest == \A b \in DOMAIN buf :
  buf[b].cnt = Cardinality({i \in DOMAIN win : win[i].buf = b}) + buf[b].lost

\* The buffer of the selected window stops being curbp only when M-x gives
\* back a window that is both selected and taken over.
CurrentStep ==
  curbp = win[cur].buf /\ curbp' # win'[cur'].buf =>
    cur' = cur /\ win[cur].buf = Completions /\ win[cur].hijack = win'[cur].buf

\* A link of a window is lost only when a buffer is killed to which a window
\* leads otherwise than by selecting it: another window's buffer, one that a
\* window is to get back, or the selected window's when curbp is another.
LinkStep ==
  Dangles(buf', win') => \E b \in DOMAIN buf \ DOMAIN buf' :
    \E i \in DOMAIN win : win[i].hijack = b \/ (win[i].buf = b /\ (i # cur \/ curbp # b))

\* The links between windows, buffers and curbp (killbuffer,
\* delete_buffer_byname, execute_command) go wrong in no other way.
LinksKept == [][CurrentStep /\ LinkStep /\ curbp' \in DOMAIN buf']_vars

\* Not so, as LinksKept says: curbp is always the buffer of the selected
\* window, and no window leads to a buffer that was freed.
SelectedIsCurrent == curbp = win[cur].buf
NothingDangles == ~Dangles(buf, win)

\* The windows and their mode lines fill the screen but for the message line,
\* from the top, without a gap and without an overlap.
Tiled ==
  /\ TypeOK
  /\ RowsOf(win) = screen - 1
  /\ \A i \in DOMAIN win : win[i].top = RowsOf(SubSeq(win, 1, i - 1))

\* Not so either: no assertion of popup_window or delete_buffer_byname fails.
NoAssertionFails == ~aborted
=============================================================================
