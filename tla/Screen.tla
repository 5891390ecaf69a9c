-------------------------------- MODULE Screen --------------------------------
(***************************************************************************)
(* What the selected window shows (src/display.c) and the commands that    *)
(* move in it (src/command.c), by key and by mouse.  Every action is a     *)
(* command as editor_dispatch_key() runs it, with the display() that is    *)
(* made before the next key.                                               *)
(*                                                                         *)
(* One window, at the top of the screen, on one buffer: other windows are  *)
(* the modules Windows and Cursors, the bytes of the store is GapBuffer.   *)
(* Faces, messages and the pieces of the mode line are left out.           *)
(***************************************************************************)
EXTENDS Layout
LOCAL INSTANCE FiniteSetsExt

CONSTANTS
  Files,                \* the documents there are at the start
  Inserts,              \* what a key or a command may insert
  RowCounts,            \* bound: heights of the window
  Buttons,              \* columns of the mode line that are buttons
  WheelRows,            \* WHEEL_ROWS
  Cells,                \* bound: cells <<row, column>> a mouse button is pressed or dragged to
  MaxEvents,            \* bound: edits, resizes and presses of a mouse button
  Extras                \* which of the steps named in ExtraSteps are taken

ExtraSteps == {"bottom", "held", "word", "first"}

ASSUME ScreenSizes ==
  /\ {d.text : d \in Files} \cup Inserts \subseteq Seq(Bytes) /\ RowCounts \subseteq Nat \ {0}
  /\ Cells \subseteq Nat \X (0..(Cols - 1))
  /\ Buttons \subseteq 0..(Cols - 1) /\ {WheelRows, MaxEvents} \subseteq Nat
  /\ Extras \subseteq ExtraSteps

VARIABLES
  doc,                  \* the text, as Layout has it
  rows,                 \* w_rows
  point, page, epage,   \* b_point, b_page, b_epage
  cursor,               \* b_row and b_col
  paren,                \* b_paren_at and b_paren
  mark, active,         \* b_mark, mark_active
  mouse,                \* mouse_dragging, mouse_moved, mouse_old_mark, menu_down_index
  events                \* edits, resizes and presses so far

vars == <<doc, rows, point, page, epage, cursor, paren, mark, active, mouse, events>>

Space == {" ", "tab", "nl", "cr"}                                       \* isspace()

-----------------------------------------------------------------------------
(* display(): the page is moved until it shows point.                      *)
FrameAt(d, n, below) ==
  LET past == Size(d) <= below IN UpBy(d, IF past THEN Size(d) ELSE below, IF past THEN n - 1 ELSE n)

Frame(d, n, v) ==
  LET Above(wrapped) == IF v.point < wrapped THEN SegStart(d, LnStart(d, v.point), v.point) ELSE wrapped
  IN  IF v.point < v.epage
      THEN Above(IF d.wrap THEN SegStart(d, LnStart(d, v.page), v.page) ELSE v.page)
      ELSE FrameAt(d, n, DnDn(d, v.point))

Painted(v, p, cells) ==
  LET here == {c \in cells : c.at = v.point}
  IN  [v EXCEPT !.page = p, !.epage = PageEnd(cells), !.found = here # {},
                !.cursor = IF here = {} THEN v.cursor
                           ELSE LET c == CHOOSE c \in here : TRUE IN <<c.row, c.col>>]

PaintedFrom(d, n, v, p) == Painted(v, p, Paint(d, p, n))

ShownBy(d, n, v) == PaintedFrom(d, n, v, Frame(d, n, v))

ShownOnce(d, n, v) == ShownBy(d, n, v)                                  \* mutant

ShownAgain(d, n, v, first) ==
  IF first.found THEN first ELSE ShownBy(d, n, [first EXCEPT !.epage = v.point])

Shown(d, n, v) == ShownAgain(d, n, v, ShownBy(d, n, v))

View == [point |-> point, page |-> page, epage |-> epage, cursor |-> cursor, found |-> TRUE]

Twice(d, n, v) == Shown(d, n, Shown(d, n, v))

-----------------------------------------------------------------------------
(* match_parens().                                                         *)

Count(d, b, from, to) == Cardinality({p \in from..to : Byte(d, p) = b})

Balanced(d, from, to) == Count(d, "(", from, to) = Count(d, ")", from, to)

MatchForwards(d, at) ==
  LET ends == {p \in at..(Size(d) - 1) : Balanced(d, at, p)}
  IN  IF ends = {} THEN None ELSE Min(ends)

MatchBackwardsInside(d, at) ==                                          \* mutant
  LET starts == {p \in 1..at : Balanced(d, p, at)}
  IN  IF starts = {} THEN None ELSE Max(starts)

MatchBackwards(d, at) ==
  LET starts == {p \in 0..at : Balanced(d, p, at)}
  IN  IF starts = {} THEN None ELSE Max(starts)

MatchParens(d, p) ==
  LET before == IF p > 0 THEN Byte(d, p - 1) ELSE "none"
      at == IF p \in 0..(Size(d) - 1) THEN Byte(d, p) ELSE "none"
      pair == CASE before = ")" -> [at |-> p - 1, match |-> MatchBackwards(d, p - 1)]
                [] before # ")" /\ at = "(" -> [at |-> p, match |-> MatchForwards(d, p)]
                [] before # ")" /\ at = ")" -> [at |-> p, match |-> MatchBackwards(d, p)]
                [] OTHER -> [at |-> None, match |-> None]
  IN  IF pair.match = None THEN [at |-> None, match |-> None] ELSE pair

-----------------------------------------------------------------------------
(* Where a click is: window_position().                                    *)
WindowPositionOneColumn(r, column) ==                                   \* mutant
  LET row == Min({r, rows - 1})
      Walk[p \in Nat, i \in Nat, j \in Nat] ==
        IF p >= Size(doc) \/ i > row \/ (i = row /\ (column <= j \/ Byte(doc, p) = "nl")) THEN p
        ELSE LET k == j + 1
             IN  IF Byte(doc, p) = "nl" \/ Cols <= k THEN Walk[p + 1, i + 1, 0] ELSE Walk[p + 1, i, k]
  IN  Walk[page, 0, 0]

WindowPosition(r, column) ==
  LET row == Min({r, rows - 1})
      Down[p \in Nat, i \in Nat] ==
        IF i >= row \/ p >= Size(doc) THEN p
        ELSE LET next == WrapRowEnd(doc, p) IN IF next <= p THEN p ELSE Down[next, i + 1]
      Walk[p \in Nat, i \in Nat, j \in Nat] ==
        IF p >= Size(doc) THEN p
        ELSE LET b == Byte(doc, p)
                 k == j + (IF b \in {"nl", "cr"} THEN 1 ELSE Width(b, j))
             IN  IF i > row \/ (i = row /\ (column < k \/ b = "nl")) THEN p
                 ELSE IF b = "nl" \/ Cols <= k
                 THEN Walk[p + Utf8Size(b), i + 1, IF b = "nl" \/ k < Cols THEN 0 ELSE k - Cols]
                 ELSE Walk[p + Utf8Size(b), i, k]
  IN  IF doc.wrap THEN LnColumn(doc, Down[page, 0], column) ELSE Walk[page, 0, 0]

-----------------------------------------------------------------------------
(* A command leaves the text d and the view v; then parens are matched and *)
(* the window is painted.  Changing the size ends the selection.           *)
Becomes(d, n, v) ==
  \E s \in {Shown(d, n, v)} :
    /\ doc' = d /\ rows' = n
    /\ point' = s.point /\ page' = s.page /\ epage' = s.epage /\ cursor' = s.cursor
    /\ paren' = MatchParens(d, v.point)

Free == "held" \in Extras \/ (~mouse.drag /\ mouse.menu = None)

Keeps == UNCHANGED <<mark, active, mouse, events>>

GoTo(p) == /\ Free /\ Becomes(doc, rows, [View EXCEPT !.point = p]) /\ Keeps

Event == events < MaxEvents /\ events' = events + 1

-----------------------------------------------------------------------------
(* Moving by characters, rows, words and lines.                            *)

PrevSize(p) ==
  LET starts == {n \in 2..4 : p - n >= 0 /\ Utf8Size(Byte(doc, p - n)) = n}
  IN  IF starts = {} THEN 1 ELSE Min(starts)

LeftOf(p) == Max({0, p - PrevSize(p)})

Left == GoTo(LeftOf(point))

Right == point < Size(doc) /\ GoTo(Min({Size(doc), point + Utf8Size(Byte(doc, point))}))

UpFrom(p) == LnColumn(doc, UpUp(doc, p), cursor[2])
DownFrom(p) == LnColumn(doc, DnDn(doc, p), cursor[2])

Up == GoTo(UpFrom(point))
Down == GoTo(DownFrom(point))

RowBegin == SegStart(doc, LnStart(doc, point), point)
RowEnd ==
  LET next == DnDn(doc, point)
  IN  IF next < Size(doc) \/ (next > 0 /\ Byte(doc, next - 1) = "nl") THEN LeftOf(next) ELSE next

LnBegin == GoTo(RowBegin)
LnEnd == GoTo(RowEnd)

ForwardWord ==
  LET gap == Min({q \in point..Size(doc) : q = Size(doc) \/ Byte(doc, q) \in Space})
  IN  GoTo(Min({q \in gap..Size(doc) : q = Size(doc) \/ Byte(doc, q) \notin Space}))

(* The first test reads the byte at point, which at the end of the text is *)
(* one past the store, and with the gap in front goes on below the text.   *)
WordStart(p) ==
  LET lowest == IF doc.front THEN None ELSE 0
  IN  Max({q \in lowest..p : q = lowest \/ (q < Size(doc) /\ Byte(doc, q) \in Space)})
SpaceStart(p) ==
  LET lowest == IF doc.front THEN None ELSE 0
  IN  IF p = None THEN None
      ELSE Max({q \in lowest..p : q = lowest \/ (q < Size(doc) /\ Byte(doc, q) \notin Space)})

BackwardWord ==
  \E space \in IF point = Size(doc) THEN BOOLEAN ELSE {FALSE} :
    LET p == SpaceStart(IF space THEN point ELSE WordStart(point))
    IN  /\ (p >= 0 /\ (p < Size(doc) => Byte(doc, p) # "lo")) \/ "word" \in Extras
        /\ GoTo(p)

BeginningOfBuffer == GoTo(0)

EndOfBuffer == /\ Free
               /\ Becomes(doc, rows, [View EXCEPT !.point = Size(doc), !.epage = Size(doc)])
               /\ Keeps

GotoLine ==
  LET Starts == {0} \cup {p + 1 : p \in {q \in 0..(Size(doc) - 1) : Byte(doc, q) = "nl"}}
  IN  \E p \in Starts : GoTo(p)

-----------------------------------------------------------------------------
(* Moving by pages.                                                        *)

Repeated(f(_), p, n) == LET On[k \in Nat] == IF k = 0 THEN p ELSE f(On[k - 1]) IN On[n]

ForwardPage ==
  LET top == UpUp(doc, epage)
      down == IF cursor[1] < rows THEN cursor[1] ELSE 0
  IN  /\ Free
      /\ Becomes(doc, rows, [View EXCEPT !.page = top, !.epage = Size(doc),
                                         !.point = Repeated(DownFrom, top, down)])
      /\ Keeps

BackwardPage ==
  /\ Free
  /\ Becomes(doc, rows, [View EXCEPT !.page = UpBy(doc, page, rows - 1),
                                     !.point = Repeated(UpFrom, point, rows - 1)])
  /\ Keeps

Recenter ==
  LET p == UpBy(doc, SegStart(doc, LnStart(doc, point), point), rows \div 2)
  IN  /\ Free
      /\ Becomes(doc, rows, Shown(doc, rows, [View EXCEPT !.page = p]))
      /\ Keeps

(* One row down the text from p, if there is one.                          *)
NextRow(p) == LET n == DnDn(doc, p) IN IF n <= p \/ n >= Size(doc) THEN p ELSE n

ScrolledTo(down, n) == IF down THEN Repeated(NextRow, page, n) ELSE UpBy(doc, page, n)

ScrolledPoint(top) ==
  LET Held(last, after) == IF after > last /\ after < Size(doc) /\ point >= after THEN last ELSE point
      From(last) == Held(last, DnDn(doc, last))
  IN  IF point < top THEN top ELSE From(Repeated(NextRow, top, rows - 1))

Scroll(down) ==                         \* the wheel over the window
  /\ rows >= 2
  /\ \E top \in {ScrolledTo(down, Min({WheelRows, rows - 1}))} :
       Becomes(doc, rows, [View EXCEPT !.page = top, !.point = ScrolledPoint(top)])
  /\ Keeps

-----------------------------------------------------------------------------
(* Changing the text.  The gap is left where the change was.               *)

Replaced(from, to, s) ==
  [doc EXCEPT !.text = SubSeq(doc.text, 1, from) \o s \o SubSeq(doc.text, to + 1, Size(doc)),
              !.front = from + Len(s) = 0]

(* A newline in front of a line that may fill a row.                       *)
FirstLineEmpty(d) ==
  Size(d) > 1 /\ Byte(d, 0) = "nl" /\ \A p \in 1..Min({Size(d) - 1, Cols \div TabStop}) : Byte(d, p) # "nl"

Edits(from, to, s) ==
  LET d == Replaced(from, to, s)
      v == [View EXCEPT !.point = from + Len(s)]
  IN  /\ Free /\ Event
      /\ Shown(d, rows, v).cursor[1] < rows \/ "bottom" \in Extras
      /\ ~FirstLineEmpty(d) \/ "first" \in Extras
      /\ Becomes(d, rows, v)
      /\ active' = (active /\ Size(d) = Size(doc))
      /\ UNCHANGED <<mark, mouse>>

Insert(s) == Edits(point, point, s)                 \* insert(), insert_string()

Backspace ==
  LET n == PrevSize(point) IN Edits(IF n <= point THEN point - n ELSE point, point, <<>>)

Delete == Edits(point, IF point < Size(doc) THEN Min({Size(doc), point + Utf8Size(Byte(doc, point))})
                       ELSE point, <<>>)

Save == /\ Free /\ Becomes([doc EXCEPT !.front = TRUE], rows, View) /\ Keeps   \* movegap(bp, 0)

(* relayout_windows(): a window that gets shorter is reframed.             *)
Resize(n) ==
  /\ Event /\ n # rows
  /\ Becomes(doc, n, [View EXCEPT !.epage = IF n < rows THEN page ELSE epage])
  /\ UNCHANGED <<mark, active, mouse>>

-----------------------------------------------------------------------------
(* The mark and the mouse: editor_mouse_event().                           *)

SetMark ==
  LET off == mark = point /\ active
  IN  /\ Free /\ Event
      /\ Becomes(doc, rows, View)
      /\ mark' = (IF off THEN mark ELSE point) /\ active' = ~off
      /\ UNCHANGED mouse

Press(r, c) ==                          \* on the text
  LET p == WindowPosition(r, c)
  IN  /\ Event /\ r < rows /\ mouse.menu = None
      /\ Becomes(doc, rows, [View EXCEPT !.point = p])
      /\ mouse' = [mouse EXCEPT !.drag = TRUE, !.moved = FALSE, !.old = mark]
      /\ mark' = p /\ active' = FALSE

PressButton(c) ==                       \* on the mode line
  /\ Event /\ c \in Buttons /\ mouse.menu = None
  /\ Becomes(doc, rows, View)
  /\ mouse' = [mouse EXCEPT !.drag = FALSE, !.menu = c]
  /\ UNCHANGED <<mark, active>>

Drag(r, c) ==
  LET p == WindowPosition(r, c)
  IN  /\ mouse.drag /\ mouse.menu = None
      /\ Becomes(doc, rows, [View EXCEPT !.point = p])
      /\ mouse' = [mouse EXCEPT !.moved = TRUE]
      /\ active' = (mark # None /\ mark # p)
      /\ UNCHANGED <<mark, events>>

Release ==
  /\ mouse.drag /\ mouse.menu = None
  /\ Becomes(doc, rows, View)
  /\ mark' = (IF mouse.moved THEN mark ELSE mouse.old)
  /\ active' = (active /\ mouse.moved)
  /\ mouse' = [mouse EXCEPT !.drag = FALSE]
  /\ UNCHANGED events

ReleaseButton ==                        \* the button's command is another action
  /\ mouse.menu # None
  /\ Becomes(doc, rows, Twice(doc, rows, View))
  /\ mouse' = [mouse EXCEPT !.menu = None]
  /\ UNCHANGED <<mark, active, events>>

-----------------------------------------------------------------------------
Init ==
  /\ \E d \in Files, n \in RowCounts :
       LET s == Shown(d, n, [point |-> 0, page |-> 0, epage |-> 0, cursor |-> <<0, 0>>, found |-> TRUE])
       IN  /\ doc = d /\ rows = n
           /\ point = 0 /\ page = s.page /\ epage = s.epage /\ cursor = s.cursor
           /\ paren = MatchParens(d, 0)
  /\ mark = None /\ active = FALSE
  /\ mouse = [drag |-> FALSE, moved |-> FALSE, old |-> None, menu |-> None]
  /\ events = 0

Moves == Left \/ Right \/ Up \/ Down \/ LnBegin \/ LnEnd \/ ForwardWord \/ BackwardWord
           \/ BeginningOfBuffer \/ EndOfBuffer \/ GotoLine
Pages == ForwardPage \/ BackwardPage \/ Recenter \/ \E down \in BOOLEAN : Scroll(down)
Changes == (\E s \in Inserts : Insert(s)) \/ Backspace \/ Delete \/ Save
             \/ (\E n \in RowCounts : Resize(n)) \/ SetMark
Mouse == \/ \E x \in Cells : Press(x[1], x[2]) \/ Drag(x[1], x[2])
         \/ \E c \in Buttons : PressButton(c)
         \/ Release \/ ReleaseButton

Next == Moves \/ Pages \/ Changes \/ Mouse

Spec == Init /\ [][Next]_vars

-----------------------------------------------------------------------------
TypeOK ==
  /\ doc \in [text : Seq(Bytes), front : BOOLEAN, wrap : BOOLEAN]
  /\ rows \in RowCounts /\ {point, page, epage} \subseteq 0..Size(doc)
  /\ cursor \in Nat \X (0..Cols) /\ active \in BOOLEAN /\ events \in 0..MaxEvents

(* The cursor is in the window, at the cell where the character at point   *)
(* is painted ("point is always within b_page and b_epage", display.c:302; *)
(* "rather than put the cursor ... outside the window", :397).             *)
CursorShown ==
  /\ cursor[1] < rows
  /\ \E c \in Paint(doc, page, rows) : c.at = point /\ cursor = <<c.row, c.col>>

(* C-p and C-n go to the row painted above or below the cursor's, and C-a  *)
(* and C-e stay in it: the functions that find rows agree with the loop    *)
(* that paints them.  (Where the text ends, see RowEndStays.)              *)
RowMoves ==
  LET cells == AllCells(doc)
      row(p) == (CHOOSE c \in cells : c.at = p).row
      last == \A c \in cells : c.row <= row(point)
  IN  /\ row(UpFrom(point)) = Max({0, row(point) - 1})
      /\ row(DownFrom(point)) = IF last THEN row(point) ELSE row(point) + 1
      /\ row(RowBegin) = row(point) /\ RowBegin \in RowStarts(cells)
      /\ DnDn(doc, point) = Size(doc) \/ row(RowEnd) = row(point)

(* The end of a row is never before its start: C-e does not go up          *)
(* ("dndn() stops at the end of the buffer, which already is the end of    *)
(* the line", command.c:238).                                              *)
RowEndStays == RowBegin <= RowEnd

(* A click on a character's cell puts the cursor into that cell ("The walk *)
(* mirrors the painting loop in display()", display.c:864).                *)
ClickShows ==
  LET cells == Paint(doc, page, rows)
  IN  \A c \in {x \in cells : x.row < rows} :
        \E x \in cells : x.at = WindowPosition(c.row, c.col) /\ x.row = c.row /\ x.col = c.col

(* A paren shown with another closes what it opens: between the two every  *)
(* paren has its partner, and one that is not shown has none.              *)
ParensMatch ==
  LET Inner(p, q) == /\ Balanced(doc, p + 1, q - 1)
                     /\ \A k \in p..(q - 1) : Count(doc, ")", p + 1, k) <= Count(doc, "(", p + 1, k)
      Partner(p, q) == p < q /\ Byte(doc, p) = "(" /\ Byte(doc, q) = ")" /\ Inner(p, q)
      at(p, b) == p \in 0..(Size(doc) - 1) /\ Byte(doc, p) = b
  IN  IF paren.at # None
      THEN Partner(Min({paren.at, paren.match}), Max({paren.at, paren.match}))
      ELSE /\ at(point - 1, ")") => \A p \in 0..(point - 1) : ~Partner(p, point - 1)
           /\ at(point, "(") /\ ~at(point - 1, ")") => \A q \in point..(Size(doc) - 1) : ~Partner(point, q)
=============================================================================
