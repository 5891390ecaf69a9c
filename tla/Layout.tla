-------------------------------- MODULE Layout --------------------------------
(***************************************************************************)
(* The rows a text is cut into (src/display.c): the functions that find    *)
(* the start of a row or of the next one, and the loop that paints.  The   *)
(* two cut the text independently of each other, and must agree.           *)
(*                                                                         *)
(* A document d has its text, whether the gap is at its front (lnstart     *)
(* sees it), and whether its rows are wrapped at words.  An offset counts  *)
(* bytes from 0.                                                           *)
(***************************************************************************)
EXTENDS Integers, Sequences, FiniteSets
LOCAL INSTANCE FiniteSetsExt

CONSTANTS
  Cols,                 \* columns of the screen
  TabStop               \* distance of the tab stops: 8 in the code

Bytes == {"a", "(", ")", " ", "tab", "nl", "cr", "ctl", "hi", "lo"}   \* hi lo: one character

ASSUME LayoutSizes == /\ Cols \in Nat \ {0, 1} /\ TabStop \in Nat \ {0}

None == 0 - 1           \* NOMARK, NOPAREN

Size(d) == Len(d.text)
Byte(d, p) == d.text[p + 1]
Utf8Size(b) == IF b = "hi" THEN 2 ELSE 1
ToTab(j) == TabStop - (j % TabStop)

-----------------------------------------------------------------------------
(* The wrap hook: bytes of the visual row that the text s begins with.     *)
NewlineAt(s, q) == q < Len(s) /\ s[q + 1] = "nl"

PastNewline(s, stop) ==
  CASE NewlineAt(s, stop) -> stop + 1
    [] stop < Len(s) /\ s[stop + 1] = "cr" /\ NewlineAt(s, stop + 1) -> stop + 2
    [] OTHER -> stop

HangBlanks(s, p) ==
  PastNewline(s, Min({q \in p..Len(s) : q = Len(s) \/ s[q + 1] \notin {"tab", " "}}))

BreakInWord(s, p) == p                                                  \* mutant

Width(b, j) == CASE b = "cr" -> 0 [] b = "tab" -> ToTab(j) [] b = "ctl" -> 2 [] OTHER -> 1

WrapEnd(s) ==
  LET Row[p \in Nat, column \in Nat, boundary \in Nat] ==
        LET b == s[p + 1]
            Cut(next) == IF boundary # 0 THEN boundary ELSE IF p > 0 THEN p ELSE next
            Past(next, width) ==
              IF column + width > Cols
              THEN IF p > 0 /\ b \in {"tab", " "} THEN HangBlanks(s, p) ELSE Cut(next)
              ELSE Row[next, column + width, IF b \in {"tab", " "} THEN next ELSE boundary]
        IN  CASE p >= Len(s) -> p
              [] p < Len(s) /\ b = "nl" -> p + 1
              [] OTHER -> Past(Min({p + Utf8Size(b), Len(s)}), Width(b, column))
  IN  Row[0, 0, 0]

WrapRowEnd(d, start) ==
  IF start >= Size(d) THEN Size(d)
  ELSE start + WrapEnd(SubSeq(d.text, start + 1, Min({Size(d), start + 4 * Cols + 4})))

-----------------------------------------------------------------------------
(* Finding rows.                                                           *)

LnStart(d, off) ==
  LET lowest == IF d.front THEN 0 ELSE 1      \* b_buf < p stops at the first byte
      ends == {p \in lowest..(off - 1) : Byte(d, p) = "nl"}
  IN  IF ends = {} THEN 0 ELSE Max(ends) + 1

NaiveWidth(b, c) == IF b = "tab" THEN ToTab(c) ELSE 1

SegStartPastEnd(d, start, finish) ==                                    \* mutant
  LET Wrapped[s \in Nat] ==
        LET next == WrapRowEnd(d, s) IN IF next <= s \/ next > finish THEN s ELSE Wrapped[next]
  IN  IF d.wrap THEN Wrapped[start] ELSE Max({start, finish - ((finish - start) % Cols)})

(* The row from s to next is the one with finish.                          *)
RowHolds(d, s, next, finish) ==
  \/ next <= s \/ next > finish
  \/ next = finish /\ finish = Size(d) /\ finish > 0 /\ Byte(d, finish - 1) # "nl"

SegStart(d, start, finish) ==
  LET Wrapped[s \in Nat] ==
        LET On(next) == IF RowHolds(d, s, next, finish) THEN s ELSE Wrapped[next]
        IN  On(WrapRowEnd(d, s))
      Cut[p \in Nat, c \in Nat, s \in Nat] ==
        IF p >= finish THEN IF c < Cols THEN s ELSE finish
        ELSE LET full == Byte(d, p) # "nl" /\ Cols <= c
                 c0 == IF Byte(d, p) = "nl" \/ full THEN 0 ELSE c
             IN  Cut[p + 1, c0 + NaiveWidth(Byte(d, p), c0),
                     IF Byte(d, p) = "nl" THEN p + 1 ELSE IF full THEN p ELSE s]
  IN  IF d.wrap THEN Wrapped[start] ELSE Cut[start, 0, start]

RowEndFrom(d, seg) ==
  LET Scan[p \in Nat, c \in Nat] ==
        IF p >= Size(d) \/ Cols <= c THEN p
        ELSE IF Byte(d, p) = "nl" THEN p + 1
        ELSE Scan[p + 1, c + NaiveWidth(Byte(d, p), c)]
  IN  IF d.wrap THEN WrapRowEnd(d, seg) ELSE Scan[seg, 0]

SegNext(d, start, finish) == RowEndFrom(d, SegStart(d, start, finish))

(* The row above the one at seg, of the line at curr.                      *)
RowAbove(d, curr, seg) ==
  LET end == Max({curr, seg}) - 1
  IN  SegStart(d, IF curr < seg THEN curr ELSE LnStart(d, end), end)

UpUp(d, off) ==
  LET curr == LnStart(d, off) IN RowAbove(d, curr, SegStart(d, curr, off))

DnDn(d, off) == SegNext(d, LnStart(d, off), off)

UpBy(d, off, n) == LET Up[k \in Nat] == IF k = 0 THEN off ELSE UpUp(d, Up[k - 1]) IN Up[n]

(* lncolumn(): the offset of a column of the row at off.                   *)
LnColumn(d, off, column) ==
  LET end == WrapRowEnd(d, off)
      Visual[p \in Nat, c \in Nat] ==
        IF p >= end \/ Byte(d, p) = "nl" \/ c >= column THEN p
        ELSE LET q == p + Utf8Size(Byte(d, p))
             IN  IF q = end /\ end < Size(d) /\ Byte(d, p) # "cr" THEN p
                 ELSE Visual[q, c + Width(Byte(d, p), c)]
      Plain[p \in Nat, c \in Nat] ==
        IF p >= Size(d) \/ Byte(d, p) = "nl" \/ c >= column THEN p
        ELSE Plain[p + 1, c + NaiveWidth(Byte(d, p), c)]
  IN  IF d.wrap THEN Visual[off, 0] ELSE Plain[off, 0]

-----------------------------------------------------------------------------
(* Painting: the offsets display() comes to from page, each with the row   *)
(* and the column it has there, in rows 0 to rows; the last is b_epage.    *)

(* Where a cell ends that a character at column j begins, and its bytes.   *)
After(d, p, j) ==
  LET b == Byte(d, p)
  IN  CASE d.wrap /\ (b = "nl" \/ j >= Cols) -> j
        [] b = "cr" -> j
        [] OTHER -> LET k == j + (IF b = "nl" THEN 1 ELSE Width(b, j))
                    IN  IF d.wrap THEN Min({k, Cols}) ELSE k

BytesAt(d, p) == Utf8Size(Byte(d, p))

PaintOn(d, e, k, end) ==                \* k: where the cell at e ends
  LET next == e + BytesAt(d, e)
      newline == Byte(d, e) = "nl"
  IN  IF d.wrap
      THEN IF next >= end /\ (next < Size(d) \/ newline)
           THEN [at |-> next, down |-> 1, col |-> 0, end |-> WrapRowEnd(d, next)]
           ELSE [at |-> next, down |-> 0, col |-> k, end |-> end]
      ELSE IF newline \/ Cols <= k
           THEN [at |-> next, down |-> 1, col |-> IF k < Cols THEN 0 ELSE k - Cols, end |-> end]
           ELSE [at |-> next, down |-> 0, col |-> k, end |-> end]

Paint(d, page, rows) ==
  LET Go[e \in Nat, i \in Nat, j \in Nat, end \in Nat] ==
        LET On(n) == Go[n.at, i + n.down, n.col, n.end]
        IN  {[at |-> e, row |-> i, col |-> IF d.wrap /\ j >= Cols THEN Cols - 1 ELSE j]}
              \cup IF i >= rows \/ e >= Size(d) THEN {} ELSE On(PaintOn(d, e, After(d, e, j), end))
  IN  Go[page, 0, 0, WrapRowEnd(d, page)]

PageEnd(cells) == Max({c.at : c \in cells})

(* The whole text painted from its start: what a reader takes its rows for.*)
AllCells(d) == Paint(d, 0, 2 * Size(d) + 2)
RowStarts(cells) == {c.at : c \in {x \in cells : ~\E y \in cells : y.row = x.row /\ y.at < x.at}}
=============================================================================
