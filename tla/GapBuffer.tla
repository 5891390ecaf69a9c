------------------------------ MODULE GapBuffer ------------------------------
(***************************************************************************)
(* The text of one buffer as the C core keeps it: a store with a gap in it *)
(* (src/gap.c), and every function that changes it, by keyboard, by script *)
(* or by query-replace.                                                    *)
(*                                                                         *)
(* Positions count from 0.  A position of the text and an index of the     *)
(* store differ by the gap: Index is ptr(), Position is pos().  The cells  *)
(* of the gap hold Junk, as do the cells past the end of the store when    *)
(* they are read.  A line fits its screen row.  The read-only test, which  *)
(* makes a function do nothing at all, and the flag B_MODIFIED are in      *)
(* UndoHistory.                                                            *)
(***************************************************************************)
EXTENDS Integers, SequencesExt

CONSTANTS
  Newline, Lead, Cont,  \* a newline; the first and second byte of a character
  Return,               \* the key '\r'
  Junk,                 \* what is read outside the text
  MinGap,               \* MIN_GAP_EXPAND
  Chunk,                \* CHUNK
  MaxStore,             \* MAX_SIZE_T, beyond which growgap fails
  MaxText,              \* bound: bytes in the text, and a mark left after it
  MaxInsert,            \* bound: bytes one call inserts
  Extras                \* which of the steps named in ExtraSteps are taken

ExtraSteps == {"stale mark", "malformed text", "replace over gap", "replace without memory"}

ASSUME SizesAreNat ==
  /\ {MinGap, Chunk} \subseteq Nat \ {0}
  /\ {MaxStore, MaxText, MaxInsert} \subseteq Nat
  /\ Extras \subseteq ExtraSteps

\* the bytes of a character in UTF-8: 110xxxxx, then 10xxxxxx
ASSUME BytesDiffer == Lead # Cont

VARIABLES
  buf,                  \* [store, cap, gap, egap]: b_buf, b_ebuf, b_gap, b_egap
  point,                \* b_point
  mark,                 \* b_mark, NoMark when there is none
  overwrite,            \* B_OVERWRITE
  reported              \* what the last step reported to record_change

vars == <<buf, point, mark, overwrite, reported>>

NoMark == -1
Bytes == {Newline, Lead, Cont}
Strings(n) == UNION {[1..k -> Bytes] : k \in 0..n}
Bigger(m, n) == IF m < n THEN n ELSE m

-----------------------------------------------------------------------------
(* The store                                                                 *)

Room(b) == b.egap - b.gap
Size(b) == b.cap - Room(b)                                  \* document_size
Index(b, p) == IF p < b.gap THEN p ELSE p + Room(b)         \* ptr
Position(b, i) == IF i < b.egap THEN i ELSE i - Room(b)     \* pos

Cell(b, i) == IF i \in 0..(b.cap - 1) THEN b.store[i] ELSE Junk
ByteAt(b, p) == Cell(b, Index(b, p))
TextOf(b) == [k \in 1..Size(b) |-> ByteAt(b, k - 1)]

(* What is in the gap is not kept.                                           *)
Scrub(b) ==
  [b EXCEPT !.store = [i \in DOMAIN @ |-> IF b.gap <= i /\ i < b.egap THEN Junk ELSE @[i]]]

(* movegap: the bytes between the gap and position p go to its other side,   *)
(* up when the gap moves down and down when it moves up.                     *)
ShiftedOneShort(b, p) ==                                                    \* mutant
  [i \in DOMAIN b.store |->
     CASE p + Room(b) < i /\ i < b.egap -> b.store[i - Room(b)]
       [] b.gap <= i /\ i < p -> b.store[i + Room(b)]
       [] OTHER -> b.store[i]]
Shifted(b, p) ==
  [i \in DOMAIN b.store |->
     CASE p + Room(b) <= i /\ i < b.egap -> b.store[i - Room(b)]
       [] b.gap <= i /\ i < p -> b.store[i + Room(b)]
       [] OTHER -> b.store[i]]
MoveGap(b, p) ==
  Scrub([store |-> Shifted(b, p), cap |-> b.cap, gap |-> p, egap |-> p + Room(b)])

(* growgap: the gap grows by n bytes, or by the least amount.  No result when *)
(* the store would be too large.                                              *)
GrowGap(b, n) ==
  LET more == Bigger(n, MinGap)
  IN  IF b.cap + more > MaxStore THEN {}
      ELSE {[store |-> [i \in 0..(b.cap + more - 1) |->
                          CASE i < b.gap -> b.store[i]
                            [] i >= b.egap + more -> b.store[i - more]
                            [] OTHER -> Junk],
             cap |-> b.cap + more, gap |-> b.gap, egap |-> b.egap + more]}

NoMoreRoom(b, enough, n) == {b}                                             \* mutant
WithRoom(b, enough, n) == IF enough THEN {b} ELSE GrowGap(b, n)

(* The bytes of s are written from index i on, wherever the gap is.          *)
Write(b, i, s) ==
  [b EXCEPT !.store = [j \in DOMAIN @ |-> IF i <= j /\ j < i + Len(s) THEN s[j - i + 1] ELSE @[j]]]
Fill(b, s) == [Write(b, b.gap, s) EXCEPT !.gap = @ + Len(s)]
DropBefore(b, n) == Scrub([b EXCEPT !.gap = @ - n])
DropAfter(b, n) == Scrub([b EXCEPT !.egap = @ + n])
After(b, n) == [k \in 1..n |-> Cell(b, b.egap + k - 1)]
BeforeOff(b, n) == [k \in 1..n |-> Cell(b, b.gap - n + k)]                   \* mutant
Before(b, n) == [k \in 1..n |-> Cell(b, b.gap - n + k - 1)]

-----------------------------------------------------------------------------
(* Characters and lines                                                      *)

Utf8Size(c) == IF c = Lead THEN 2 ELSE 1

(* The size of the character before p: a lead byte 2, 3 or 4 bytes back that *)
(* starts a character of just that size.                                     *)
PrevSizeAfterFirst(b, p) ==                                                 \* mutant
  IF \E n \in 2..4 : p - n > 0 /\ Utf8Size(ByteAt(b, p - n)) = n
  THEN CHOOSE n \in 2..4 : p - n > 0 /\ Utf8Size(ByteAt(b, p - n)) = n ELSE 1
PrevUtf8CharSize(b, p) ==
  IF \E n \in 2..4 : p - n >= 0 /\ Utf8Size(ByteAt(b, p - n)) = n
  THEN CHOOSE n \in 2..4 : p - n >= 0 /\ Utf8Size(ByteAt(b, p - n)) = n ELSE 1

LeftUnbounded(b, p) == p - PrevUtf8CharSize(b, p)                           \* mutant
LeftOf(b, p) == Bigger(p - PrevUtf8CharSize(b, p), 0)
RightOf(b, p) ==
  IF p + Utf8Size(ByteAt(b, p)) < Size(b) THEN p + Utf8Size(ByteAt(b, p)) ELSE Size(b)

(* dndn: the start of the next line, or the end of the text.  One position.  *)
NextLine(b, p) ==
  {q \in p..Size(b) :
     /\ \A r \in p..(q - 2) : ByteAt(b, r) # Newline
     /\ q = Size(b) \/ (q > p /\ ByteAt(b, q - 1) = Newline)}

(* lnend: before the newline, if one ends the line.  From the end of a text  *)
(* that a newline ends, this goes back before that newline.                  *)
LineEnd(b, p) ==
  {IF next < Size(b) \/ (next > 0 /\ ByteAt(b, next - 1) = Newline)
   THEN LeftOf(b, next) ELSE next : next \in NextLine(b, p)}

-----------------------------------------------------------------------------
(* Reports                                                                   *)

Report(kind, p, s) == IF s = <<>> THEN <<>> ELSE <<[kind |-> kind, pos |-> p, text |-> s]>>
Reset == <<[kind |-> "reset", pos |-> 0, text |-> <<>>]>>

Applied(t, c) ==
  IF c.kind = "insert"
  THEN SubSeq(t, 1, c.pos) \o c.text \o SubSeq(t, c.pos + 1, Len(t))
  ELSE SubSeq(t, 1, c.pos) \o SubSeq(t, c.pos + Len(c.text) + 1, Len(t))
Reverted(t, c) ==
  Applied(t, [c EXCEPT !.kind = IF @ = "insert" THEN "delete" ELSE "insert"])

-----------------------------------------------------------------------------
(* find_buffer: a new buffer is empty, and has a gap.                        *)
Init ==
  /\ buf = [store |-> [i \in 0..(MinGap - 1) |-> Junk], cap |-> MinGap, gap |-> 0, egap |-> MinGap]
  /\ point = 0
  /\ mark = NoMark
  /\ overwrite = FALSE
  /\ reported = <<>>

Fits(n) == Size(buf) + n <= MaxText

(* A typed byte.  In overwrite mode it replaces one that does not end a line *)
(* or the text; a Return never does.                                         *)
TypedByte(key) == IF key = Return THEN Newline ELSE key

Insert ==
  /\ Fits(1)
  /\ \E key \in Bytes \cup {Return}, room \in WithRoom(buf, Room(buf) > 0, Chunk) :
       LET b == MoveGap(room, point)
           replaces == /\ overwrite /\ key # Return
                       /\ ByteAt(b, point) # Newline /\ point < Size(b)
       IN  \/ /\ replaces
              /\ buf' = Write(b, Index(b, point), <<key>>)
              /\ reported' = Report("delete", point, <<ByteAt(b, point)>>) \o Report("insert", point, <<key>>)
              /\ point' = point + 1
           \/ /\ ~replaces
              /\ buf' = Fill(b, <<TypedByte(key)>>)
              /\ reported' = Report("insert", point, <<TypedByte(key)>>)
              /\ point' = Position(buf', buf'.egap)
  /\ UNCHANGED <<mark, overwrite>>

(* DEL.  How much to delete is read before the gap moves.                    *)
Backspace ==
  /\ LET n == PrevUtf8CharSize(buf, point)
         b == MoveGap(buf, point)
     IN  IF b.gap - (n - 1) > 0
         THEN /\ buf' = DropBefore(b, n)
              /\ point' = Position(buf', buf'.egap)
              /\ reported' = Report("delete", point', Before(b, n))
         ELSE /\ buf' = b
              /\ reported' = <<>>
              /\ UNCHANGED point
  /\ UNCHANGED <<mark, overwrite>>

(* C-d.  A character may claim more bytes than are left: what is after the   *)
(* store is then dropped with it.                                            *)
DropChar ==
  LET b == MoveGap(buf, point)
      n == Utf8Size(ByteAt(b, point))
  IN  IF b.egap < b.cap
      THEN /\ b.egap + n <= b.cap \/ "malformed text" \in Extras
           /\ buf' = DropAfter(b, n)
           /\ point' = Position(buf', buf'.egap)
           /\ reported' = Report("delete", point', After(b, n))
      ELSE /\ buf' = b
           /\ reported' = <<>>
           /\ UNCHANGED point

Delete == DropChar /\ UNCHANGED <<mark, overwrite>>

(* A yank, or text from a script: there is no room for it when it would fill *)
(* the gap, and none at all in overwrite mode.                               *)
InsertString ==
  /\ ~overwrite
  /\ \E s \in Strings(MaxInsert) \ {<<>>} :
       /\ Fits(Len(s))
       /\ \E room \in WithRoom(buf, Len(s) < Room(buf), Len(s)) :
            /\ buf' = Fill(MoveGap(room, point), s)
            /\ reported' = Report("insert", point, s)
  /\ point' = Position(buf', buf'.egap)
  /\ UNCHANGED <<mark, overwrite>>

(* A program's output goes to the end of its buffer, and so does the cursor, *)
(* even when there is no room.                                               *)
AppendString ==
  /\ \E s \in Strings(MaxInsert) \ {<<>>} :
       /\ Fits(Len(s))
       /\ \/ \E room \in WithRoom(buf, Len(s) < Room(buf), Len(s)) :
               /\ buf' = Fill(MoveGap(room, Size(buf)), s)
               /\ reported' = Report("insert", Size(buf), s)
          \/ /\ WithRoom(buf, Len(s) < Room(buf), Len(s)) = {}
             /\ reported' = <<>>
             /\ UNCHANGED buf
  /\ point' = Size(buf')
  /\ UNCHANGED <<mark, overwrite>>

(* C-x i: the cursor stays before what was read, and insert_file, which      *)
(* masks all flags but B_MODIFIED, ends overwrite mode.                      *)
InsertFile ==
  /\ \E s \in Strings(MaxInsert) :
       /\ Fits(Len(s))
       /\ \E room \in WithRoom(buf, Room(buf) >= Len(s), Len(s)) :
            buf' = Fill(MoveGap(room, point), s)
       /\ reported' = Report("insert", point, s)
  /\ overwrite' = FALSE
  /\ UNCHANGED <<point, mark>>

(* zero_buffer makes the gap the whole store; load_file then reads a file,   *)
(* if it can, and has the history forget all of it.                          *)
Emptied(b) == Scrub([store |-> b.store, cap |-> b.cap, gap |-> 0, egap |-> b.cap])

LoadFile ==
  /\ \E s \in Strings(MaxInsert) :
       \E room \in WithRoom(Emptied(buf), Room(Emptied(buf)) >= Len(s), Len(s)) :
         buf' = Fill(MoveGap(room, 0), s)
  /\ point' = 0
  /\ mark' = NoMark
  /\ reported' = Reset
  /\ UNCHANGED overwrite

(* The exact edits of scripts, and of undo and redo, which alone move the    *)
(* mark with the text it was set in.                                         *)
MarkAfterDelete(start, end) ==
  IF mark <= start THEN mark ELSE IF mark >= end THEN mark - (end - start) ELSE start

DeleteRegion ==
  /\ \E start \in 0..Size(buf) : \E end \in (start + 1)..Size(buf) :
       LET b == MoveGap(buf, start)
       IN  /\ buf' = DropAfter(b, end - start)
           /\ reported' = Report("delete", start, After(b, end - start))
           /\ point' = start
           /\ mark' = MarkAfterDelete(start, end)
  /\ UNCHANGED overwrite

InsertBytes ==
  /\ \E p \in 0..Size(buf), s \in Strings(MaxInsert) \ {<<>>} :
       /\ Fits(Len(s))
       /\ \E room \in WithRoom(buf, Len(s) < Room(buf), Len(s)) :
            buf' = Fill(MoveGap(room, p), s)
       /\ reported' = Report("insert", p, s)
       /\ point' = p + Len(s)
       /\ mark' = IF mark >= p THEN mark + Len(s) ELSE mark
       /\ mark' <= MaxText
  /\ UNCHANGED overwrite

(* copy_cut, from cursor p to mark m.  Neither C-w nor this asks whether the *)
(* mark is still inside the text.                                            *)
Region(p, m) == IF p < m THEN [from |-> p, length |-> m - p] ELSE [from |-> m, length |-> p - m]

CutRegion(p, m) ==
  LET r == Region(p, m)
      b == MoveGap(buf, r.from)
  IN  /\ m <= Size(buf) \/ "stale mark" \in Extras
      /\ buf' = DropAfter(b, r.length)
      /\ reported' = Report("delete", r.from, After(b, r.length))
      /\ point' = Position(buf', buf'.egap)
      /\ mark' = NoMark

Cut ==
  /\ mark \notin {NoMark, point}
  /\ CutRegion(point, mark)
  /\ UNCHANGED overwrite

Copy ==
  /\ mark \notin {NoMark, point}
  /\ buf' = MoveGap(buf, Region(point, mark).from)
  /\ reported' = <<>>
  /\ mark' = NoMark
  /\ UNCHANGED <<point, overwrite>>

(* kill-line of the C core.  At the end of the text it looks at a byte that  *)
(* is not there.                                                             *)
KillToEol ==
  /\ \E atNewline \in IF point < Size(buf) THEN {ByteAt(buf, point) = Newline} ELSE BOOLEAN :
       IF atNewline \/ point + 1 = Size(buf)
       THEN DropChar /\ UNCHANGED mark
       ELSE \E end \in LineEnd(buf, point) :
              \/ end # point /\ CutRegion(end, point)
              \/ /\ end = point
                 /\ mark' = point
                 /\ reported' = <<>>
                 /\ UNCHANGED <<buf, point>>
  /\ UNCHANGED overwrite

(* One substitution of query-replace: from is at the cursor, to takes its    *)
(* place.  Equal lengths are written over each other as if the gap were not  *)
(* between them, and a gap that cannot grow is used all the same.            *)
Straddles(b, p, n) == p < b.gap /\ b.gap < p + n

Resized(p, from, to) ==
  LET found == p + Len(from)
      moved == MoveGap(buf, found)
      more == Len(to) - Len(from)
      grown == GrowGap(moved, more)
  IN  IF more = 0 THEN {buf}
      ELSE IF more < 0 THEN {[moved EXCEPT !.gap = @ + more]}
      ELSE IF more < Room(moved) THEN {[moved EXCEPT !.gap = @ + more]}
      ELSE IF grown # {} THEN {[b EXCEPT !.gap = @ + more] : b \in grown}
      ELSE IF "replace without memory" \in Extras THEN {[moved EXCEPT !.gap = @ + more]}
      ELSE {}

Replace ==
  /\ \E n \in 1..MaxInsert, to \in Strings(MaxInsert) : \E p \in point..(Size(buf) - n) :
       LET from == SubSeq(TextOf(buf), p + 1, p + n)
       IN  /\ Fits(Len(to) - n)
           /\ n = Len(to) /\ Straddles(buf, p, n) => "replace over gap" \in Extras
           /\ \E b \in Resized(p, from, to) : buf' = Scrub(Write(b, Index(b, p), to))
           /\ reported' = Report("delete", p, from) \o Report("insert", p, to)
           /\ point' = p + Len(to)
  /\ UNCHANGED <<mark, overwrite>>

-----------------------------------------------------------------------------
(* What changes no text                                                      *)

Left ==
  /\ point' = LeftOf(buf, point)
  /\ reported' = <<>>
  /\ UNCHANGED <<buf, mark, overwrite>>

Right ==
  /\ point' = RightOf(buf, point)
  /\ reported' = <<>>
  /\ UNCHANGED <<buf, mark, overwrite>>

(* Any other motion, and fe_set_point.                                       *)
SetPoint ==
  /\ point' \in 0..Size(buf)
  /\ reported' = <<>>
  /\ UNCHANGED <<buf, mark, overwrite>>

SetMark ==
  /\ mark' \in {NoMark} \cup 0..Size(buf)
  /\ reported' = <<>>
  /\ UNCHANGED <<buf, point, overwrite>>

ToggleOverwrite ==
  /\ overwrite' = ~overwrite
  /\ reported' = <<>>
  /\ UNCHANGED <<buf, point, mark>>

Next ==
  \/ Insert \/ Backspace \/ Delete \/ InsertString \/ AppendString
  \/ InsertFile \/ LoadFile
  \/ DeleteRegion \/ InsertBytes \/ Cut \/ Copy \/ KillToEol \/ Replace
  \/ Left \/ Right \/ SetPoint \/ SetMark \/ ToggleOverwrite

Spec == Init /\ [][Next]_vars

-----------------------------------------------------------------------------
Cells == Bytes \cup {Junk}

TypeOK ==
  /\ buf \in [store : [0..(buf.cap - 1) -> Cells], cap : Nat, gap : Nat, egap : Nat]
  /\ point \in Nat
  /\ mark \in Nat \cup {NoMark}
  /\ overwrite \in BOOLEAN

(* The assertions of gap.c, which a native build keeps: the pointers are in  *)
(* order, and so is the cursor with the text.                                *)
GapOrdered ==
  /\ buf.gap <= buf.egap
  /\ buf.egap <= buf.cap
  /\ point <= Size(buf)

(* No byte of the text is one the gap, or the memory after the store, left   *)
(* there.                                                                    *)
NoJunkInText == \A k \in 1..Size(buf) : TextOf(buf)[k] \in Bytes

(* undo.c: "Every function that changes a buffer calls record_change(), so   *)
(* nothing escapes the history".  What a step reported, applied to the old   *)
(* text, gives the new text, and reverted gives the old text back.           *)
ReportsAreTheChange ==
  [][\/ reported' = Reset
     \/ /\ TextOf(buf)' = FoldLeft(Applied, TextOf(buf), reported')
        /\ TextOf(buf) = FoldLeft(Reverted, TextOf(buf)', Reverse(reported'))]_vars

(* Whole characters: a two-byte character is its lead byte and the next one. *)
WellFormed(t) ==
  /\ \A k \in 1..Len(t) : t[k] = Lead => k < Len(t) /\ t[k + 1] = Cont
  /\ \A k \in 1..Len(t) : t[k] = Cont => k > 1 /\ t[k - 1] = Lead
AtBoundary(t, p) == p = Len(t) \/ t[p + 1] # Cont

(* Moving and deleting by characters (left, right, backsp, delete) keeps a   *)
(* text of whole characters whole, and the cursor between two of them.       *)
(* Typing in overwrite mode does not: it replaces a byte by a byte.          *)
CharactersStayWhole ==
  [][(/\ WellFormed(TextOf(buf)) /\ AtBoundary(TextOf(buf), point)
      /\ (Left \/ Right \/ Backspace \/ Delete))
     => WellFormed(TextOf(buf)') /\ AtBoundary(TextOf(buf)', point')]_vars
=============================================================================
