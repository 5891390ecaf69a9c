----------------------------- MODULE UndoHistory -----------------------------
(***************************************************************************)
(* The undo history of one buffer: scheme/undo.scm, the reports the C core *)
(* sends it (src/undo.c), and the flag B_MODIFIED both of them write.      *)
(*                                                                         *)
(* A text is a sequence of bytes and a position counts from 0, as in the   *)
(* code.  The cursor is not modelled, so a group keeps no point: an edit   *)
(* happens at any position.  A history that the table *undo-histories*     *)
(* does not hold is an empty one.                                          *)
(***************************************************************************)
EXTENDS Integers, SequencesExt

CONSTANTS
  Bytes,                \* the bytes texts are made of
  MaxText,              \* bound: bytes in a text
  MaxInsert,            \* bound: bytes one edit inserts
  MaxSerial,            \* bound: *command-serial*
  ByteLimit,            \* *undo-limit*
  GroupLimit,           \* *undo-group-limit*
  ChangeLimit,          \* *undo-change-limit*
  Amalgamate            \* *undo-amalgamate*

ASSUME LimitsAreNat ==
  /\ {MaxText, MaxInsert, MaxSerial, ByteLimit, GroupLimit, ChangeLimit, Amalgamate} \subseteq Nat
  /\ MaxText # 0

VARIABLES
  text,                 \* the buffer's text
  file,                 \* the text its file holds
  modified,             \* B_MODIFIED
  readOnly,             \* B_READONLY
  hist,                 \* its history: [done, undone, bytes, savedId, blocked]
  undoMode,             \* *undo-mode*
  serial,               \* *command-serial*
  run,                  \* *self-insert-run*
  lastKind,             \* *last-boundary-kind*
  open,                 \* may the current command still change the buffer?
  began                 \* history variable: the text when this serial began

vars == <<text, file, modified, readOnly, hist, undoMode, serial, run, lastKind, open, began>>

keyVars == <<serial, run, lastKind>>

Strings(n) == UNION {[1..k -> Bytes] : k \in 0..n}
Texts == Strings(MaxText)

-----------------------------------------------------------------------------
(* Edits and their inverses.  The core clamps a position to the text.        *)

Clamp(t, p) == IF p < Len(t) THEN p ELSE Len(t)
Insert(t, p, s) ==
  SubSeq(t, 1, Clamp(t, p)) \o s \o SubSeq(t, Clamp(t, p) + 1, Len(t))
Delete(t, p, n) ==
  SubSeq(t, 1, Clamp(t, p)) \o SubSeq(t, Clamp(t, p + n) + 1, Len(t))

ApplyChange(t, c) ==
  IF c.kind = "insert" THEN Insert(t, c.pos, c.text) ELSE Delete(t, c.pos, Len(c.text))
RevertChange(t, c) ==
  IF c.kind = "insert" THEN Delete(t, c.pos, Len(c.text)) ELSE Insert(t, c.pos, c.text)

(* A group's changes are newest first.                                     *)
RevertOldestFirst(t, g) == FoldLeft(RevertChange, t, Reverse(g.changes))    \* mutant
RevertGroup(t, g) == FoldLeft(RevertChange, t, g.changes)
ApplyGroup(t, g) == FoldLeft(ApplyChange, t, Reverse(g.changes))

-----------------------------------------------------------------------------
(* The history record                                                      *)

EmptyHistory == [done |-> <<>>, undone |-> <<>>, bytes |-> 0, savedId |-> 0, blocked |-> -1]

TopId(h) == IF h.done = <<>> THEN 0 ELSE Head(h.done).id

HistoryGroups(h) == h.done \o h.undone

GroupBytes(g) == FoldLeft(LAMBDA n, c : n + Len(c.text), 0, g.changes)
ActualBytes(h) == FoldLeft(LAMBDA n, g : n + GroupBytes(g), 0, HistoryGroups(h))
ChangeCount(h) == FoldLeft(LAMBDA n, g : n + Len(g.changes), 0, HistoryGroups(h))

(* The newest change of a group, old, and the next one, new, as one change:  *)
(* a stretch of typing, of C-d or of DEL.  No result when they do not join.  *)
Merged(old, new) ==
  CASE old.kind = "insert" /\ new.kind = "insert" /\ new.pos = old.pos + Len(old.text)
         -> {[old EXCEPT !.text = @ \o new.text]}
    [] old.kind = "delete" /\ new.kind = "delete" /\ new.pos = old.pos
         -> {[old EXCEPT !.text = @ \o new.text]}
    [] old.kind = "delete" /\ new.kind = "delete" /\ new.pos + Len(new.text) = old.pos
         -> {[new EXCEPT !.text = @ \o old.text]}
    [] OTHER -> {}

WithChange(changes, new) ==
  LET joined == IF changes = <<>> THEN {} ELSE Merged(Head(changes), new)
  IN  IF joined = {} THEN <<new>> \o changes
      ELSE <<CHOOSE c \in joined : TRUE>> \o Tail(changes)

(* h without the k groups that trimming drops first: the oldest of done, and *)
(* when done is empty the last that redo would reach.                        *)
Keep(seq, k) == SubSeq(seq, 1, k)
DropGroups(h, k) ==
  LET d == Len(h.done)
  IN  IF k <= d THEN [h EXCEPT !.done = Keep(@, d - k)]
      ELSE [h EXCEPT !.done = <<>>, !.undone = Keep(@, Len(@) - (k - d))]

Dropped(h, k) ==
  LET d == Len(h.done)
  IN  IF k <= d THEN {h.done[i] : i \in (d - k + 1)..d}
      ELSE {h.done[i] : i \in 1..d}
           \cup {h.undone[i] : i \in (Len(h.undone) - (k - d) + 1)..Len(h.undone)}

WithinLimits(h) ==
  \/ HistoryGroups(h) = <<>>
  \/ /\ ActualBytes(h) <= ByteLimit
     /\ Len(HistoryGroups(h)) <= GroupLimit
     /\ ChangeCount(h) <= ChangeLimit

(* The loop drops no more groups than it must.                               *)
TrimOnce(h) == IF WithinLimits(h) THEN 0 ELSE 1                             \* mutant
Excess(h) ==
  CHOOSE k \in 0..Len(HistoryGroups(h)) :
    /\ WithinLimits(DropGroups(h, k))
    /\ \A j \in 0..(k - 1) : ~WithinLimits(DropGroups(h, j))

(* No state of the history is the saved one any more when its group was      *)
(* dropped, or when it was the state before the oldest of done.              *)
SavedIdKept(h, k) == h.savedId                                              \* mutant
SavedIdAfter(h, k) ==
  IF \/ \E g \in Dropped(h, k) : g.id = h.savedId
     \/ h.savedId = 0 /\ k > 0 /\ h.done # <<>>
  THEN -1 ELSE h.savedId

TrimHistory(h, ser) ==
  LET k == Excess(h)
      kept == DropGroups(h, k)
  IN  [kept EXCEPT
        !.bytes = ActualBytes(kept),
        !.blocked = IF \E g \in Dropped(h, k) : g.id = ser THEN ser ELSE @,
        !.savedId = SavedIdAfter(h, k)]

(* A new change: no redo.                                                    *)
PushKeepingUndone(h, groups) == [h EXCEPT !.done = groups]                  \* mutant
Push(h, groups) == [h EXCEPT !.done = groups, !.undone = <<>>]

NeverBlocked(h, ser) == FALSE                                               \* mutant
Blocked(h, ser) == h.blocked = ser

RecordChange(h, ser, change) ==
  IF change.text = <<>> \/ ~undoMode \/ Blocked(h, ser) THEN h
  ELSE LET joins == h.done # <<>> /\ Head(h.done).id = ser
           group == IF joins
                    THEN [Head(h.done) EXCEPT !.changes = WithChange(@, change)]
                    ELSE [id |-> ser, changes |-> <<change>>]
           older == IF joins THEN Tail(h.done) ELSE h.done
       IN  TrimHistory(Push(h, <<group>> \o older), ser)

-----------------------------------------------------------------------------
(* undo-boundary, before every key: typed characters in a row share a        *)
(* serial, up to Amalgamate of them, and so do deletions with DEL or C-d.    *)
Joins(kind) == kind # "other" /\ kind = lastKind /\ run < Amalgamate

UndoBoundary(kind) ==
  LET r == IF Joins(kind) THEN run ELSE 0
  IN  /\ serial' = IF Joins(kind) THEN serial ELSE serial + 1
      /\ serial' <= MaxSerial
      /\ run' = IF kind = "other" THEN r ELSE r + 1
      /\ lastKind' = kind
      /\ began' = IF Joins(kind) THEN began ELSE text

NeverRefuses == FALSE                                                       \* mutant
ReadOnlyRefuses == readOnly

(* The core changes the text, sets the flag and reports what it did.         *)
CoreInsert(p, s, ser) ==
  /\ ~ReadOnlyRefuses
  /\ Len(text) + Len(s) <= MaxText
  /\ text' = Insert(text, p, s)
  /\ modified' = TRUE
  /\ hist' = RecordChange(hist, ser, [kind |-> "insert", pos |-> p, text |-> s])
  /\ UNCHANGED <<file, readOnly, undoMode>>

CoreDelete(p, n, ser) ==
  /\ ~ReadOnlyRefuses
  /\ p + n <= Len(text)
  /\ text' = Delete(text, p, n)
  /\ modified' = TRUE
  /\ hist' = RecordChange(hist, ser, [kind |-> "delete", pos |-> p, text |-> SubSeq(text, p + 1, p + n)])
  /\ UNCHANGED <<file, readOnly, undoMode>>

Positions == 0..Len(text)

Init ==
  /\ text \in Texts
  /\ file = text
  /\ modified = FALSE
  /\ readOnly = FALSE
  /\ hist = EmptyHistory
  /\ undoMode = TRUE
  /\ serial = 1
  /\ run = 0
  /\ lastKind = "other"
  /\ open = FALSE
  /\ began = text

(* A key that types one character, and one that deletes one (DEL, C-d).      *)
TypeKey ==
  /\ UndoBoundary("typing")
  /\ \E p \in Positions, b \in Bytes : CoreInsert(p, <<b>>, serial')
  /\ open' = FALSE

DeleteKey ==
  /\ UndoBoundary("deleting")
  /\ \E p \in Positions : CoreDelete(p, 1, serial')
  /\ open' = FALSE

(* In overwrite mode a typed character replaces one: two changes, one key.    *)
OverwriteKey ==
  /\ UndoBoundary("typing")
  /\ ~ReadOnlyRefuses
  /\ \E p \in 0..(Len(text) - 1), b \in Bytes :
       /\ text' = [text EXCEPT ![p + 1] = b]
       /\ hist' = RecordChange(RecordChange(hist, serial', [kind |-> "delete", pos |-> p, text |-> <<text[p + 1]>>]),
                               serial', [kind |-> "insert", pos |-> p, text |-> <<b>>])
  /\ modified' = TRUE
  /\ open' = FALSE
  /\ UNCHANGED <<file, readOnly, undoMode>>

(* Any other key, a menu click or the browser's save: the command it runs    *)
(* makes the edits below, as many as it likes.                               *)
CommandKey ==
  /\ UndoBoundary("other")
  /\ open' = TRUE
  /\ UNCHANGED <<text, file, modified, readOnly, hist, undoMode>>

CommandInsert ==
  /\ open
  /\ \E p \in Positions, s \in Strings(MaxInsert) \ {<<>>} : CoreInsert(p, s, serial)
  /\ UNCHANGED <<keyVars, open, began>>

CommandDelete ==
  /\ open
  /\ \E p \in Positions : \E n \in 1..(Len(text) - p) : CoreDelete(p, n, serial)
  /\ UNCHANGED <<keyVars, open, began>>

(* A save is the last thing its command does to the buffer.  An unmodified   *)
(* buffer is written only under a new name; otherwise the save does nothing. *)
SaveBuffer ==
  /\ open
  /\ file' = text
  /\ modified' = FALSE
  /\ hist' = [hist EXCEPT !.savedId = TopId(hist)]
  /\ open' = FALSE
  /\ UNCHANGED <<text, readOnly, undoMode, keyVars, began>>

(* load_file: clear, read, forget.                                           *)
LoadFile ==
  /\ open
  /\ text' \in Strings(1)
  /\ file' = text'
  /\ modified' = FALSE
  /\ hist' = EmptyHistory
  /\ began' = text'
  /\ UNCHANGED <<readOnly, undoMode, keyVars, open>>

ToggleReadOnly ==
  /\ open
  /\ readOnly' = ~readOnly
  /\ UNCHANGED <<text, file, modified, hist, undoMode, keyVars, open, began>>

(* The undo key.  When there is nothing to undo, or the buffer may not       *)
(* change, the key does no more than CommandKey and a message.               *)
ModifiedWhenUndoable(h) == modified' = (h.done # <<>>)                       \* mutant
UpdateModified(h) == modified' = (TopId(h) # h.savedId)

Undo ==
  /\ UndoBoundary("other")
  /\ LET h == TrimHistory(hist, serial')
         group == Head(h.done)
         popped == [h EXCEPT !.done = Tail(@), !.undone = <<group>> \o @]
     IN  /\ ~ReadOnlyRefuses
         /\ undoMode
         /\ h.done # <<>>
         /\ text' = RevertGroup(text, group)
         /\ hist' = popped
         /\ UpdateModified(popped)
  /\ open' = FALSE
  /\ UNCHANGED <<file, readOnly, undoMode>>

Redo ==
  /\ UndoBoundary("other")
  /\ LET h == TrimHistory(hist, serial')
         group == Head(h.undone)
         pushed == [h EXCEPT !.undone = Tail(@), !.done = <<group>> \o @]
     IN  /\ ~ReadOnlyRefuses
         /\ h.undone # <<>>
         /\ text' = ApplyGroup(text, group)
         /\ hist' = pushed
         /\ UpdateModified(pushed)
  /\ open' = FALSE
  /\ UNCHANGED <<file, readOnly, undoMode>>

Next ==
  \/ TypeKey \/ DeleteKey \/ OverwriteKey
  \/ CommandKey \/ CommandInsert \/ CommandDelete
  \/ SaveBuffer \/ LoadFile \/ ToggleReadOnly
  \/ Undo \/ Redo

Spec == Init /\ [][Next]_vars

-----------------------------------------------------------------------------
Changes == [kind : {"insert", "delete"}, pos : Nat, text : Seq(Bytes)]
Groups == [id : Nat \ {0}, changes : Seq(Changes)]

TypeOK ==
  /\ text \in Seq(Bytes)
  /\ file \in Seq(Bytes)
  /\ {modified, readOnly, undoMode, open} \subseteq BOOLEAN
  /\ hist.done \in Seq(Groups) /\ hist.undone \in Seq(Groups)
  /\ hist.bytes \in Nat /\ hist.savedId \in Int /\ hist.blocked \in Int
  /\ serial \in Nat /\ run \in {1} \cup 0..Amalgamate
  /\ lastKind \in {"typing", "deleting", "other"}
  /\ began \in Seq(Bytes)

(* The mark goes with the file: a buffer without the * holds its file's text *)
(* (chezweb-guide: the asterisk "means that the file has been modified, but  *)
(* not saved"), whatever was undone, redone and trimmed since the save.      *)
FlagSound == ~modified => text = file

(* Undo followed by redo gives back the text, whatever merge-change joined:  *)
(* the group's changes, reverted newest first, are undone by applying them   *)
(* oldest first.  And the same the other way around.                         *)
UndoThenRedo ==
  /\ hist.done # <<>> =>
       LET g == Head(hist.done) IN ApplyGroup(RevertGroup(text, g), g) = text
  /\ hist.undone # <<>> =>
       LET g == Head(hist.undone) IN RevertGroup(ApplyGroup(text, g), g) = text

(* Undo takes back a whole command: while a command's group is the newest,   *)
(* reverting it gives the text from before the command, and of a command too *)
(* large to keep no part is kept.                                            *)
WholeCommand ==
  /\ (hist.done # <<>> /\ Head(hist.done).id = serial) =>
       RevertGroup(text, Head(hist.done)) = began
  /\ hist.blocked = serial => \A g \in {hist.done[i] : i \in DOMAIN hist.done} : g.id # serial

(* The limits of README.md hold for both stacks together, and the count of   *)
(* bytes that undo-status shows is the right one.                            *)
Bounded ==
  /\ TypeOK
  /\ WithinLimits(hist)
  /\ hist.bytes = ActualBytes(hist)

(* An id names one group: ids fall along done and rise along undone, and     *)
(* everything that can be redone is newer than everything that can be undone.*)
IdsOrdered ==
  /\ \A i, j \in DOMAIN hist.done : i < j => hist.done[i].id > hist.done[j].id
  /\ \A i, j \in DOMAIN hist.undone : i < j => hist.undone[i].id < hist.undone[j].id
  /\ \A i \in DOMAIN hist.done, j \in DOMAIN hist.undone : hist.done[i].id < hist.undone[j].id
  /\ \A i \in DOMAIN hist.done : hist.done[i].id <= serial
  /\ \A i \in DOMAIN hist.undone : hist.undone[i].id <= serial

(* A read-only buffer keeps its text and what can be undone and redone: undo *)
(* gives up before it pops a group whose changes the core would refuse.      *)
ReadOnlyKept ==
  [][readOnly /\ readOnly' /\ ~LoadFile
       => text' = text /\ hist'.done = hist.done /\ hist'.undone = hist.undone]_vars

(* The abstract module's stacks: each group with the texts around it.        *)
Back(i) == FoldLeft(RevertGroup, text, SubSeq(hist.done, 1, i))
Forth(i) == FoldLeft(ApplyGroup, text, SubSeq(hist.undone, 1, i))

DoneTexts ==
  [i \in DOMAIN hist.done |-> [id |-> hist.done[i].id, before |-> Back(i), after |-> Back(i - 1)]]
UndoneTexts ==
  [i \in DOMAIN hist.undone |-> [id |-> hist.undone[i].id, before |-> Forth(i - 1), after |-> Forth(i)]]

Stack == INSTANCE UndoStack WITH
  Texts <- Texts,
  saved <- file,
  savedId <- hist.savedId,
  done <- DoneTexts,
  undone <- UndoneTexts

(* The history implements UndoStack.                                         *)
ImplementsUndoStack == Stack!Spec
=============================================================================
