------------------------------ MODULE UndoStack ------------------------------
(***************************************************************************)
(* What undo promises, without its representation: a buffer's text moves   *)
(* along a chain of texts, one link per command.  A link (a group) is kept *)
(* here as the text before it and the text after it; UndoHistory keeps the *)
(* edits themselves and implements this module.                            *)
(*                                                                         *)
(* The stacks have their newest group first, as scheme/undo.scm has them.  *)
(***************************************************************************)
EXTENDS Integers, Sequences

CONSTANT Texts          \* the texts a buffer can hold

VARIABLES
  text,                 \* the buffer's text
  saved,                \* the text last written to, or read from, its file
  modified,             \* B_MODIFIED, the * of the mode line
  done,                 \* groups that undo pops
  undone,               \* groups that redo pops
  savedId,              \* the group that was newest when the file was saved
  serial                \* *command-serial*, the id of the groups now opened

vars == <<text, saved, modified, done, undone, savedId, serial>>

Groups == [id : Nat \ {0}, before : Texts, after : Texts]

Lost == -1              \* savedId when no state of the history is the saved one

TopId(stack) == IF stack = <<>> THEN 0 ELSE stack[1].id

Init ==
  /\ text \in Texts
  /\ saved = text
  /\ modified = FALSE
  /\ done = <<>>
  /\ undone = <<>>
  /\ savedId = 0
  /\ serial = 1

(***************************************************************************)
(* A key opens a new command, or continues a run of typing or deleting.    *)
(***************************************************************************)
Boundary ==
  /\ serial' \in {serial, serial + 1}
  /\ UNCHANGED <<text, saved, modified, done, undone, savedId>>

(***************************************************************************)
(* The stack after the text becomes t: the current command's group grows,  *)
(* or a new one is opened.                                                 *)
(***************************************************************************)
Extended(t) ==
  IF done # <<>> /\ done[1].id = serial'
  THEN [done EXCEPT ![1].after = t]
  ELSE <<[id |-> serial', before |-> text, after |-> t]>> \o done

Kept(stack, k) == SubSeq(stack, 1, k)

SavedIdKept(stack, k) == savedId                                            \* mutant

(***************************************************************************)
(* Dropping the groups of a stack past its k newest loses the saved text   *)
(* when one of them was the saved group, or when the saved text is older   *)
(* than every group.                                                       *)
(***************************************************************************)
SavedAfterDrop(stack, k) ==
  IF \/ savedId = 0 /\ k < Len(stack)
     \/ \E i \in (k + 1)..Len(stack) : stack[i].id = savedId
  THEN Lost ELSE savedId

(***************************************************************************)
(* A recorded change.  It never joins the group that was saved: that is    *)
(* what makes the flag right after a later undo and redo.                  *)
(***************************************************************************)
Change ==
  /\ serial' \in {serial, serial + 1}
  /\ savedId # serial'
  /\ \E t \in Texts :
       /\ text' = t
       /\ \E k \in 0..Len(Extended(t)) :
            /\ done' = Kept(Extended(t), k)
            /\ savedId' = SavedAfterDrop(Extended(t), k)
  /\ modified' = TRUE
  /\ undone' = <<>>
  /\ UNCHANGED saved

(***************************************************************************)
(* The rest of a command too large to keep: nothing of it is recorded.     *)
(***************************************************************************)
UnrecordedChange ==
  /\ done = <<>>
  /\ undone = <<>>
  /\ savedId # 0
  /\ text' \in Texts
  /\ modified' = TRUE
  /\ UNCHANGED <<saved, done, undone, savedId, serial>>

Save ==
  /\ saved' = text
  /\ modified' = FALSE
  /\ savedId' = TopId(done)
  /\ UNCHANGED <<text, done, undone, serial>>

Undo ==
  /\ done # <<>>
  /\ serial' = serial + 1
  /\ text' = done[1].before
  /\ done' = Tail(done)
  /\ undone' = <<done[1]>> \o undone
  /\ modified' = (TopId(Tail(done)) # savedId)
  /\ UNCHANGED <<saved, savedId>>

Redo ==
  /\ undone # <<>>
  /\ serial' = serial + 1
  /\ text' = undone[1].after
  /\ done' = <<undone[1]>> \o done
  /\ undone' = Tail(undone)
  /\ modified' = (undone[1].id # savedId)
  /\ UNCHANGED <<saved, savedId>>

(***************************************************************************)
(* A file is read into the buffer: its history is forgotten.               *)
(***************************************************************************)
Load ==
  /\ text' \in Texts
  /\ saved' = text'
  /\ modified' = FALSE
  /\ done' = <<>>
  /\ undone' = <<>>
  /\ savedId' = 0
  /\ serial' \in {serial, serial + 1}

Next ==
  \/ Boundary \/ Change \/ UnrecordedChange \/ Save \/ Undo \/ Redo \/ Load

Spec == Init /\ [][Next]_vars

-----------------------------------------------------------------------------
TypeOK ==
  /\ text \in Texts
  /\ saved \in Texts
  /\ modified \in BOOLEAN
  /\ done \in Seq(Groups)
  /\ undone \in Seq(Groups)
  /\ savedId \in Nat \cup {Lost}
  /\ serial \in Nat \ {0}

Falling(s) == \A i, j \in 1..Len(s) : i < j => s[i].id > s[j].id
Rising(s) == \A i, j \in 1..Len(s) : i < j => s[i].id < s[j].id
Below(s, n) == \A i \in 1..Len(s) : s[i].id < n
Above(s, n) == \A i \in 1..Len(s) : s[i].id > n

(* The ids fall along done and rise along undone, which is the newer of the  *)
(* two, so an id names one group.                                            *)
IdsOrdered ==
  /\ Falling(done) /\ Rising(undone)
  /\ \A i \in 1..Len(done) : Above(undone, done[i].id)
  /\ Below(done, serial + 1) /\ Below(undone, serial + 1)

(* The groups of both stacks are a chain that passes through the text.       *)
Chained ==
  /\ done # <<>> => done[1].after = text
  /\ \A i \in 1..(Len(done) - 1) : done[i].before = done[i + 1].after
  /\ undone # <<>> => undone[1].before = text
  /\ \A i \in 1..(Len(undone) - 1) : undone[i].after = undone[i + 1].before

Oldest == IF done = <<>> THEN text ELSE done[Len(done)].before

(* savedId marks the saved text wherever it marks anything.                  *)
SavedMarked ==
  /\ \A i \in 1..Len(done) : done[i].id = savedId => done[i].after = saved
  /\ \A i \in 1..Len(undone) : undone[i].id = savedId => undone[i].after = saved
  /\ savedId = 0 => Oldest = saved

(***************************************************************************)
(* A buffer shown as unmodified holds the text of its file.                *)
(***************************************************************************)
FlagSound == ~modified => text = saved
=============================================================================
