------------------------------ MODULE UndoAside ------------------------------
(***************************************************************************)
(* What a user does beside editing that UndoHistory's promises do not      *)
(* survive: discarding a history, C-x i, turning undo off, and a save that *)
(* meets a full disk.  The configurations of MCUndoAside choose which of   *)
(* these steps are taken, and say what each of them breaks or leaves.      *)
(***************************************************************************)
EXTENDS UndoHistory

CONSTANT Extras         \* which of the steps are taken: a subset of ExtraSteps

ExtraSteps == {"discard", "insert-file", "undo-mode", "save-fails"}

(* The file is opened for writing, which empties it, and then the disk is    *)
(* full: the buffer stays modified, and no save is reported to the history.  *)
SaveFails ==
  /\ "save-fails" \in Extras
  /\ open
  /\ modified
  /\ \E k \in Positions : file' = SubSeq(text, 1, k)
  /\ open' = FALSE
  /\ UNCHANGED <<text, modified, readOnly, hist, undoMode, keyVars, began>>

(* M-x discard-undo-history.                                                 *)
DiscardHistory ==
  /\ "discard" \in Extras
  /\ open
  /\ hist' = EmptyHistory
  /\ began' = text
  /\ UNCHANGED <<text, file, modified, readOnly, undoMode, keyVars, open>>

(* C-x i.  insert_file keeps B_MODIFIED as it was: it masks the flags with   *)
(* it, and never sets it.                                                    *)
InsertFile ==
  /\ "insert-file" \in Extras
  /\ open
  /\ ~ReadOnlyRefuses
  /\ \E p \in Positions, s \in Strings(MaxInsert) \ {<<>>} :
       /\ Len(text) + Len(s) <= MaxText
       /\ text' = Insert(text, p, s)
       /\ hist' = RecordChange(hist, serial, [kind |-> "insert", pos |-> p, text |-> s])
  /\ UNCHANGED <<file, modified, readOnly, undoMode, keyVars, open, began>>

SetUndoMode ==
  /\ "undo-mode" \in Extras
  /\ open
  /\ undoMode' = ~undoMode
  /\ UNCHANGED <<text, file, modified, readOnly, hist, keyVars, open, began>>

AsideNext == Next \/ SaveFails \/ DiscardHistory \/ InsertFile \/ SetUndoMode

AsideSpec == Init /\ [][AsideNext]_vars

(* A read-only buffer keeps its text and its stacks, unless its history is   *)
(* discarded.                                                                *)
ReadOnlyKeptAside ==
  [][readOnly /\ readOnly' /\ ~LoadFile /\ ~DiscardHistory
       => text' = text /\ hist'.done = hist.done /\ hist'.undone = hist.undone]_vars
=============================================================================
