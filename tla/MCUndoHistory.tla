---------------------------- MODULE MCUndoHistory ----------------------------
(* UndoHistory on small instances. The bytes are interchangeable.           *)
EXTENDS UndoHistory, TLC

ByteSymmetry == Permutations(Bytes)
=============================================================================
