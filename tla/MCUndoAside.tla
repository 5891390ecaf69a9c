----------------------------- MODULE MCUndoAside -----------------------------
(* UndoAside on small instances. The bytes are interchangeable.             *)
EXTENDS UndoAside, TLC

ByteSymmetry == Permutations(Bytes)
=============================================================================
