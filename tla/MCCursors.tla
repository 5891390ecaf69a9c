------------------------------ MODULE MCCursors ------------------------------
(* Cursors with two buffers, which are alike, in up to three windows.        *)
EXTENDS Cursors, TLC

AlikeBuffers == Permutations(Buffers)
=============================================================================
