----------------------------- MODULE MCGapBuffer -----------------------------
(* GapBuffer on small stores: every growth, every place of the gap.          *)
EXTENDS GapBuffer, TLC
=============================================================================
