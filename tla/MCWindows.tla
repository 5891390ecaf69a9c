------------------------------ MODULE MCWindows ------------------------------
(* Windows with three or four buffers on a low screen.                       *)
EXTENDS Windows, TLC
=============================================================================
