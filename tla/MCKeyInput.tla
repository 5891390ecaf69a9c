----------------------------- MODULE MCKeyInput -----------------------------
(* KeyInput with macros of a few bytes and stores of three.                  *)
EXTENDS KeyInput, TLC

\* a search that an arrow ends, with a byte after it; a prompt; C-@
TestedKeys == {<<"C-s", "ESC", "[", "a">>, <<"ESC", "a", "RET">>, <<"C-s", "a", "RET", "a">>, <<"NUL">>}
=============================================================================
