------------------------------- MODULE MCScreen -------------------------------
(***************************************************************************)
(* Bounds for Screen: six columns with tab stops of two, windows of two  *)
(* and three rows, and texts of a few rows with what the rows turn on:     *)
(* lines as long as a row, tabs, empty lines, words that do not fit,       *)
(* blanks at the edge, parens, two-byte characters and control characters  *)
(* (only where rows are wrapped at words; see Extras).                     *)
(***************************************************************************)
EXTENDS Screen
LOCAL INSTANCE SequencesExt

Run(b, n) == [i \in 1..n |-> b]
Line == Run("a", 2) \o <<"nl">>

Plain(s) == [text |-> s, front |-> FALSE, wrap |-> FALSE]
Wrapped(s) == [text |-> s, front |-> FALSE, wrap |-> TRUE]

SmallFiles ==
  {Plain(<<>>),
   Plain(<<"(", "a", "nl">> \o Line \o <<"a", "nl", "(">>),
   Plain(Run("a", 6) \o <<"nl", "(", "tab", "nl", "(", ")">>),
   Wrapped(<<"a", " ", "a", "a", "a", " ", " ", "a", "nl", "a", "a", "a", "a">>),
   Wrapped(<<"hi", "lo", "tab", "ctl", "hi", "lo", " ", "cr", "nl", "ctl">>)}
OneFile == {Plain(Line \o Line \o Line \o Run("a", 3))}
WideFile == {Plain(<<"hi", "lo", "a", "nl", "hi", "lo", "nl">>)}
SmallCells == {<<0, 2>>, <<1, 1>>}
SmallInserts == {<<"nl">>, <<" ", "a", ")">>}
=============================================================================
