----------------------------- MODULE MCStreams -----------------------------
(* Streams on files that are shorter and longer than the buffer *)
EXTENDS Streams

SmallTexts == {
  <<"a", "b", "nl", "a", "b">>, <<"a", "nl", "nl", "b">>, <<"hi", "lo", "hi", "lo">>,
  <<"a", "hi", "lo", "b">>}
FewTexts == {<<"a", "nl">>}
SmallData == {<<"nl">>, <<"x", "nl">>, <<"x", "nl", "x", "x">>}
SmallLines == {<<"x">>, <<"nl">>, <<"nl", "x">>, <<"nl", "nl">>, <<"x", "nl", "nl", "x">>}
=============================================================================
