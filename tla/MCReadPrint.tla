---------------------------- MODULE MCReadPrint ----------------------------
(***************************************************************************)
(* Bounds for ReadPrint: all texts of up to three of the lexemes, longer   *)
(* ones of a few of them and some that nest and share more, and all data   *)
(* of two nodes with awkward names or of three with plain ones.            *)
(***************************************************************************)
EXTENDS ReadPrint
LOCAL INSTANCE SequencesExt

A == <<"a", " ">>
Lexemes == {<<"(">>, <<")">>, <<"[">>, <<"]">>, <<"'">>, <<",", " ">>, <<",", "@">>, <<"#", "(">>, A, <<"1", " ">>, Dot, DatumComment,
            <<"dq", "a", "bs", "dq", "dq">>, <<"#", "0", "=">>, <<"#", "0", "#">>, <<"#", "bs", "a", " ">>,
            <<"|", "1", "|", "a", "bs", "(", " ">>, <<"#", "t", " ">>}
Few == {<<"(">>, <<")">>, <<"]">>, A, Dot, DatumComment, <<"'">>}
Sharing == {<<"#", "0", "=">>, <<"#", "0", "#">>, <<"#", "(">>, <<"(">>, <<")">>, A}
Comments == {<<"#", "|", "#", "#", "|", "|", "|", "#", "a", "|", "#">>, <<";", "a", "nl">>, <<"#", "!", "(", "nl">>}
Of(S, n) == UNION {[1..k -> S] : k \in 1..n}
Long == {<<<<"(">>, A, Dot, A, <<")">>>>, <<<<"[">>, A, Dot, A, <<")">>>>, <<<<"(">>, A, Dot, A, A>>,
         <<<<"#", "0", "=">>, <<"#", "(">>, A, <<"#", "0", "#">>, A, A, <<")">>>>,
         <<<<"#", "0", "=">>, <<"(">>, A, <<"#", "1", "=">>, <<"'">>, <<"#", "0", "#">>, Dot, <<"#", "1", "#">>, <<")">>>>,
         <<<<"(">>, A, Dot, <<"(">>, A, DatumComment, A, <<")">>, DatumComment, <<"(">>, <<")">>, <<")">>>>}
         \cup {<<c, d, <<"(">>, c, A, d, <<")">>, A>> : c, d \in Comments}
SmallTexts == Of(Lexemes, 3) \cup Of(Few, 4) \cup Of(Sharing, 4) \cup Long
StaleTexts == {<<<<"(">>, A, <<"]">>, A, A>>}

Names == {<<>>, <<"1">>, <<"-">>, <<"-", "1">>, <<".">>, <<"1", ".">>, <<"#">>, <<"a", "#">>, <<"a", " ", "b">>,
          <<"|">>, <<"bs", "a">>, <<"quote">>, <<"unquote">>, <<"dq">>}
Ref(n) == {<<"ref", i>> : i \in 1..n}
Atoms == {<<"sym", n>> : n \in Names} \cup {<<"num", -10>>, <<"chr", " ">>, <<"chr", "x">>, <<"chr", "(">>, <<"chr", "ctl">>}
Conses(S, T) == {<<"cons", a, d>> : a \in S, d \in T}
Strings == {<<"str", <<>>>>, <<"str", <<"dq", "bs">>>>, <<"str", <<"ctl", "1", ";">>>>, <<"str", <<"nl", "x">>>>}
Vectors(S) == {<<"vec", v>> : v \in Of(S, 2) \cup {<<>>}}
Whole(H) == {[heap |-> h, v |-> <<"ref", 1>>] : h \in {g \in H : Below(g, {1}) = 1..Len(g)}}
Heads == {<<"sym", <<"quote">>>>, <<"sym", <<"lambda">>>>, <<"sym", <<"a">>>>}
SmallMade ==
  Whole({<<c, d>> : c \in Conses(Atoms \cup Ref(2), Ref(2) \cup {NIL}), d \in Strings \cup Conses(Atoms, {NIL})}) \cup
  Whole({<<c, d, e>> : c \in Conses(Heads \cup Ref(3), Ref(3) \cup {NIL}),
                       d \in Conses({<<"sym", <<"a">>>>} \cup Ref(3), Ref(3) \cup {NIL}) \cup Vectors({NIL} \cup Ref(3)),
                       e \in Conses({<<"sym", <<"a">>>>} \cup Ref(2), {NIL} \cup Ref(1))})
CommaMade == {[heap |-> <<<<"cons", <<"sym", <<"unquote">>>>, <<"ref", 2>>>>, <<"cons", <<"sym", <<"@", "a">>>>, NIL>>>>,
               v |-> <<"ref", 1>>]}

Plain == [pretty |-> FALSE, princ |-> FALSE, length |-> -1, level |-> -1]
SomeOptions == {Plain, [Plain EXCEPT !.pretty = TRUE], [Plain EXCEPT !.princ = TRUE], [Plain EXCEPT !.length = 1],
                [Plain EXCEPT !.level = 1]}
PlainOnly == {Plain}
NoTexts == {}
=============================================================================
