------------------------------ MODULE MCTester ------------------------------
(* Tester with two editors, which are alike.                                 *)
EXTENDS Tester, TLC

AlikeEditors == Permutations(Editors)
=============================================================================
