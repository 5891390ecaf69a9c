---------------------------- MODULE MCBrowserSave ----------------------------
(* BrowserSave on small instances; texts and tabs are interchangeable.        *)
EXTENDS BrowserSave, TLC

Symmetry == Permutations(Texts) \union Permutations(Tabs)
==============================================================================
