-------------------------- MODULE MCElementTokens --------------------------
(* Instances of ElementTokens for TLC.                                       *)
EXTENDS ElementTokens, TLC

CONSTANTS k1, k2, r1, r2, w1, w2, w3

TwoTasks     == {k1, k2}
OneScope     == {r1}
TwoScopes    == {r1, r2}
OneWindow    == {w1}
ThreeWindows == {w1, w2, w3}
Symmetry     == Permutations(TwoTasks) \cup Permutations(TwoScopes) \cup
                Permutations(ThreeWindows)
============================================================================
