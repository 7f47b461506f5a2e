-------------------------- MODULE MCProfileSockets --------------------------
(* Instances of ProfileSockets for TLC.                                      *)
EXTENDS ProfileSockets, TLC

CONSTANTS t1, t2, a, b

TwoThreads  == {t1, t2}
TwoSessions == {a, b}
Symmetry    == Permutations(TwoThreads) \cup Permutations(TwoSessions)
=============================================================================
