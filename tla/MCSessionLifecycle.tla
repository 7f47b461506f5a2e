------------------------ MODULE MCSessionLifecycle ------------------------
(* Instances of SessionLifecycle for TLC.                                    *)
EXTENDS SessionLifecycle, TLC

CONSTANTS s1, s2, o1, o2, c1, c2, sweeper

OneSession  == {s1}
TwoSessions == {s1, s2}
OneOwner    == {o1}
TwoOwners   == {o1, o2}
OneCaller   == {c1}
TwoCallers  == {c1, c2}
OneHook     == {1}
TwoHooks    == {1, 2}
LegacyAuto  == {"auto"}
NoHook      == {}
NoPolicy    == {}

\* Callers and owners are interchangeable in Init, in every action and in the
\* invariants; no liveness property is checked under this symmetry.
CallersAndOwners == Permutations({c1, c2}) \cup Permutations({o1, o2})
===========================================================================
