---------------------------- MODULE MCRecording ----------------------------
(* Instances of Recording for TLC.                                           *)
EXTENDS Recording

CONSTANTS a, b, d1

OneSession  == {a}
TwoSessions == {a, b}
OneDir      == {d1}
============================================================================
