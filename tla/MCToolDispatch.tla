--------------------------- MODULE MCToolDispatch ----------------------------
(* Instances of ToolDispatch for TLC.                                        *)
EXTENDS ToolDispatch, TLC

CONSTANTS k1, k2, s1, p1, p2

TwoCalls   == {k1, k2}
OneSession == {s1}
TwoPids    == {p1, p2}
==============================================================================
