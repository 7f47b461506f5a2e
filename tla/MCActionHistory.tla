-------------------------- MODULE MCActionHistory --------------------------
(* Instances of ActionHistory for TLC.                                       *)
EXTENDS ActionHistory

CONSTANT a1

OneAction  == {a1}
NoActions  == {}

Everything == AllOperations
Switching  == {"enable", "disable", "delete"}
============================================================================
