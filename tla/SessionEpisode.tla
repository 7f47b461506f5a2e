--------------------------- MODULE SessionEpisode ---------------------------
(* What session.rs promises about a session id, whatever the threads do: an  *)
(* id is declared by one transport and is from then on live or ended, never  *)
(* both and never unknown again, and every later episode of the id belongs   *)
(* to the transport that declared the first.                                 *)
CONSTANTS Sessions, Owners, Nobody

VARIABLES phase, holder

Init == /\ phase  = [s \in Sessions |-> "unknown"]
        /\ holder = [s \in Sessions |-> Nobody]

\* A first call or start_session of a transport creates the session.
Declare(s, o) == /\ phase[s] = "unknown"
                 /\ phase'  = [phase EXCEPT ![s] = "live"]
                 /\ holder' = [holder EXCEPT ![s] = o]

\* Any end: explicit, idle, transport close or revocation.
End(s) == /\ phase[s] = "live"
          /\ phase' = [phase EXCEPT ![s] = "ended"]
          /\ UNCHANGED holder

\* A start_session of the transport that ended it.
Revive(s) == /\ phase[s] = "ended"
             /\ phase' = [phase EXCEPT ![s] = "live"]
             /\ UNCHANGED holder

Next == \E s \in Sessions : \/ \E o \in Owners : Declare(s, o)
                            \/ End(s)
                            \/ Revive(s)

Spec == Init /\ [][Next]_<<phase, holder>>
=============================================================================
