-------------------------- MODULE CommandExchange --------------------------
(* What a connection of cdp_ws.rs promises about each command, whatever its  *)
(* callers, its reader and the socket do: the command is over once, with an  *)
(* outcome that is true of it.  A result is the browser's answer to this     *)
(* command; a command told that the connection is closed is told so of one   *)
(* that takes no command any more; and a command that could not be sent has  *)
(* not been answered and never will be.  A caller that gives up, or is told  *)
(* of the close, knows nothing more: the browser may have answered, or may   *)
(* still do so, once, for the connection may close with the socket up.       *)
CONSTANT Commands

VARIABLES state, answered, closed

Init == /\ state = [c \in Commands |-> "idle"]
        /\ answered = {}
        /\ closed = FALSE

To(c, s) == state' = [state EXCEPT ![c] = s] /\ UNCHANGED <<answered, closed>>

Issue(c) == ~closed /\ state[c] = "idle" /\ To(c, "open")

Answer(c) == /\ state[c] \in {"open", "timeout", "cancelled", "closed"}
             /\ c \notin answered
             /\ answered' = answered \cup {c}
             /\ UNCHANGED <<state, closed>>

Result(c) == state[c] = "open" /\ c \in answered /\ To(c, "reply")

\* The deadline of the call, or one of its caller.
GiveUp(c) == state[c] = "open" /\ \E s \in {"timeout", "cancelled"} : To(c, s)

Lose(c) == closed /\ state[c] \in {"idle", "open"} /\ To(c, "closed")

Unsent(c) == state[c] = "open" /\ c \notin answered /\ To(c, "send failed")

Close == ~closed /\ closed' = TRUE /\ UNCHANGED <<state, answered>>

Next == \/ \E c \in Commands : \/ Issue(c) \/ Answer(c) \/ Result(c)
                               \/ GiveUp(c) \/ Lose(c) \/ Unsent(c)
        \/ Close

Spec == Init /\ [][Next]_<<state, answered, closed>>
=============================================================================
