---------------------------- MODULE ToolDispatch -----------------------------
(* The dispatch of a tool call (invoke_authorized, tool.rs) by concurrent    *)
(* tasks: admission, the wait for a consent (consent.rs), the guard of the   *)
(* session, the desktop lane, the overlay's pointer, the platform's worker,  *)
(* and the guards given back in one order when the call completes and in     *)
(* another when it returns early or its task is aborted.                     *)
(*                                                                           *)
(* Three kinds of call stand for all: text typed into a process, another     *)
(* physical input, and the reading of Computer History, the one operation of *)
(* standard mode that asks the authorization host for a grant.               *)
EXTENDS Naturals, Sequences

CONSTANTS
    Calls,       \* tasks that dispatch calls, one at a time each
    Sessions,
    Pids,
    NoPid

ASSUME PidAssumption == NoPid \notin Pids

Text(p)  == [kind |-> "type", pid |-> p]
Pointer  == [kind |-> "input", pid |-> NoPid]
Query    == [kind |-> "history", pid |-> NoPid]
Requests == {Text(p) : p \in Pids} \cup {Pointer, Query}

VARIABLES
    call,
    active,       \* active_text_input_pids
    admission,    \* calls that wait for ProtectedResourceGrants.admission, in turn
    lane,         \* calls that wait for the desktop_action_coordinator, in turn
    passthrough,  \* the overlay lets the pointer through
    grants,       \* sessions with a grant of Computer History
    ending,       \* sessions that end with their last dispatch
    ended,        \* sessions with a tombstone
    swept         \* of those, the ones whose end hook ran

vars == <<call, active, admission, lane, passthrough, grants, ending, ended, swept>>

\* held: the guards of the frame; working: the platform's worker runs.
Call(at, request, session, held, working) ==
    [at |-> at, request |-> request, session |-> session, held |-> held, working |-> working]
Idle(s) == Call("idle", Query, s, {}, FALSE)

Init ==
    /\ \E s \in Sessions : call = [k \in Calls |-> Idle(s)]
    /\ active = {} /\ admission = <<>> /\ lane = <<>> /\ passthrough = FALSE
    /\ grants = {} /\ ending = {} /\ ended = {} /\ swept = {}

At(k, at)   == call[k].at = at
Physical(k) == call[k].request.kind \in {"type", "input"}
Goes(k, at) == call' = [call EXCEPT ![k].at = at]
GoesWith(k, at, g) == call' = [call EXCEPT ![k].at = at, ![k].held = @ \cup {g}]
Free(g) == \A k \in Calls : g \notin call[k].held
First(queue, k) == queue # <<>> /\ Head(queue) = k

\* Mutant of Without: an aborted call keeps its place.
WithoutNobody(queue, k) == queue

\* The queue of a lock when k's future is dropped.
Without(queue, k) ==
    IF \E i \in DOMAIN queue : queue[i] = k
      THEN LET i == CHOOSE i \in DOMAIN queue : queue[i] = k
           IN  SubSeq(queue, 1, i - 1) \o SubSeq(queue, i + 1, Len(queue))
      ELSE queue

-----------------------------------------------------------------------------
(* Admission and consent                                                     *)

\* A session that ended is refused before anything is taken.
Enter(k, request, s) ==
    /\ At(k, "idle") /\ s \notin ended
    /\ call' = [call EXCEPT ![k] = Call("entered", request, s, {}, FALSE)]
    /\ UNCHANGED <<active, admission, lane, passthrough, grants, ending, ended, swept>>

\* Mutant of Marks: input without a process is marked too.
MarksDesktop(request) == request.kind # "history"

\* Text without a process of its own waits for the lane only.
Marks(request) == request.pid # NoPid

\* Text for a process that is being typed into is refused, not queued.
AdmitText(k) ==
    LET p == call[k].request.pid
    IN  /\ At(k, "entered")
        /\ \/ /\ ~Marks(call[k].request)
              /\ Goes(k, "adapters") /\ UNCHANGED active
           \/ /\ Marks(call[k].request) /\ p \notin active
              /\ active' = active \cup {p}
              /\ GoesWith(k, "adapters", "text")
           \/ p \in active /\ Goes(k, "unwind") /\ UNCHANGED active
        /\ UNCHANGED <<admission, lane, passthrough, grants, ending, ended, swept>>

\* Any adapter may refuse, and so may the authorization at the commit.
Refuse(k) ==
    /\ call[k].at \in {"adapters", "commit"}
    /\ Goes(k, "unwind")
    /\ UNCHANGED <<active, admission, lane, passthrough, grants, ending, ended, swept>>

\* Only a query needs a grant; with one it waits for nothing.
LookupGrant(k) ==
    /\ At(k, "adapters")
    /\ IF call[k].request = Query /\ call[k].session \notin grants
         THEN Goes(k, "queue") /\ admission' = Append(admission, k)
         ELSE Goes(k, "commit") /\ UNCHANGED admission
    /\ UNCHANGED <<active, lane, passthrough, grants, ending, ended, swept>>

\* Mutant of RecheckGrant: a call that waited asks without another look.
AskUnlooked(k) ==
    /\ At(k, "queue") /\ Free("admission") /\ First(admission, k)
    /\ admission' = Tail(admission)
    /\ GoesWith(k, "prompt", "admission")
    /\ UNCHANGED <<active, lane, passthrough, grants, ending, ended, swept>>

\* Looked up again, for a call that waited may have got it.
RecheckGrant(k) ==
    /\ At(k, "queue") /\ Free("admission") /\ First(admission, k)
    /\ admission' = Tail(admission)
    /\ IF call[k].session \in grants THEN Goes(k, "commit") ELSE GoesWith(k, "prompt", "admission")
    /\ UNCHANGED <<active, lane, passthrough, grants, ending, ended, swept>>

\* The grant is stored whatever became of its session while the host was asked.
Accept(k) ==
    LET s == call[k].session
    IN  /\ At(k, "prompt")
        /\ call'   = [call EXCEPT ![k].at = "commit", ![k].held = @ \ {"admission"}]
        /\ grants' = grants \cup {s}
        /\ UNCHANGED <<active, admission, lane, passthrough, ending, ended, swept>>

\* Declined, canceled, or not answered in time.
Decline(k) ==
    /\ At(k, "prompt")
    /\ Goes(k, "unwind")
    /\ UNCHANGED <<active, admission, lane, passthrough, grants, ending, ended, swept>>

\* The lookup drops a grant that is too old or of another policy.
ExpireGrant(s) ==
    /\ s \in grants
    /\ grants' = grants \ {s}
    /\ UNCHANGED <<call, active, admission, lane, passthrough, ending, ended, swept>>

-----------------------------------------------------------------------------
(* The action                                                                *)

\* begin_session_dispatch, with a session that ends or has ended refused.
GuardSession(k) ==
    /\ At(k, "commit")
    /\ IF call[k].session \in ended \cup ending
         THEN Goes(k, "unwind") ELSE GoesWith(k, "begun", "session")
    /\ UNCHANGED <<active, admission, lane, passthrough, grants, ending, ended, swept>>

\* The lane is asked for once the action is announced to the cursor and the history.
AskForLane(k) ==
    /\ At(k, "begun") /\ Physical(k)
    /\ Goes(k, "lane")
    /\ lane' = Append(lane, k)
    /\ UNCHANGED <<active, admission, passthrough, grants, ending, ended, swept>>

TakeLane(k) ==
    /\ At(k, "lane") /\ Free("lane") /\ First(lane, k)
    /\ lane' = Tail(lane)
    /\ GoesWith(k, "yield", "lane")
    /\ UNCHANGED <<active, admission, passthrough, grants, ending, ended, swept>>

YieldPointer(k) ==
    /\ At(k, "yield")
    /\ passthrough' = TRUE
    /\ call' = [call EXCEPT ![k].at = "invoke", ![k].held = @ \cup {"pip"}, ![k].working = TRUE]
    /\ UNCHANGED <<active, admission, lane, grants, ending, ended, swept>>

\* The overlay cannot yield: an early return.
YieldFails(k) ==
    /\ At(k, "yield")
    /\ Goes(k, "unwind")
    /\ UNCHANGED <<active, admission, lane, passthrough, grants, ending, ended, swept>>

InvokeQuery(k) ==
    /\ At(k, "begun") /\ ~Physical(k)
    /\ call' = [call EXCEPT ![k].at = "invoke", ![k].working = TRUE]
    /\ UNCHANGED <<active, admission, lane, passthrough, grants, ending, ended, swept>>

Complete(k) ==
    /\ At(k, "invoke")
    /\ call' = [call EXCEPT ![k].at = "finish", ![k].working = FALSE]
    /\ UNCHANGED <<active, admission, lane, passthrough, grants, ending, ended, swept>>

\* The task is aborted where it waits.  A worker of the platform goes on.
Abort(k) ==
    /\ call[k].at \in {"adapters", "queue", "prompt", "lane", "invoke"}
    /\ Goes(k, "unwind")
    /\ admission' = Without(admission, k) /\ lane' = Without(lane, k)
    /\ UNCHANGED <<active, passthrough, grants, ending, ended, swept>>

-----------------------------------------------------------------------------
(* The guards                                                                *)

\* Mutant of DropOrder: the lane is given back before the pointer.
DropOrderLaneFirst(at) ==
    IF at = "finish" THEN [lane |-> 1, pip |-> 2, session |-> 3, text |-> 4, admission |-> 5]
    ELSE [pip |-> 1, lane |-> 2, session |-> 3, admission |-> 4, text |-> 5]

\* A call that completed drops its guards by name, one that returns early or is
\* aborted in the reverse order of their declaration.
DropOrder(at) ==
    IF at = "finish" THEN [pip |-> 1, session |-> 2, text |-> 3, lane |-> 4, admission |-> 5]
    ELSE [pip |-> 1, lane |-> 2, session |-> 3, admission |-> 4, text |-> 5]

\* The dispatches under the guard of a session.
InFlight(s) == {k \in Calls : call[k].session = s /\ "session" \in call[k].held}

Drop(k, g) ==
    LET c == call[k]
        last == g = "session" /\ InFlight(c.session) = {k} /\ c.session \in ending
    IN  /\ c.at \in {"finish", "unwind"} /\ g \in c.held
        /\ \A h \in c.held : DropOrder(c.at)[g] <= DropOrder(c.at)[h]
        /\ call'   = [call EXCEPT ![k].held = @ \ {g}]
        /\ active' = IF g = "text" THEN active \ {c.request.pid} ELSE active
        /\ passthrough' = (passthrough /\ g # "pip")
        /\ ending' = IF last THEN ending \ {c.session} ELSE ending
        /\ ended'  = IF last THEN ended \cup {c.session} ELSE ended
        /\ UNCHANGED <<admission, lane, grants, swept>>

\* The frame is gone; an aborted call's worker may still run.
Return(k) ==
    /\ call[k].at \in {"finish", "unwind"} /\ call[k].held = {}
    /\ Goes(k, IF call[k].working THEN "stray" ELSE "idle")
    /\ UNCHANGED <<active, admission, lane, passthrough, grants, ending, ended, swept>>

\* The worker of an aborted call ends when its input is done.
StrayEnds(k) ==
    /\ At(k, "stray")
    /\ call' = [call EXCEPT ![k].at = "idle", ![k].working = FALSE]
    /\ UNCHANGED <<active, admission, lane, passthrough, grants, ending, ended, swept>>

-----------------------------------------------------------------------------
(* Sessions (SessionLifecycle, whose races are left out here)                *)

EndSession(s) ==
    /\ s \notin ended
    /\ IF InFlight(s) = {} THEN ended' = ended \cup {s} /\ ending' = ending \ {s}
                           ELSE ending' = ending \cup {s} /\ UNCHANGED ended
    /\ UNCHANGED <<call, active, admission, lane, passthrough, grants, swept>>

\* The registry's hook revokes the session's grants.
RunEndHook(s) ==
    /\ s \in ended \ swept
    /\ swept'  = swept \cup {s}
    /\ grants' = grants \ {s}
    /\ UNCHANGED <<call, active, admission, lane, passthrough, ending, ended>>

ReviveSession(s) ==
    /\ s \in swept
    /\ ended' = ended \ {s} /\ swept' = swept \ {s}
    /\ UNCHANGED <<call, active, admission, lane, passthrough, grants, ending>>

-----------------------------------------------------------------------------

\* What a call does when it is neither refused nor aborted.
Proceed(k) ==
    \/ AdmitText(k) \/ LookupGrant(k) \/ RecheckGrant(k) \/ Accept(k) \/ Decline(k)
    \/ GuardSession(k) \/ AskForLane(k) \/ TakeLane(k) \/ YieldPointer(k) \/ YieldFails(k)
    \/ InvokeQuery(k) \/ Complete(k) \/ Return(k) \/ StrayEnds(k)
    \/ \E g \in call[k].held : Drop(k, g)

Next ==
    \/ \E k \in Calls :
          \/ \E request \in Requests, s \in Sessions : Enter(k, request, s)
          \/ Refuse(k) \/ Abort(k) \/ Proceed(k)
    \/ \E s \in Sessions : EndSession(s) \/ RunEndHook(s) \/ ReviveSession(s) \/ ExpireGrant(s)

Spec == Init /\ [][Next]_vars

\* Tasks are scheduled, both queues are fair (tokio's mutex hands the lock to the
\* first waiter), a prompt is over when its request expires, and a worker ends.
FairSpec == Spec /\ \A k \in Calls : WF_vars(Proceed(k))

-----------------------------------------------------------------------------

Guards == {"text", "admission", "session", "lane", "pip"}
Stages == {"idle", "entered", "adapters", "queue", "prompt", "commit", "begun", "lane", "yield",
           "invoke", "finish", "unwind", "stray"}
CallStates == [at : Stages, request : Requests, session : Sessions, held : SUBSET Guards,
               working : BOOLEAN]

TypeOK ==
    /\ call \in [Calls -> CallStates]
    /\ active \subseteq Pids /\ passthrough \in BOOLEAN
    /\ admission \in Seq(Calls) /\ lane \in Seq(Calls)
    /\ grants \subseteq Sessions
    /\ ending \subseteq Sessions /\ ended \subseteq Sessions /\ swept \subseteq ended

\* While a call's worker moves the pointer or types, no other call's does and the
\* overlay lets it through ("one process-global passthrough scope is sufficient",
\* pip_hook.rs 66); the overlay has the pointer back when no call holds it.  A
\* process is marked as typed into while one call types, so that no text to it is
\* refused for good (tool.rs 93).
Acting(k)   == At(k, "invoke") /\ Physical(k)
Typing(k, p) == "text" \in call[k].held /\ call[k].request.pid = p

InputIsExclusive ==
    /\ \A k, j \in Calls : Acting(k) /\ Acting(j) => k = j
    /\ \A k \in Calls : Acting(k) => passthrough
    /\ passthrough <=> \E k \in Calls : "pip" \in call[k].held
    /\ \A p \in Pids : p \in active <=> \E k \in Calls : Typing(k, p)
    /\ \A k, j \in Calls, p \in Pids : Typing(k, p) /\ Typing(j, p) => k = j

\* Who waits for a lock stands in its queue, once, so that an aborted wait keeps no
\* place that nobody would take.  And the lock is with a call that waits for none:
\* the calls never wait for one another in a circle.
InTurn(queue, at) ==
    /\ \A k \in Calls : At(k, at) <=> \E i \in DOMAIN queue : queue[i] = k
    /\ \A i, j \in DOMAIN queue : queue[i] = queue[j] => i = j

WaitersInTurn ==
    /\ InTurn(admission, "queue") /\ InTurn(lane, "lane")
    /\ \A k \in Calls :
          /\ "admission" \in call[k].held => call[k].at \in {"prompt", "unwind"}
          /\ "lane" \in call[k].held => call[k].at \in {"yield", "invoke", "finish", "unwind"}
    /\ \A k, j \in Calls, g \in {"admission", "lane"} :
          g \in call[k].held \cap call[j].held => k = j

\* What the guards and the queues say agrees with what the calls do.
GuardsAgree == InputIsExclusive /\ WaitersInTurn

\* The host is asked only for a grant that is missing, however many calls found it
\* missing at once, waited for one another, were aborted or declined meanwhile: who
\* waited looks again ("so a peer that just approved the same exact scope supplies
\* the grant", consent.rs 419-421), and nobody can store a grant while another asks.
PromptIsNeeded == \A k \in Calls : At(k, "prompt") => call[k].session \notin grants

\* What the adapter states of a grant: the session's end revokes it ("session_end",
\* authorization.rs 381 and 452).  The code does not keep it: the host may answer
\* after the end hook has run, and the grant is stored all the same (consent.rs 462).
GrantEndsWithSession == grants \cap swept = {}

\* A call that is let through is over: no wait for text, consent, lane or a
\* session's end is for a call that waits for it.
EveryCallReturns == \A k \in Calls : ~At(k, "idle") ~> call[k].at \in {"idle", "stray"}

==============================================================================
