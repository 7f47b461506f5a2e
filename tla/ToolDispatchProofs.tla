------------------------- MODULE ToolDispatchProofs --------------------------
(* Proofs about ToolDispatch, for any number of calls, sessions and          *)
(* processes.                                                                *)
EXTENDS ToolDispatch, SequenceTheorems, TLAPS

(* Typing                                                                    *)

LEMMA CallType ==
    ASSUME NEW at \in Stages, NEW request \in Requests, NEW s \in Sessions,
           NEW held \in SUBSET Guards, NEW working \in BOOLEAN
    PROVE  Call(at, request, s, held, working) \in CallStates
BY DEF Call, CallStates

LEMMA CallFields ==
    ASSUME NEW c \in CallStates
    PROVE  /\ c.at \in Stages /\ c.request \in Requests /\ c.session \in Sessions
           /\ c.held \in SUBSET Guards /\ c.working \in BOOLEAN
BY DEF CallStates

LEMMA CallUpdates ==
    ASSUME NEW c \in CallStates
    PROVE  /\ \A at \in Stages : [c EXCEPT !.at = at] \in CallStates
           /\ \A held \in SUBSET Guards : [c EXCEPT !.held = held] \in CallStates
           /\ \A at \in Stages, held \in SUBSET Guards :
                 [c EXCEPT !.at = at, !.held = held] \in CallStates
           /\ \A at \in Stages, working \in BOOLEAN :
                 [c EXCEPT !.at = at, !.working = working] \in CallStates
           /\ \A at \in Stages, held \in SUBSET Guards, working \in BOOLEAN :
                 [c EXCEPT !.at = at, !.held = held, !.working = working] \in CallStates
BY DEF CallStates

LEMMA RequestPids ==
    ASSUME NEW r \in Requests
    PROVE  /\ r = Query \/ r = Pointer \/ r.kind = "type"
           /\ Marks(r) => r.pid \in Pids
BY DEF Requests, Text, Pointer, Query, Marks

LEMMA WithoutTyped ==
    ASSUME NEW S, NEW q \in Seq(S), NEW k PROVE Without(q, k) \in Seq(S)
<1>1. CASE \E i \in DOMAIN q : q[i] = k
  <2> DEFINE i == CHOOSE i \in DOMAIN q : q[i] = k
  <2>1. i \in 1..Len(q)
    BY <1>1
  <2> HIDE DEF i
  <2>2. SubSeq(q, 1, i - 1) \in Seq(S) /\ SubSeq(q, i + 1, Len(q)) \in Seq(S)
    <3>1. /\ \A j \in 1 .. i - 1 : q[j] \in S
          /\ \A j \in i + 1 .. Len(q) : q[j] \in S
      BY <2>1, ElementOfSeq
    <3> QED
      BY <2>1, <3>1, SubSeqProperties
  <2> QED
    BY <1>1, <2>2 DEF Without, i
<1>2. CASE ~\E i \in DOMAIN q : q[i] = k
  BY <1>2 DEF Without
<1> QED
  BY <1>1, <1>2

LEMMA GoesTyped ==
    ASSUME TypeOK, NEW k \in Calls, NEW at \in Stages, Goes(k, at)
    PROVE  call' \in [Calls -> CallStates]
<1>1. call[k] \in CallStates
  BY DEF TypeOK
<1> QED
  BY <1>1, CallUpdates DEF Goes, TypeOK

LEMMA GoesWithTyped ==
    ASSUME TypeOK, NEW k \in Calls, NEW at \in Stages, NEW g \in Guards, GoesWith(k, at, g)
    PROVE  call' \in [Calls -> CallStates]
<1>1. call[k] \in CallStates
  BY DEF TypeOK
<1>2. call[k].held \cup {g} \in SUBSET Guards
  BY <1>1, CallFields
<1> QED
  BY <1>1, <1>2, CallUpdates DEF GoesWith, TypeOK

LEMMA TypedInit == Init => TypeOK
<1> SUFFICES ASSUME Init PROVE TypeOK
  OBVIOUS
<1>1. PICK s \in Sessions : call = [k \in Calls |-> Idle(s)]
  BY DEF Init
<1>2. Idle(s) \in CallStates
  BY CallType DEF Idle, Stages, Requests, Guards
<1>3. call \in [Calls -> CallStates]
  BY <1>1, <1>2
<1>4. <<>> \in Seq(Calls)
  OBVIOUS
<1> QED
  BY <1>3, <1>4 DEF Init, TypeOK

LEMMA TypedNext == TypeOK /\ [Next]_vars => TypeOK'
<1> SUFFICES ASSUME TypeOK, [Next]_vars PROVE TypeOK'
  OBVIOUS
<1> USE DEF Stages, Guards
<1>a. \A k \in Calls : call[k] \in CallStates
  BY DEF TypeOK
<1>1. ASSUME NEW k \in Calls, NEW request \in Requests, NEW s \in Sessions, Enter(k, request, s)
      PROVE  TypeOK'
  <2>1. Call("entered", request, s, {}, FALSE) \in CallStates
    BY CallType
  <2> QED
    BY <1>1, <2>1 DEF Enter, TypeOK
<1>2. ASSUME NEW k \in Calls, AdmitText(k) PROVE TypeOK'
  <2>1. call' \in [Calls -> CallStates]
    BY <1>2, GoesTyped, GoesWithTyped DEF AdmitText
  <2>2. active' \subseteq Pids
    BY <1>2, <1>a, CallFields, RequestPids DEF AdmitText, TypeOK
  <2> QED
    BY <1>2, <2>1, <2>2 DEF AdmitText, TypeOK
<1>3. ASSUME NEW k \in Calls, Refuse(k) \/ Decline(k) \/ YieldFails(k) PROVE TypeOK'
  <2>1. call' \in [Calls -> CallStates]
    BY <1>3, GoesTyped DEF Refuse, Decline, YieldFails
  <2> QED
    BY <1>3, <2>1 DEF Refuse, Decline, YieldFails, TypeOK
<1>4. ASSUME NEW k \in Calls, Abort(k) PROVE TypeOK'
  <2>1. call' \in [Calls -> CallStates]
    BY <1>4, GoesTyped DEF Abort
  <2>2. admission' \in Seq(Calls) /\ lane' \in Seq(Calls)
    BY <1>4, WithoutTyped DEF Abort, TypeOK
  <2> QED
    BY <1>4, <2>1, <2>2 DEF Abort, TypeOK
<1>5. ASSUME NEW k \in Calls, LookupGrant(k) PROVE TypeOK'
  <2>1. call' \in [Calls -> CallStates]
    BY <1>5, GoesTyped DEF LookupGrant
  <2>2. Append(admission, k) \in Seq(Calls) /\ admission \in Seq(Calls)
    BY DEF TypeOK
  <2> QED
    BY <1>5, <2>1, <2>2 DEF LookupGrant, TypeOK
<1>6. ASSUME NEW k \in Calls, RecheckGrant(k) PROVE TypeOK'
  <2>1. call' \in [Calls -> CallStates]
    BY <1>6, GoesTyped, GoesWithTyped DEF RecheckGrant
  <2>2. admission' \in Seq(Calls)
    BY <1>6, HeadTailProperties DEF RecheckGrant, First, TypeOK
  <2> QED
    BY <1>6, <2>1, <2>2 DEF RecheckGrant, TypeOK
<1>7. ASSUME NEW k \in Calls, Accept(k) PROVE TypeOK'
  <2>1. call[k].held \ {"admission"} \in SUBSET Guards /\ call[k].session \in Sessions
    BY <1>a, CallFields
  <2>2. call' \in [Calls -> CallStates]
    BY <1>7, <1>a, <2>1, CallUpdates DEF Accept, TypeOK
  <2> QED
    BY <1>7, <2>1, <2>2 DEF Accept, TypeOK
<1>8. ASSUME NEW k \in Calls, GuardSession(k) PROVE TypeOK'
  <2>1. call' \in [Calls -> CallStates]
    BY <1>8, GoesTyped, GoesWithTyped DEF GuardSession
  <2> QED
    BY <1>8, <2>1 DEF GuardSession, TypeOK
<1>9. ASSUME NEW k \in Calls, AskForLane(k) PROVE TypeOK'
  <2>1. call' \in [Calls -> CallStates]
    BY <1>9, GoesTyped DEF AskForLane
  <2> QED
    BY <1>9, <2>1 DEF AskForLane, TypeOK
<1>10. ASSUME NEW k \in Calls, TakeLane(k) PROVE TypeOK'
  <2>1. call' \in [Calls -> CallStates]
    BY <1>10, GoesWithTyped DEF TakeLane
  <2>2. lane' \in Seq(Calls)
    BY <1>10, HeadTailProperties DEF TakeLane, First, TypeOK
  <2> QED
    BY <1>10, <2>1, <2>2 DEF TakeLane, TypeOK
<1>11. ASSUME NEW k \in Calls, YieldPointer(k) PROVE TypeOK'
  <2>1. call[k].held \cup {"pip"} \in SUBSET Guards
    BY <1>a, CallFields
  <2>2. call' \in [Calls -> CallStates]
    BY <1>11, <1>a, <2>1, CallUpdates DEF YieldPointer, TypeOK
  <2> QED
    BY <1>11, <2>2 DEF YieldPointer, TypeOK
<1>12. ASSUME NEW k \in Calls, InvokeQuery(k) \/ Complete(k) \/ StrayEnds(k) PROVE TypeOK'
  <2>1. call' \in [Calls -> CallStates]
    <3>1. [call[k] EXCEPT !.at = "invoke", !.working = TRUE] \in CallStates
      BY <1>a, CallUpdates
    <3>2. /\ [call[k] EXCEPT !.at = "finish", !.working = FALSE] \in CallStates
          /\ [call[k] EXCEPT !.at = "idle", !.working = FALSE] \in CallStates
      BY <1>a, CallUpdates
    <3> QED
      BY <1>12, <3>1, <3>2 DEF InvokeQuery, Complete, StrayEnds, TypeOK
  <2> QED
    BY <1>12, <2>1 DEF InvokeQuery, Complete, StrayEnds, TypeOK
<1>13. ASSUME NEW k \in Calls, Return(k) PROVE TypeOK'
  <2>1. call' \in [Calls -> CallStates]
    BY <1>13, GoesTyped DEF Return
  <2> QED
    BY <1>13, <2>1 DEF Return, TypeOK
<1>14. ASSUME NEW k \in Calls, NEW g \in call[k].held, Drop(k, g) PROVE TypeOK'
  <2>1. call[k].held \ {g} \in SUBSET Guards /\ call[k].session \in Sessions
    BY <1>a, CallFields
  <2>2. call' \in [Calls -> CallStates]
    BY <1>14, <1>a, <2>1, CallUpdates DEF Drop, TypeOK
  <2>3. passthrough' \in BOOLEAN
    BY <1>14 DEF Drop, TypeOK
  <2>4. ending' \subseteq Sessions /\ ended' \subseteq Sessions /\ swept' \subseteq ended'
    BY <1>14, <2>1 DEF Drop, TypeOK
  <2>5. active' \subseteq Pids
    BY <1>14 DEF Drop, TypeOK
  <2> QED
    BY <1>14, <2>2, <2>3, <2>4, <2>5 DEF Drop, TypeOK
<1>15. ASSUME NEW s \in Sessions,
              EndSession(s) \/ RunEndHook(s) \/ ReviveSession(s) \/ ExpireGrant(s)
       PROVE  TypeOK'
  BY <1>15 DEF EndSession, RunEndHook, ReviveSession, ExpireGrant, TypeOK
<1>16. CASE UNCHANGED vars
  BY <1>16 DEF vars, TypeOK
<1> QED
  BY <1>1, <1>2, <1>3, <1>4, <1>5, <1>6, <1>7, <1>8, <1>9, <1>10, <1>11, <1>12, <1>13, <1>14,
     <1>15, <1>16 DEF Next, Proceed

\* The type invariant: the guards of a call are those of its frame.
THEOREM TypeCorrect == Spec => []TypeOK
BY TypedInit, TypedNext, PTL DEF Spec

-----------------------------------------------------------------------------
(* The lane, the pointer and the marks.                                      *)

Before == {"idle", "entered", "stray"}
Has(k, g) == g \in call[k].held

\* What the guards of a frame say of where it is: the pointer is taken under the
\* lane, and a call acts under both.
Framed(k) ==
    /\ call[k].at \in Before => call[k].held = {}
    /\ Has(k, "pip") => Has(k, "lane")
    /\ At(k, "yield") => Has(k, "lane")
    /\ Acting(k) => Has(k, "pip")

OneLane  == \A k, j \in Calls : Has(k, "lane") /\ Has(j, "lane") => k = j
Passes   == passthrough <=> \E k \in Calls : Has(k, "pip")
Marked   == \A p \in Pids : p \in active <=> \E k \in Calls : Typing(k, p)
OneTypes == \A k, j \in Calls, p \in Pids : Typing(k, p) /\ Typing(j, p) => k = j

Serial == (\A k \in Calls : Framed(k)) /\ OneLane /\ Passes /\ Marked /\ OneTypes

LEMMA SerialExcludes == Serial => InputIsExclusive
BY DEF Serial, Framed, OneLane, Passes, Marked, OneTypes, Has, InputIsExclusive

LEMMA SerialInit == Init => Serial
<1> SUFFICES ASSUME Init PROVE Serial
  OBVIOUS
<1>1. PICK s \in Sessions : call = [k \in Calls |-> Idle(s)]
  BY DEF Init
<1>2. \A k \in Calls : call[k].at = "idle" /\ call[k].held = {}
  BY <1>1 DEF Idle, Call
<1> QED
  BY <1>2
     DEF Init, Serial, Framed, OneLane, Passes, Marked, OneTypes, Has, Typing, At, Acting

\* A step that moves a call on and leaves the three guards of its input alone.
LEMMA QuietStep ==
    ASSUME Serial, NEW k \in Calls, UNCHANGED <<active, passthrough>>,
           \A j \in Calls \ {k} : call'[j] = call[j],
           call'[k].request = call[k].request,
           \A g \in {"text", "lane", "pip"} : g \in call'[k].held <=> Has(k, g),
           call'[k].at \in Before => call'[k].held = {},
           call'[k].at # "yield",
           call'[k].at = "invoke" => ~Physical(k)
    PROVE  Serial'
<1>1. /\ \A j \in Calls : Has(j, "text")' <=> Has(j, "text")
      /\ \A j \in Calls : Has(j, "lane")' <=> Has(j, "lane")
      /\ \A j \in Calls : Has(j, "pip")' <=> Has(j, "pip")
      /\ \A j \in Calls : call'[j].request = call[j].request
  BY DEF Has
<1>2. ASSUME NEW j \in Calls PROVE Framed(j)'
  <2>1. CASE j = k
    BY <1>1, <2>1 DEF Serial, Framed, Has, Acting, At, Physical
  <2>2. CASE j # k
    BY <2>2 DEF Serial, Framed, Has, Acting, At, Physical
  <2> QED
    BY <2>1, <2>2
<1>3. OneLane' /\ Passes'
  BY <1>1 DEF Serial, OneLane, Passes
<1>4. \A j \in Calls, p \in Pids : Typing(j, p)' <=> Typing(j, p)
  BY <1>1 DEF Typing, Has
<1>5. Marked' /\ OneTypes'
  BY <1>4 DEF Serial, Marked, OneTypes
<1> QED
  BY <1>2, <1>3, <1>5 DEF Serial

LEMMA SerialEnter ==
    ASSUME TypeOK, Serial, NEW k \in Calls, NEW request \in Requests, NEW s \in Sessions,
           Enter(k, request, s)
    PROVE  Serial'
<1>1. call'[k] = Call("entered", request, s, {}, FALSE) /\ call[k].held = {}
  BY DEF Enter, TypeOK, Serial, Framed, At, Before
<1>2. \A j \in Calls \ {k} : call'[j] = call[j]
  BY DEF Enter, TypeOK
<1>3. \A j \in Calls : call'[j].held = call[j].held
  BY <1>1, <1>2 DEF Call
<1>4. ASSUME NEW j \in Calls PROVE Framed(j)'
  <2>1. CASE j = k
    BY <1>1, <2>1 DEF Call, Framed, Has, Acting, At
  <2>2. CASE j # k
    BY <1>2, <2>2 DEF Serial, Framed, Has, Acting, At, Physical
  <2> QED
    BY <2>1, <2>2
<1>5. \A j \in Calls, p \in Pids : Typing(j, p)' <=> Typing(j, p)
  BY <1>1, <1>2, <1>3 DEF Typing
<1>6. OneLane' /\ Passes'
  BY <1>3 DEF Enter, Serial, OneLane, Passes, Has
<1>7. Marked' /\ OneTypes'
  BY <1>5 DEF Enter, Serial, Marked, OneTypes
<1> QED
  BY <1>4, <1>6, <1>7 DEF Serial

\* A process that nobody types into gets its one call.
LEMMA SerialMark ==
    ASSUME TypeOK, Serial, NEW k \in Calls, At(k, "entered"),
           call[k].request.pid \notin active, Marks(call[k].request),
           active' = active \cup {call[k].request.pid},
           GoesWith(k, "adapters", "text"), UNCHANGED passthrough
    PROVE  Serial'
<1> DEFINE p0 == call[k].request.pid
<1>1. /\ call'[k].at = "adapters" /\ call'[k].held = {"text"}
      /\ call'[k].request = call[k].request /\ call[k].held = {}
  BY DEF GoesWith, TypeOK, CallStates, Serial, Framed, At, Before
<1>2. \A j \in Calls \ {k} : call'[j] = call[j]
  BY DEF GoesWith, TypeOK
<1>3. \A g \in {"lane", "pip"}, j \in Calls : Has(j, g)' <=> Has(j, g)
  BY <1>1, <1>2 DEF Has
<1>4. ASSUME NEW j \in Calls PROVE Framed(j)'
  <2>1. CASE j = k
    BY <1>1, <2>1 DEF Framed, Has, Acting, At, Before
  <2>2. CASE j # k
    BY <1>2, <2>2 DEF Serial, Framed, Has, Acting, At, Physical
  <2> QED
    BY <2>1, <2>2
<1>5. p0 \in Pids
  BY CallFields, RequestPids DEF TypeOK
<1>6. \A j \in Calls : ~Typing(j, p0)
  BY <1>5 DEF Serial, Marked
<1>7. \A j \in Calls, p \in Pids : Typing(j, p)' <=> Typing(j, p) \/ (j = k /\ p = p0)
  BY <1>1, <1>2 DEF Typing
<1>8. Marked'
  BY <1>5, <1>7 DEF Serial, Marked
<1>9. OneTypes'
  BY <1>6, <1>7 DEF Serial, OneTypes
<1> QED
  BY <1>3, <1>4, <1>8, <1>9 DEF Serial, OneLane, Passes

LEMMA SerialLane ==
    ASSUME TypeOK, Serial, NEW k \in Calls, TakeLane(k) PROVE Serial'
<1>1. /\ call'[k].at = "yield" /\ call'[k].held = call[k].held \cup {"lane"}
      /\ call'[k].request = call[k].request
  BY DEF TakeLane, GoesWith, TypeOK, CallStates
<1>2. \A j \in Calls \ {k} : call'[j] = call[j]
  BY DEF TakeLane, GoesWith, TypeOK
<1>3. \A g \in {"text", "pip"}, j \in Calls : Has(j, g)' <=> Has(j, g)
  BY <1>1, <1>2 DEF Has
<1>4. ASSUME NEW j \in Calls PROVE Framed(j)'
  <2>1. CASE j = k
    BY <1>1, <2>1 DEF Framed, Has, Acting, At, Before
  <2>2. CASE j # k
    BY <1>2, <2>2 DEF Serial, Framed, Has, Acting, At, Physical
  <2> QED
    BY <2>1, <2>2
<1>5. OneLane'
  BY <1>2 DEF TakeLane, Free, OneLane, Has
<1>6. \A j \in Calls, p \in Pids : Typing(j, p)' <=> Typing(j, p)
  BY <1>1, <1>2, <1>3 DEF Typing, Has
<1>7. Marked' /\ OneTypes'
  BY <1>6 DEF TakeLane, Serial, Marked, OneTypes
<1>8. Passes'
  BY <1>3 DEF TakeLane, Serial, Passes
<1> QED
  BY <1>4, <1>5, <1>7, <1>8 DEF Serial

LEMMA SerialYield ==
    ASSUME TypeOK, Serial, NEW k \in Calls, YieldPointer(k) PROVE Serial'
<1>1. /\ call'[k].at = "invoke" /\ call'[k].held = call[k].held \cup {"pip"}
      /\ call'[k].request = call[k].request /\ Has(k, "lane")
  BY DEF YieldPointer, TypeOK, CallStates, Serial, Framed, At
<1>2. \A j \in Calls \ {k} : call'[j] = call[j]
  BY DEF YieldPointer, TypeOK
<1>3. \A g \in {"text", "lane"}, j \in Calls : Has(j, g)' <=> Has(j, g)
  BY <1>1, <1>2 DEF Has
<1>4. ASSUME NEW j \in Calls PROVE Framed(j)'
  <2>1. CASE j = k
    BY <1>1, <2>1 DEF Framed, Has, Acting, At, Before
  <2>2. CASE j # k
    BY <1>2, <2>2 DEF Serial, Framed, Has, Acting, At, Physical
  <2> QED
    BY <2>1, <2>2
<1>5. \A j \in Calls, p \in Pids : Typing(j, p)' <=> Typing(j, p)
  BY <1>1, <1>2, <1>3 DEF Typing, Has
<1>6. Marked' /\ OneTypes'
  BY <1>5 DEF YieldPointer, Serial, Marked, OneTypes
<1>7. OneLane'
  BY <1>3 DEF Serial, OneLane
<1>8. Passes'
  BY <1>1 DEF YieldPointer, Passes, Has
<1> QED
  BY <1>4, <1>6, <1>7, <1>8 DEF Serial

LEMMA SerialDrop ==
    ASSUME TypeOK, Serial, NEW k \in Calls, NEW g \in call[k].held, Drop(k, g)
    PROVE  Serial'
<1>1. /\ call'[k].at = call[k].at /\ call'[k].held = call[k].held \ {g}
      /\ call'[k].request = call[k].request /\ call[k].at \in {"finish", "unwind"}
  BY DEF Drop, TypeOK, CallStates
<1>2. \A j \in Calls \ {k} : call'[j] = call[j]
  BY DEF Drop, TypeOK
<1>3. g = "lane" => ~Has(k, "pip")
  BY DEF Drop, DropOrder, Has
<1>4. ASSUME NEW j \in Calls PROVE Framed(j)'
  <2>1. CASE j = k
    BY <1>1, <1>3, <2>1 DEF Serial, Framed, Has, Acting, At, Before
  <2>2. CASE j # k
    BY <1>2, <2>2 DEF Serial, Framed, Has, Acting, At, Physical
  <2> QED
    BY <2>1, <2>2
<1>5. OneLane'
  BY <1>1, <1>2 DEF Serial, OneLane, Has
<1>6. Passes'
  <2>1. CASE g = "pip"
    <3>1. \A j \in Calls \ {k} : ~Has(j, "pip")
      BY <2>1 DEF Serial, Framed, OneLane, Has
    <3> QED
      BY <1>1, <1>2, <2>1, <3>1 DEF Drop, Passes, Has
  <2>2. CASE g # "pip"
    <3>1. \A j \in Calls : Has(j, "pip")' <=> Has(j, "pip")
      BY <1>1, <1>2, <2>2 DEF Has
    <3>2. passthrough' <=> passthrough
      BY <2>2 DEF Drop
    <3> QED
      BY <3>1, <3>2 DEF Serial, Passes
  <2> QED
    BY <2>1, <2>2
<1>7. OneTypes'
  BY <1>1, <1>2 DEF Serial, OneTypes, Typing
<1>8. Marked'
  <2>1. CASE g = "text"
    <3>1. \A j \in Calls \ {k} : ~Typing(j, call[k].request.pid) \/
                                   call[k].request.pid \notin Pids
      BY <2>1 DEF Serial, OneTypes, Typing
    <3>2. active' = active \ {call[k].request.pid}
      BY <2>1 DEF Drop
    <3> QED
      BY <1>1, <1>2, <2>1, <3>1, <3>2 DEF Serial, Marked, Typing
  <2>2. CASE g # "text"
    <3>1. \A j \in Calls, p \in Pids : Typing(j, p)' <=> Typing(j, p)
      BY <1>1, <1>2, <2>2 DEF Typing
    <3>2. active' = active
      BY <2>2 DEF Drop
    <3> QED
      BY <3>1, <3>2 DEF Serial, Marked
  <2> QED
    BY <2>1, <2>2
<1> QED
  BY <1>4, <1>5, <1>6, <1>7, <1>8 DEF Serial

\* The steps of a call that leave its input alone.
LEMMA SerialQuiet ==
    ASSUME TypeOK, Serial, NEW k \in Calls,
           \/ Refuse(k) \/ Abort(k) \/ LookupGrant(k) \/ RecheckGrant(k) \/ Accept(k)
           \/ Decline(k) \/ GuardSession(k) \/ AskForLane(k) \/ YieldFails(k) \/ InvokeQuery(k)
           \/ Complete(k) \/ Return(k) \/ StrayEnds(k)
    PROVE  Serial'
<1>1. UNCHANGED <<active, passthrough>>
  BY DEF Refuse, Abort, LookupGrant, RecheckGrant, Accept, Decline, GuardSession, AskForLane,
         YieldFails, InvokeQuery, Complete, Return, StrayEnds
<1>2. \A j \in Calls \ {k} : call'[j] = call[j]
  BY DEF Refuse, Abort, LookupGrant, RecheckGrant, Accept, Decline, GuardSession, AskForLane,
         YieldFails, InvokeQuery, Complete, Return, StrayEnds, Goes, GoesWith, TypeOK
<1>3. call[k] \in CallStates /\ call \in [Calls -> CallStates]
  BY DEF TypeOK
<1>4. CASE Refuse(k) \/ Abort(k) \/ Decline(k) \/ YieldFails(k)
  <2>1. /\ call'[k].at = "unwind" /\ call'[k].held = call[k].held
        /\ call'[k].request = call[k].request
    BY <1>3, <1>4 DEF Refuse, Abort, Decline, YieldFails, Goes, CallStates
  <2> QED
    BY <1>1, <1>2, <2>1, QuietStep DEF Before, Has
<1>5. CASE LookupGrant(k) \/ AskForLane(k)
  <2>1. /\ call'[k].at \in {"queue", "commit", "lane"} /\ call'[k].held = call[k].held
        /\ call'[k].request = call[k].request
    BY <1>3, <1>5 DEF LookupGrant, AskForLane, Goes, CallStates
  <2> QED
    BY <1>1, <1>2, <2>1, QuietStep DEF Before, Has
<1>6. CASE RecheckGrant(k) \/ GuardSession(k)
  <2>1. /\ call'[k].at \in {"commit", "prompt", "unwind", "begun"}
        /\ call'[k].request = call[k].request
        /\ \/ call'[k].held = call[k].held
           \/ call'[k].held = call[k].held \cup {"admission"}
           \/ call'[k].held = call[k].held \cup {"session"}
    BY <1>3, <1>6 DEF RecheckGrant, GuardSession, Goes, GoesWith, CallStates
  <2> QED
    BY <1>1, <1>2, <2>1, QuietStep DEF Before, Has
<1>7. CASE Accept(k)
  <2>1. /\ call'[k].at = "commit" /\ call'[k].held = call[k].held \ {"admission"}
        /\ call'[k].request = call[k].request
    BY <1>3, <1>7 DEF Accept, CallStates
  <2> QED
    BY <1>1, <1>2, <2>1, QuietStep DEF Before, Has
<1>8. CASE InvokeQuery(k)
  <2>1. /\ call'[k].at = "invoke" /\ call'[k].held = call[k].held
        /\ call'[k].request = call[k].request /\ ~Physical(k)
    BY <1>3, <1>8 DEF InvokeQuery, CallStates
  <2> QED
    BY <1>1, <1>2, <2>1, QuietStep DEF Before, Has
<1>9. CASE Complete(k)
  <2>1. /\ call'[k].at = "finish" /\ call'[k].held = call[k].held
        /\ call'[k].request = call[k].request
    BY <1>3, <1>9 DEF Complete, CallStates
  <2> QED
    BY <1>1, <1>2, <2>1, QuietStep DEF Before, Has
<1>10. CASE Return(k) \/ StrayEnds(k)
  <2>1. call[k].held = {}
    BY <1>10 DEF Return, StrayEnds, Serial, Framed, At, Before
  <2>2. /\ call'[k].at \in {"idle", "stray"} /\ call'[k].held = {}
        /\ call'[k].request = call[k].request
    BY <1>3, <1>10, <2>1 DEF Return, StrayEnds, Goes, CallStates
  <2> QED
    BY <1>1, <1>2, <2>1, <2>2, QuietStep DEF Before, Has
<1> QED
  BY <1>4, <1>5, <1>6, <1>7, <1>8, <1>9, <1>10

LEMMA SerialAdmit ==
    ASSUME TypeOK, Serial, NEW k \in Calls, AdmitText(k) PROVE Serial'
<1>1. CASE GoesWith(k, "adapters", "text")
  <2>1. CASE active' = active \cup {call[k].request.pid} /\ Marks(call[k].request)
               /\ call[k].request.pid \notin active
    BY <2>1, <1>1, SerialMark DEF AdmitText
  <2>2. CASE Goes(k, "adapters") \/ Goes(k, "unwind")
    <3>1. call'[k].held = call[k].held /\ call'[k].held = call[k].held \cup {"text"}
      BY <1>1, <2>2 DEF Goes, GoesWith, TypeOK, CallStates
    <3>2. call[k].held = {}
      BY DEF AdmitText, Serial, Framed, At, Before
    <3> QED
      BY <3>1, <3>2
  <2> QED
    BY <2>1, <2>2 DEF AdmitText
<1>2. CASE (Goes(k, "adapters") \/ Goes(k, "unwind")) /\ UNCHANGED active
  <2>1. /\ call'[k].at \in {"adapters", "unwind"} /\ call'[k].held = call[k].held
        /\ call'[k].request = call[k].request
        /\ \A j \in Calls \ {k} : call'[j] = call[j]
    BY <1>2 DEF Goes, TypeOK, CallStates
  <2> QED
    BY <1>2, <2>1, QuietStep DEF AdmitText, Before, Has
<1> QED
  BY <1>1, <1>2 DEF AdmitText

LEMMA SerialNext == TypeOK /\ Serial /\ [Next]_vars => Serial'
<1> SUFFICES ASSUME TypeOK, Serial, [Next]_vars PROVE Serial'
  OBVIOUS
<1>1. ASSUME UNCHANGED <<call, active, passthrough>> PROVE Serial'
  BY <1>1 DEF Serial, Framed, OneLane, Passes, Marked, OneTypes, Has, Typing, At, Acting, Physical
<1>2. ASSUME NEW s \in Sessions,
             EndSession(s) \/ RunEndHook(s) \/ ReviveSession(s) \/ ExpireGrant(s)
      PROVE  Serial'
  BY <1>1, <1>2 DEF EndSession, RunEndHook, ReviveSession, ExpireGrant
<1>3. CASE UNCHANGED vars
  BY <1>1, <1>3 DEF vars
<1> QED
  BY <1>2, <1>3, SerialEnter, SerialAdmit, SerialLane, SerialYield, SerialDrop, SerialQuiet
     DEF Next, Proceed

LEMMA AlwaysSerial == Spec => []Serial
BY SerialInit, SerialNext, TypeCorrect, PTL DEF Spec

\* Input is serialized, the overlay lets exactly that input through, and a
\* process is marked while one call types into it, for any number of calls.
THEOREM InputExclusive == Spec => []InputIsExclusive
BY AlwaysSerial, SerialExcludes, PTL

-----------------------------------------------------------------------------
(* The queues of the lane and of the admission.                              *)

\* q holds the calls of W, each of them once.
Exactly(q, W) ==
    /\ \A k \in Calls : k \in W <=> \E i \in DOMAIN q : q[i] = k
    /\ \A i, j \in DOMAIN q : q[i] = q[j] => i = j

LEMMA ExactlyAppend ==
    ASSUME NEW q \in Seq(Calls), NEW W, Exactly(q, W), NEW k \in Calls, k \notin W
    PROVE  Exactly(Append(q, k), W \cup {k})
<1> DEFINE r == Append(q, k)
<1>1. /\ DOMAIN q = 1 .. Len(q) /\ DOMAIN r = 1 .. Len(q) + 1 /\ Len(q) \in Nat
      /\ r[Len(q) + 1] = k /\ \A i \in DOMAIN q : r[i] = q[i]
  OBVIOUS
<1>2. \A i \in DOMAIN q : q[i] # k
  BY DEF Exactly
<1> HIDE DEF r
<1>3. \A j \in Calls : j \in W \cup {k} <=> \E i \in DOMAIN r : r[i] = j
  <2> SUFFICES ASSUME NEW j \in Calls PROVE j \in W \cup {k} <=> \E i \in DOMAIN r : r[i] = j
    OBVIOUS
  <2>1. ASSUME j \in W PROVE \E i \in DOMAIN r : r[i] = j
    <3>1. PICK i \in DOMAIN q : q[i] = j
      BY <2>1 DEF Exactly
    <3> QED
      BY <1>1, <3>1
  <2>2. ASSUME NEW i \in DOMAIN r, r[i] = j PROVE j \in W \cup {k}
    <3>1. CASE i \in DOMAIN q
      BY <1>1, <2>2, <3>1 DEF Exactly
    <3>2. CASE i \notin DOMAIN q
      <4>1. i = Len(q) + 1
        BY <1>1, <3>2
      <4> QED
        BY <1>1, <2>2, <4>1
    <3> QED
      BY <3>1, <3>2
  <2> QED
    BY <1>1, <2>1, <2>2
<1>4. ASSUME NEW i \in DOMAIN r, NEW j \in DOMAIN r, r[i] = r[j] PROVE i = j
  <2>1. (i \in DOMAIN q \/ i = Len(q) + 1) /\ (j \in DOMAIN q \/ j = Len(q) + 1)
    BY <1>1
  <2> QED
    BY <1>1, <1>2, <1>4, <2>1 DEF Exactly
<1> QED
  BY <1>3, <1>4 DEF Exactly, r

LEMMA ExactlyTail ==
    ASSUME NEW q \in Seq(Calls), NEW W, Exactly(q, W), q # <<>>
    PROVE  Exactly(Tail(q), W \ {Head(q)})
<1> DEFINE r == Tail(q)
<1>1. /\ DOMAIN q = 1 .. Len(q) /\ DOMAIN r = 1 .. Len(q) - 1 /\ Len(q) \in Nat \ {0}
      /\ q[1] = Head(q) /\ \A i \in DOMAIN r : r[i] = q[i + 1] /\ i + 1 \in DOMAIN q
  OBVIOUS
<1> HIDE DEF r
<1>2. \A i \in DOMAIN q : q[i] = Head(q) => i = 1
  BY <1>1 DEF Exactly
<1>3. ASSUME NEW j \in Calls PROVE j \in W \ {Head(q)} <=> \E i \in DOMAIN r : r[i] = j
  <2>1. ASSUME j \in W, j # Head(q) PROVE \E i \in DOMAIN r : r[i] = j
    <3>1. PICK i \in DOMAIN q : q[i] = j
      BY <2>1 DEF Exactly
    <3>2. i # 1
      BY <1>1, <2>1, <3>1
    <3>3. i - 1 \in DOMAIN r /\ (i - 1) + 1 = i
      BY <1>1, <3>2
    <3> QED
      BY <1>1, <3>1, <3>3
  <2>2. ASSUME NEW i \in DOMAIN r, r[i] = j PROVE j \in W /\ j # Head(q)
    <3>1. i + 1 \in DOMAIN q /\ q[i + 1] = j /\ i + 1 # 1
      BY <1>1, <2>2
    <3> QED
      BY <1>2, <3>1 DEF Exactly
  <2> QED
    BY <2>1, <2>2
<1>4. ASSUME NEW i \in DOMAIN r, NEW j \in DOMAIN r, r[i] = r[j] PROVE i = j
  <2>1. i + 1 \in DOMAIN q /\ j + 1 \in DOMAIN q /\ q[i + 1] = q[j + 1]
    BY <1>1, <1>4
  <2>2. i + 1 = j + 1
    BY <2>1 DEF Exactly
  <2> QED
    BY <1>1, <2>2
<1> QED
  BY <1>3, <1>4 DEF Exactly, r

\* Where an element of the shorter queue stood, and where one of the longer goes.
LEMMA WithoutPlaces ==
    ASSUME NEW q \in Seq(Calls), NEW k, NEW n \in DOMAIN q, q[n] = k,
           \A i \in DOMAIN q : q[i] = k => i = n
    PROVE  /\ Without(q, k) \in Seq(Calls)
           /\ DOMAIN Without(q, k) = 1 .. Len(q) - 1
           /\ \A i \in 1 .. Len(q) - 1 :
                 Without(q, k)[i] = IF i < n THEN q[i] ELSE q[i + 1]
<1> DEFINE a == SubSeq(q, 1, n - 1)  b == SubSeq(q, n + 1, Len(q))
<1>1. n \in 1 .. Len(q) /\ Len(q) \in Nat /\ DOMAIN q = 1 .. Len(q)
  OBVIOUS
<1>2. Without(q, k) = a \o b
  <2>1. (CHOOSE i \in DOMAIN q : q[i] = k) = n
    OBVIOUS
  <2> QED
    BY <2>1 DEF Without
<1>3. /\ a \in Seq(Calls) /\ Len(a) = n - 1 /\ \A i \in 1 .. n - 1 : a[i] = q[i]
  <2>1. \A j \in 1 .. n - 1 : q[j] \in Calls
    BY <1>1, ElementOfSeq
  <2> QED
    BY <1>1, <2>1, SubSeqProperties
<1>4. /\ b \in Seq(Calls) /\ Len(b) = Len(q) - n
      /\ \A i \in 1 .. Len(q) - n : b[i] = q[n + i]
  <2>1. \A j \in n + 1 .. Len(q) : q[j] \in Calls
    BY <1>1, ElementOfSeq
  <2>2. b \in Seq(Calls) /\ Len(b) = IF n + 1 <= Len(q) THEN Len(q) - (n + 1) + 1 ELSE 0
    BY <1>1, <2>1, SubSeqProperties
  <2>3. \A i \in 1 .. Len(q) - (n + 1) + 1 : b[i] = q[n + 1 + i - 1]
    BY <1>1, <2>1, SubSeqProperties
  <2> QED
    BY <1>1, <2>2, <2>3
<1> HIDE DEF a, b
<1>5. /\ a \o b \in Seq(Calls) /\ Len(a \o b) = Len(q) - 1
      /\ \A i \in 1 .. Len(q) - 1 :
            (a \o b)[i] = IF i <= Len(a) THEN a[i] ELSE b[i - Len(a)]
  <2>1. a \o b \in Seq(Calls) /\ Len(a \o b) = Len(a) + Len(b)
    BY <1>3, <1>4, ConcatProperties
  <2>2. Len(a \o b) = Len(q) - 1
    BY <1>1, <1>3, <1>4, <2>1
  <2>3. \A i \in 1 .. Len(a) + Len(b) :
           (a \o b)[i] = IF i <= Len(a) THEN a[i] ELSE b[i - Len(a)]
    BY <1>3, <1>4, ConcatProperties
  <2> QED
    BY <2>1, <2>2, <2>3
<1>6. DOMAIN (a \o b) = 1 .. Len(q) - 1
  BY <1>5
<1>7. ASSUME NEW i \in 1 .. Len(q) - 1 PROVE (a \o b)[i] = IF i < n THEN q[i] ELSE q[i + 1]
  <2>1. CASE i < n
    <3>1. i \in 1 .. n - 1 /\ i <= Len(a)
      BY <1>1, <1>3, <2>1
    <3> QED
      BY <1>3, <1>5, <2>1, <3>1
  <2>2. CASE ~(i < n)
    <3>1. i - Len(a) \in 1 .. Len(q) - n /\ ~(i <= Len(a)) /\ n + (i - Len(a)) = i + 1
      BY <1>1, <1>3, <2>2
    <3>2. (a \o b)[i] = b[i - Len(a)]
      BY <1>5, <3>1
    <3> QED
      BY <1>4, <2>2, <3>1, <3>2
  <2> QED
    BY <2>1, <2>2
<1> QED
  BY <1>2, <1>5, <1>6, <1>7

LEMMA ExactlyWithout ==
    ASSUME NEW q \in Seq(Calls), NEW W, Exactly(q, W), NEW k \in Calls
    PROVE  Exactly(Without(q, k), W \ {k})
<1>1. CASE ~\E i \in DOMAIN q : q[i] = k
  <2>1. Without(q, k) = q
    BY <1>1 DEF Without
  <2>2. k \notin W
    BY <1>1 DEF Exactly
  <2>3. \A j \in Calls : j \in W \ {k} <=> j \in W
    BY <2>2
  <2> QED
    BY <2>1, <2>3 DEF Exactly
<1>2. ASSUME NEW n \in DOMAIN q, q[n] = k PROVE Exactly(Without(q, k), W \ {k})
  <2> DEFINE r == Without(q, k)
             Was(i) == IF i < n THEN i ELSE i + 1
  <2>1. \A i \in DOMAIN q : q[i] = k => i = n
    BY <1>2 DEF Exactly
  <2>2. n \in 1 .. Len(q) /\ Len(q) \in Nat /\ DOMAIN q = 1 .. Len(q)
    OBVIOUS
  <2>3. /\ DOMAIN r = 1 .. Len(q) - 1
        /\ \A i \in 1 .. Len(q) - 1 : r[i] = IF i < n THEN q[i] ELSE q[i + 1]
    BY <1>2, <2>1, WithoutPlaces
  <2> HIDE DEF r
  <2>4. \A i \in DOMAIN r : Was(i) \in DOMAIN q /\ Was(i) # n /\ r[i] = q[Was(i)]
    BY <2>2, <2>3
  <2>5. \A i, j \in DOMAIN r : Was(i) = Was(j) => i = j
    BY <2>2, <2>3
  <2>6. ASSUME NEW m \in DOMAIN q, m # n PROVE \E i \in DOMAIN r : r[i] = q[m]
    <3>1. CASE m < n
      BY <2>2, <2>3, <3>1
    <3>2. CASE ~(m < n)
      <4>1. m - 1 \in DOMAIN r /\ ~(m - 1 < n) /\ (m - 1) + 1 = m
        BY <2>2, <2>3, <2>6, <3>2
      <4> QED
        BY <2>3, <4>1
    <3> QED
      BY <3>1, <3>2
  <2> HIDE DEF Was
  <2>7. ASSUME NEW j \in Calls PROVE j \in W \ {k} <=> \E i \in DOMAIN r : r[i] = j
    <3>1. ASSUME j \in W, j # k PROVE \E i \in DOMAIN r : r[i] = j
      <4>1. PICK m \in DOMAIN q : q[m] = j
        BY <3>1 DEF Exactly
      <4> QED
        BY <1>2, <2>6, <3>1, <4>1
    <3>2. ASSUME NEW i \in DOMAIN r, r[i] = j PROVE j \in W /\ j # k
      BY <2>1, <2>4, <3>2 DEF Exactly
    <3> QED
      BY <3>1, <3>2
  <2>8. ASSUME NEW i \in DOMAIN r, NEW j \in DOMAIN r, r[i] = r[j] PROVE i = j
    <3>1. q[Was(i)] = q[Was(j)] /\ Was(i) \in DOMAIN q /\ Was(j) \in DOMAIN q
      BY <2>4, <2>8
    <3>2. Was(i) = Was(j)
      BY <3>1 DEF Exactly
    <3> QED
      BY <2>5, <3>2
  <2> QED
    BY <2>7, <2>8 DEF Exactly, r
<1> QED
  BY <1>1, <1>2

Waiters(at) == {k \in Calls : At(k, at)}

LEMMA TurnIsExactly ==
    ASSUME NEW q, NEW at PROVE InTurn(q, at) <=> Exactly(q, Waiters(at))
BY DEF InTurn, Exactly, Waiters

\* A lock is with one call, and with one that waits for none.
OneHolds(g, places) ==
    /\ \A k \in Calls : Has(k, g) => call[k].at \in places
    /\ \A k, j \in Calls : Has(k, g) /\ Has(j, g) => k = j

LaneIsHeld      == OneHolds("lane", {"yield", "invoke", "finish", "unwind"})
AdmissionIsHeld == OneHolds("admission", {"prompt", "unwind"})

Turns == InTurn(admission, "queue") /\ InTurn(lane, "lane") /\ LaneIsHeld /\ AdmissionIsHeld

LEMMA TurnsAreWaits == Turns => WaitersInTurn
BY DEF Turns, LaneIsHeld, AdmissionIsHeld, OneHolds, Has, WaitersInTurn

LEMMA TurnsInit == Init => Turns
<1> SUFFICES ASSUME Init PROVE Turns
  OBVIOUS
<1>1. PICK s \in Sessions : call = [k \in Calls |-> Idle(s)]
  BY DEF Init
<1>2. \A k \in Calls : call[k].at = "idle" /\ call[k].held = {}
  BY <1>1 DEF Idle, Call
<1>3. admission = <<>> /\ lane = <<>>
  BY DEF Init
<1> QED
  BY <1>2, <1>3 DEF Turns, InTurn, LaneIsHeld, AdmissionIsHeld, OneHolds, Has, At

\* A step of one call that waits for neither lock before or after and keeps or
\* gives back what it holds of them.
LEMMA TurnsApart ==
    ASSUME Turns, NEW k \in Calls, UNCHANGED <<admission, lane>>,
           \A j \in Calls \ {k} : call'[j] = call[j],
           {call[k].at, call'[k].at} \cap {"queue", "lane"} = {},
           \A g \in {"admission", "lane"} : Has(k, g)' => Has(k, g),
           Has(k, "lane")' => call'[k].at \in {"yield", "invoke", "finish", "unwind"},
           Has(k, "admission")' => call'[k].at \in {"prompt", "unwind"}
    PROVE  Turns'
<1>1. /\ \A j \in Calls : At(j, "queue")' <=> At(j, "queue")
      /\ \A j \in Calls : At(j, "lane")' <=> At(j, "lane")
  BY DEF At
<1>2. InTurn(admission, "queue")' /\ InTurn(lane, "lane")'
  BY <1>1 DEF Turns, InTurn
<1>3. LaneIsHeld'
  BY DEF Turns, LaneIsHeld, OneHolds, Has
<1>4. AdmissionIsHeld'
  BY DEF Turns, AdmissionIsHeld, OneHolds, Has
<1> QED
  BY <1>2, <1>3, <1>4 DEF Turns

LEMMA TurnsAppend ==
    ASSUME NEW q \in Seq(Calls), NEW at, InTurn(q, at), NEW k \in Calls, ~At(k, at), At(k, at)',
           \A j \in Calls \ {k} : call'[j] = call[j]
    PROVE  Exactly(Append(q, k), Waiters(at)')
<1>1. Exactly(Append(q, k), Waiters(at) \cup {k})
  BY ExactlyAppend, TurnIsExactly DEF Waiters
<1>2. Waiters(at)' = Waiters(at) \cup {k}
  BY DEF Waiters, At
<1> QED
  BY <1>1, <1>2

LEMMA TurnsTail ==
    ASSUME NEW q \in Seq(Calls), NEW at, InTurn(q, at), NEW k \in Calls, First(q, k), ~At(k, at)',
           \A j \in Calls \ {k} : call'[j] = call[j]
    PROVE  Exactly(Tail(q), Waiters(at)')
<1>1. Exactly(Tail(q), Waiters(at) \ {k})
  BY ExactlyTail, TurnIsExactly DEF First
<1>2. Waiters(at)' = Waiters(at) \ {k}
  BY DEF Waiters, At
<1> QED
  BY <1>1, <1>2

LEMMA TurnsWithout ==
    ASSUME NEW q \in Seq(Calls), NEW at, InTurn(q, at), NEW k \in Calls, ~At(k, at)',
           \A j \in Calls \ {k} : call'[j] = call[j]
    PROVE  Exactly(Without(q, k), Waiters(at)')
<1>1. Exactly(Without(q, k), Waiters(at) \ {k})
  BY ExactlyWithout, TurnIsExactly
<1>2. Waiters(at)' = Waiters(at) \ {k}
  BY DEF Waiters, At
<1> QED
  BY <1>1, <1>2

\* Only the call of a step moves.
LEMMA OneMoves ==
    ASSUME TypeOK, NEW k \in Calls,
           \/ \E request \in Requests, s \in Sessions : Enter(k, request, s)
           \/ Refuse(k) \/ Abort(k) \/ Proceed(k)
    PROVE  \A j \in Calls \ {k} : call'[j] = call[j]
BY DEF Proceed, Enter, AdmitText, Refuse, Abort, LookupGrant, RecheckGrant, Accept, Decline,
       GuardSession, AskForLane, TakeLane, YieldPointer, YieldFails, InvokeQuery, Complete, Drop,
       Return, StrayEnds, Goes, GoesWith, TypeOK

\* The step of a call that waits for neither lock and will not.
LEMMA TurnsPass ==
    ASSUME TypeOK, Turns, NEW k \in Calls,
           \/ \E request \in Requests, s \in Sessions : Enter(k, request, s)
           \/ AdmitText(k) \/ Refuse(k) \/ Accept(k) \/ Decline(k) \/ GuardSession(k)
           \/ YieldPointer(k) \/ YieldFails(k) \/ InvokeQuery(k) \/ Complete(k) \/ Return(k)
           \/ StrayEnds(k) \/ \E g \in call[k].held : Drop(k, g)
    PROVE  Turns'
<1>1. UNCHANGED <<admission, lane>> /\ \A j \in Calls \ {k} : call'[j] = call[j]
  <2>1. UNCHANGED <<admission, lane>>
    BY DEF Enter, AdmitText, Refuse, Accept, Decline, GuardSession, YieldPointer, YieldFails,
           InvokeQuery, Complete, Drop, Return, StrayEnds
  <2> QED
    BY <2>1, OneMoves DEF Proceed
<1>2. call[k] \in CallStates /\ call \in [Calls -> CallStates]
  BY DEF TypeOK
<1>3. /\ Has(k, "lane") => call[k].at \in {"yield", "invoke", "finish", "unwind"}
      /\ Has(k, "admission") => call[k].at \in {"prompt", "unwind"}
  BY DEF Turns, LaneIsHeld, AdmissionIsHeld, OneHolds
<1>4. CASE \E request \in Requests, s \in Sessions : Enter(k, request, s)
  <2>1. call[k].at = "idle" /\ call'[k].at = "entered" /\ call'[k].held = {}
    BY <1>2, <1>4 DEF Enter, Call, At
  <2> QED
    BY <1>1, <2>1, TurnsApart DEF Has
<1>5. CASE AdmitText(k)
  <2>1. /\ call[k].at = "entered" /\ call'[k].at \in {"adapters", "unwind"}
        /\ call'[k].held \subseteq call[k].held \cup {"text"}
    BY <1>2, <1>5 DEF AdmitText, Goes, GoesWith, At, CallStates
  <2> QED
    BY <1>1, <1>3, <2>1, TurnsApart DEF Has
<1>6. CASE Refuse(k) \/ Decline(k) \/ YieldFails(k)
  <2>1. /\ call[k].at \in {"adapters", "commit", "prompt", "yield"}
        /\ call'[k].at = "unwind" /\ call'[k].held = call[k].held
    BY <1>2, <1>6 DEF Refuse, Decline, YieldFails, Goes, At, CallStates
  <2> QED
    BY <1>1, <1>3, <2>1, TurnsApart DEF Has
<1>7. CASE Accept(k)
  <2>1. /\ call[k].at = "prompt" /\ call'[k].at = "commit"
        /\ call'[k].held = call[k].held \ {"admission"}
    BY <1>2, <1>7 DEF Accept, At, CallStates
  <2> QED
    BY <1>1, <1>3, <2>1, TurnsApart DEF Has
<1>8. CASE GuardSession(k)
  <2>1. /\ call[k].at = "commit" /\ call'[k].at \in {"begun", "unwind"}
        /\ call'[k].held \subseteq call[k].held \cup {"session"}
    BY <1>2, <1>8 DEF GuardSession, Goes, GoesWith, At, CallStates
  <2> QED
    BY <1>1, <1>3, <2>1, TurnsApart DEF Has
<1>9. CASE YieldPointer(k)
  <2>1. /\ call[k].at = "yield" /\ call'[k].at = "invoke"
        /\ call'[k].held = call[k].held \cup {"pip"}
    BY <1>2, <1>9 DEF YieldPointer, At, CallStates
  <2> QED
    BY <1>1, <1>3, <2>1, TurnsApart DEF Has
<1>10. CASE InvokeQuery(k) \/ Complete(k) \/ StrayEnds(k)
  <2>1. /\ \/ call[k].at = "begun" /\ call'[k].at = "invoke"
           \/ call[k].at = "invoke" /\ call'[k].at = "finish"
           \/ call[k].at = "stray" /\ call'[k].at = "idle"
        /\ call'[k].held = call[k].held
    BY <1>2, <1>10 DEF InvokeQuery, Complete, StrayEnds, At, CallStates
  <2> QED
    BY <1>1, <1>3, <2>1, TurnsApart DEF Has
<1>11. CASE Return(k)
  <2>1. /\ call[k].at \in {"finish", "unwind"} /\ call'[k].at \in {"stray", "idle"}
        /\ call'[k].held = {}
    BY <1>2, <1>11 DEF Return, Goes, CallStates
  <2> QED
    BY <1>1, <2>1, TurnsApart DEF Has
<1>12. CASE \E g \in call[k].held : Drop(k, g)
  <2>1. /\ call[k].at \in {"finish", "unwind"} /\ call'[k].at = call[k].at
        /\ call'[k].held \subseteq call[k].held
    BY <1>2, <1>12 DEF Drop, CallStates
  <2> QED
    BY <1>1, <1>3, <2>1, TurnsApart DEF Has
<1> QED
  BY <1>4, <1>5, <1>6, <1>7, <1>8, <1>9, <1>10, <1>11, <1>12

\* A call that takes a place in a queue or leaves one.
LEMMA TurnsQueue ==
    ASSUME TypeOK, Turns, NEW k \in Calls,
           LookupGrant(k) \/ AskForLane(k) \/ RecheckGrant(k) \/ TakeLane(k) \/ Abort(k)
    PROVE  Turns'
<1>1. \A j \in Calls \ {k} : call'[j] = call[j]
  BY OneMoves DEF Proceed
<1>2. /\ call[k] \in CallStates /\ call \in [Calls -> CallStates]
      /\ admission \in Seq(Calls) /\ lane \in Seq(Calls)
  BY DEF TypeOK
<1>3. /\ Has(k, "lane") => call[k].at \in {"yield", "invoke", "finish", "unwind"}
      /\ Has(k, "admission") => call[k].at \in {"prompt", "unwind"}
      /\ InTurn(admission, "queue") /\ InTurn(lane, "lane")
      /\ OneHolds("lane", {"yield", "invoke", "finish", "unwind"})
      /\ OneHolds("admission", {"prompt", "unwind"})
  BY DEF Turns, LaneIsHeld, AdmissionIsHeld, OneHolds
<1>4. CASE LookupGrant(k)
  <2>1. /\ call[k].at = "adapters" /\ call'[k].held = call[k].held
        /\ \/ call'[k].at = "queue" /\ admission' = Append(admission, k)
           \/ call'[k].at = "commit" /\ admission' = admission
        /\ lane' = lane
    BY <1>2, <1>4 DEF LookupGrant, Goes, At, CallStates
  <2>2. InTurn(admission, "queue")'
    <3>1. CASE call'[k].at = "queue" /\ admission' = Append(admission, k)
      <4>1. Exactly(Append(admission, k), Waiters("queue")')
        BY <1>1, <1>2, <1>3, <2>1, <3>1, TurnsAppend DEF At
      <4> QED
        BY <3>1, <4>1, TurnIsExactly DEF InTurn, Exactly, Waiters
    <3>2. CASE call'[k].at = "commit" /\ admission' = admission
      BY <1>1, <1>3, <2>1, <3>2 DEF InTurn, At
    <3> QED
      BY <2>1, <3>1, <3>2
  <2>3. InTurn(lane, "lane")'
    BY <1>1, <1>3, <2>1 DEF InTurn, At
  <2>4. LaneIsHeld' /\ AdmissionIsHeld'
    BY <1>1, <1>3, <2>1 DEF LaneIsHeld, AdmissionIsHeld, OneHolds, Has
  <2> QED
    BY <2>2, <2>3, <2>4 DEF Turns
<1>5. CASE AskForLane(k)
  <2>1. /\ call[k].at = "begun" /\ call'[k].held = call[k].held
        /\ call'[k].at = "lane" /\ lane' = Append(lane, k) /\ admission' = admission
    BY <1>2, <1>5 DEF AskForLane, Goes, At, CallStates
  <2>2. InTurn(lane, "lane")'
    <3>1. Exactly(Append(lane, k), Waiters("lane")')
      BY <1>1, <1>2, <1>3, <2>1, TurnsAppend DEF At
    <3> QED
      BY <2>1, <3>1, TurnIsExactly DEF InTurn, Exactly, Waiters
  <2>3. InTurn(admission, "queue")'
    BY <1>1, <1>3, <2>1 DEF InTurn, At
  <2>4. LaneIsHeld' /\ AdmissionIsHeld'
    BY <1>1, <1>3, <2>1 DEF LaneIsHeld, AdmissionIsHeld, OneHolds, Has
  <2> QED
    BY <2>2, <2>3, <2>4 DEF Turns
<1>6. CASE RecheckGrant(k)
  <2>1. /\ call[k].at = "queue" /\ call'[k].at \in {"commit", "prompt"}
        /\ call'[k].held \subseteq call[k].held \cup {"admission"}
        /\ call'[k].at = "commit" => call'[k].held = call[k].held
        /\ First(admission, k) /\ admission' = Tail(admission) /\ lane' = lane
        /\ Free("admission")
    BY <1>2, <1>6 DEF RecheckGrant, Goes, GoesWith, At, CallStates
  <2>2. InTurn(admission, "queue")'
    <3>1. Exactly(Tail(admission), Waiters("queue")')
      BY <1>1, <1>2, <1>3, <2>1, TurnsTail DEF At
    <3> QED
      BY <2>1, <3>1, TurnIsExactly DEF InTurn, Exactly, Waiters
  <2>3. InTurn(lane, "lane")'
    BY <1>1, <1>3, <2>1 DEF InTurn, At
  <2>4. AdmissionIsHeld'
    BY <1>1, <1>3, <2>1 DEF AdmissionIsHeld, OneHolds, Has, Free
  <2>5. LaneIsHeld'
    BY <1>1, <1>3, <2>1 DEF LaneIsHeld, OneHolds, Has
  <2> QED
    BY <2>2, <2>3, <2>4, <2>5 DEF Turns
<1>7. CASE TakeLane(k)
  <2>1. /\ call[k].at = "lane" /\ call'[k].at = "yield"
        /\ call'[k].held = call[k].held \cup {"lane"}
        /\ First(lane, k) /\ lane' = Tail(lane) /\ admission' = admission /\ Free("lane")
    BY <1>2, <1>7 DEF TakeLane, GoesWith, At, CallStates
  <2>2. InTurn(lane, "lane")'
    <3>1. Exactly(Tail(lane), Waiters("lane")')
      BY <1>1, <1>2, <1>3, <2>1, TurnsTail DEF At
    <3> QED
      BY <2>1, <3>1, TurnIsExactly DEF InTurn, Exactly, Waiters
  <2>3. InTurn(admission, "queue")'
    BY <1>1, <1>3, <2>1 DEF InTurn, At
  <2>4. LaneIsHeld'
    BY <1>1, <1>3, <2>1 DEF LaneIsHeld, OneHolds, Has, Free
  <2>5. AdmissionIsHeld'
    BY <1>1, <1>3, <2>1 DEF AdmissionIsHeld, OneHolds, Has
  <2> QED
    BY <2>2, <2>3, <2>4, <2>5 DEF Turns
<1>8. CASE Abort(k)
  <2>1. /\ call[k].at \in {"adapters", "queue", "prompt", "lane", "invoke"}
        /\ call'[k].at = "unwind" /\ call'[k].held = call[k].held
        /\ admission' = Without(admission, k) /\ lane' = Without(lane, k)
    BY <1>2, <1>8 DEF Abort, Goes, At, CallStates
  <2>2. InTurn(admission, "queue")'
    <3>1. Exactly(Without(admission, k), Waiters("queue")')
      BY <1>1, <1>2, <1>3, <2>1, TurnsWithout DEF At
    <3> QED
      BY <2>1, <3>1, TurnIsExactly DEF InTurn, Exactly, Waiters
  <2>3. InTurn(lane, "lane")'
    <3>1. Exactly(Without(lane, k), Waiters("lane")')
      BY <1>1, <1>2, <1>3, <2>1, TurnsWithout DEF At
    <3> QED
      BY <2>1, <3>1, TurnIsExactly DEF InTurn, Exactly, Waiters
  <2>4. LaneIsHeld' /\ AdmissionIsHeld'
    BY <1>1, <1>3, <2>1 DEF LaneIsHeld, AdmissionIsHeld, OneHolds, Has
  <2> QED
    BY <2>2, <2>3, <2>4 DEF Turns
<1> QED
  BY <1>4, <1>5, <1>6, <1>7, <1>8

LEMMA TurnsNext == TypeOK /\ Turns /\ [Next]_vars => Turns'
<1> SUFFICES ASSUME TypeOK, Turns, [Next]_vars PROVE Turns'
  OBVIOUS
<1>1. ASSUME UNCHANGED <<call, admission, lane>> PROVE Turns'
  BY <1>1 DEF Turns, InTurn, LaneIsHeld, AdmissionIsHeld, OneHolds, Has, At
<1>2. ASSUME NEW s \in Sessions,
             EndSession(s) \/ RunEndHook(s) \/ ReviveSession(s) \/ ExpireGrant(s)
      PROVE  Turns'
  BY <1>1, <1>2 DEF EndSession, RunEndHook, ReviveSession, ExpireGrant
<1>3. CASE UNCHANGED vars
  BY <1>1, <1>3 DEF vars
<1> QED
  BY <1>2, <1>3, TurnsPass, TurnsQueue DEF Next, Proceed

\* No call waits behind one that is gone, and none waits for one that waits
\* itself; with InputExclusive, what the guards say is what the calls do, for any
\* number of calls that are aborted at any of their waits.
THEOREM GuardsCorrect == Spec => []GuardsAgree
<1>1. Spec => []Turns
  BY TurnsInit, TurnsNext, TypeCorrect, PTL DEF Spec
<1> QED
  BY <1>1, TurnsAreWaits, AlwaysSerial, SerialExcludes, PTL DEF GuardsAgree

-----------------------------------------------------------------------------
(* Grants                                                                    *)

\* Who asks the host holds the admission, and found no grant under it.
Asks == \A k \in Calls : At(k, "prompt") => Has(k, "admission") /\ call[k].session \notin grants

\* The steps that neither begin to ask nor add a grant.
AsksNoMore ==
    /\ grants' \subseteq grants
    /\ \A k \in Calls : At(k, "prompt")' => call'[k] = call[k]

LEMMA AsksKept == Asks /\ AsksNoMore => Asks'
BY DEF Asks, AsksNoMore, At, Has

LEMMA AsksNext == TypeOK /\ Turns /\ Asks /\ [Next]_vars => Asks'
<1> SUFFICES ASSUME TypeOK, Turns, Asks, [Next]_vars PROVE Asks'
  OBVIOUS
<1>a. call \in [Calls -> CallStates]
  BY DEF TypeOK
<1>1. ASSUME NEW k \in Calls, Accept(k) PROVE Asks'
  <2>1. Has(k, "admission") /\ grants' = grants \cup {call[k].session} /\ ~At(k, "prompt")'
    BY <1>1, <1>a DEF Accept, Asks, At, CallStates
  <2>2. \A j \in Calls \ {k} : call'[j] = call[j] /\ ~Has(j, "admission")
    BY <1>1, <2>1, OneMoves DEF Proceed, Turns, AdmissionIsHeld, OneHolds
  <2> QED
    BY <2>1, <2>2 DEF Asks, At
<1>2. ASSUME NEW k \in Calls, RecheckGrant(k) PROVE Asks'
  <2>1. /\ grants' = grants /\ call'[k].session = call[k].session
        /\ call'[k].at = "prompt" => Has(k, "admission")' /\ call[k].session \notin grants
    BY <1>2, <1>a DEF RecheckGrant, Goes, GoesWith, Has, CallStates
  <2>2. \A j \in Calls \ {k} : call'[j] = call[j]
    BY <1>2, OneMoves DEF Proceed
  <2> QED
    BY <2>1, <2>2 DEF Asks, At, Has
<1>3. ASSUME NEW k \in Calls,
             \/ \E request \in Requests, s \in Sessions : Enter(k, request, s)
             \/ Refuse(k) \/ Abort(k) \/ Proceed(k),
             ~Accept(k), ~RecheckGrant(k)
      PROVE  Asks'
  <2>1. \A j \in Calls \ {k} : call'[j] = call[j]
    BY <1>3, OneMoves
  <2>2. grants' = grants
    BY <1>3
       DEF Proceed, Enter, Refuse, Abort, AdmitText, LookupGrant, Decline, GuardSession,
           AskForLane, TakeLane, YieldPointer, YieldFails, InvokeQuery, Complete, Return,
           StrayEnds, Drop
  <2>3. call'[k].at # "prompt"
    <3>1. CASE \E g \in call[k].held : Drop(k, g)
      BY <1>a, <3>1 DEF Drop, CallStates
    <3>2. CASE ~\E g \in call[k].held : Drop(k, g)
      BY <1>3, <1>a, <3>2
         DEF Proceed, Enter, Refuse, Abort, AdmitText, LookupGrant, Decline, GuardSession,
             AskForLane, TakeLane, YieldPointer, YieldFails, InvokeQuery, Complete, Return,
             StrayEnds, Goes, GoesWith, Call, CallStates
    <3> QED
      BY <3>1, <3>2
  <2> QED
    BY <2>1, <2>2, <2>3, AsksKept DEF AsksNoMore, At
<1>4. ASSUME NEW s \in Sessions,
             EndSession(s) \/ RunEndHook(s) \/ ReviveSession(s) \/ ExpireGrant(s)
      PROVE  Asks'
  BY <1>4, AsksKept DEF EndSession, RunEndHook, ReviveSession, ExpireGrant, AsksNoMore
<1>5. CASE UNCHANGED vars
  BY <1>5, AsksKept DEF vars, AsksNoMore
<1> QED
  BY <1>1, <1>2, <1>3, <1>4, <1>5 DEF Next

\* Whatever grants come, expire and are revoked, and however many calls wait, are
\* declined or aborted: the host is asked for a grant that is missing, by one call.
THEOREM PromptNeeded == Spec => []PromptIsNeeded
<1>1. Init => Asks
  BY DEF Init, Asks, Idle, Call, At
<1>2. Asks => PromptIsNeeded
  BY DEF Asks, PromptIsNeeded
<1>3. Spec => []Turns
  BY TurnsInit, TurnsNext, TypeCorrect, PTL DEF Spec
<1> QED
  BY <1>1, <1>2, <1>3, AsksNext, TypeCorrect, PTL DEF Spec
=============================================================================
