-------------------------- MODULE RecordingProofs --------------------------
(* Theorems about Recording, for any number of calls, sessions and           *)
(* directories.                                                              *)
EXTENDS Recording, TLAPS

-----------------------------------------------------------------------------
(* Types.                                                                    *)

LEMMA FirstType ==
    ASSUME NEW does \in DOMAIN First PROVE First[does] \in Guarded
BY DEF First, Guarded

LEMMA NewCallType ==
    ASSUME NEW does \in {"nothing"} \cup DOMAIN First, NEW at \in Places,
           NEW s \in Sessions \cup {Nobody}
    PROVE  Call(does, at, s) \in CallStates
BY DEF Call, CallStates

LEMMA MovedCallType ==
    ASSUME NEW c \in CallStates, NEW at \in Places
    PROVE  [c EXCEPT !.at = at] \in CallStates
BY DEF CallStates

LEMMA ReservedCallType ==
    ASSUME NEW c \in CallStates, NEW gen \in Nat, NEW turn \in Nat,
           NEW d \in Dirs \cup {Nobody}
    PROVE  [c EXCEPT !.at = "capture", !.gen = gen, !.turn = turn, !.dir = d] \in CallStates
BY DEF CallStates, Places, Guarded

LEMMA CallFields ==
    ASSUME NEW c \in CallStates
    PROVE  /\ c.does \in {"nothing"} \cup DOMAIN First /\ c.at \in Places
           /\ c.session \in Sessions \cup {Nobody} /\ c.dir \in Dirs \cup {Nobody}
           /\ c.gen \in Nat /\ c.turn \in Nat /\ c.wrote \in BOOLEAN
BY DEF CallStates

LEMMA WrittenCallType ==
    ASSUME NEW c \in CallStates
    PROVE  /\ [c EXCEPT !.at = "tool", !.wrote = TRUE] \in CallStates
           /\ [c EXCEPT !.at = "tool", !.wrote = TRUE].at = "tool"
           /\ [c EXCEPT !.at = "tool", !.wrote = TRUE].wrote = TRUE
           /\ [c EXCEPT !.at = "tool", !.wrote = TRUE].gen = c.gen
           /\ [c EXCEPT !.at = "tool", !.wrote = TRUE].turn = c.turn
           /\ [c EXCEPT !.at = "tool", !.wrote = TRUE].dir = c.dir
BY DEF CallStates, Places, Guarded

LEMMA FileType ==
    ASSUME NEW c \in Calls, NEW g \in Nat
    PROVE  File(c, g) \in Files /\ File(c, g).call = c /\ File(c, g).gen = g
BY DEF File, Files

LEMMA TurnsType ==
    ASSUME NEW d, NEW n, NEW c \in Files, turns \in [Dirs -> [Calls -> TurnStates]]
    PROVE  /\ [turns EXCEPT ![d][n].before = c] \in [Dirs -> [Calls -> TurnStates]]
           /\ [turns EXCEPT ![d][n].action = c] \in [Dirs -> [Calls -> TurnStates]]
<1> DEFINE B == [turns EXCEPT ![d][n].before = c]
           A == [turns EXCEPT ![d][n].action = c]
<1>1. ASSUME NEW e \in Dirs, NEW m \in Calls
      PROVE  B[e][m] \in TurnStates /\ A[e][m] \in TurnStates
  BY <1>1 DEF TurnStates
<1>2. ASSUME NEW e \in Dirs
      PROVE  B[e] \in [Calls -> TurnStates] /\ A[e] \in [Calls -> TurnStates]
  BY <1>1
<1> QED
  BY <1>2

LEMMA GotoType ==
    ASSUME TypeOK, NEW c \in Calls, NEW at \in Places, Goto(c, at)
    PROVE  call' \in [Calls -> CallStates]
<1>1. call[c] \in CallStates
  BY DEF TypeOK
<1>2. [call[c] EXCEPT !.at = at] \in CallStates
  BY <1>1, MovedCallType
<1> QED
  BY <1>2 DEF TypeOK, Goto

LEMMA ReturnedType ==
    ASSUME TypeOK, NEW c \in Calls, Returned(c)
    PROVE  call' \in [Calls -> CallStates]
<1>1. Call("nothing", "done", Nobody) \in CallStates
  BY NewCallType DEF Places
<1> QED
  BY <1>1 DEF TypeOK, Returned

LEMMA StopType ==
    ASSUME TypeOK, NEW s, StopOwner(s)
    PROVE  /\ enabled' \in BOOLEAN /\ generation' \in Nat /\ nextTurn' \in Nat \ {0}
           /\ owner' \in Sessions \cup {Nobody} /\ dir' \in Dirs \cup {Nobody}
           /\ video' \subseteq Nat
<1>1. enabled' \in BOOLEAN
  BY DEF StopOwner
<1>2. generation' \in Nat /\ nextTurn' \in Nat \ {0}
  <2>1. nextTurn' = FirstTurn \/ nextTurn' = nextTurn
    BY Zenon DEF StopOwner
  <2> QED
    BY <2>1 DEF TypeOK, StopOwner, FirstTurn
<1>3. owner' \in Sessions \cup {Nobody} /\ dir' \in Dirs \cup {Nobody}
  BY Zenon DEF TypeOK, StopOwner
<1>4. video' \subseteq Nat
  BY Zenon DEF TypeOK, StopOwner
<1> QED
  BY <1>1, <1>2, <1>3, <1>4

\* A call that waits for admission knows what it does, and a call that ends or
\* revives a session has one.
Purpose ==
    \A c \in Calls :
        /\ At(c, "called") => call[c].does \in DOMAIN First
        /\ At(c, "called") /\ call[c].does \in {"end", "revive"} => call[c].session \in Sessions
        /\ call[c].at \in {"end", "revive"} => call[c].session \in Sessions

Typed == TypeOK /\ Purpose

LEMMA TypedInit == Init => Typed
<1> SUFFICES ASSUME Init PROVE Typed
  OBVIOUS
<1>1. Call("nothing", "new", Nobody) \in CallStates
  BY NewCallType DEF Places
<1>2. NoTurn \in TurnStates
  BY DEF NoTurn, NoFile, File, Files, TurnStates
<1>3. TypeOK
  <2>1. call \in [Calls -> CallStates] /\ turns \in [Dirs -> [Calls -> TurnStates]]
    BY <1>1, <1>2 DEF Init
  <2>2. /\ enabled = FALSE /\ generation = 0 /\ nextTurn = 1
        /\ owner = Nobody /\ dir = Nobody /\ video = {}
        /\ ended = {} /\ due = {}
        /\ shutdown = FALSE /\ recent = FALSE /\ sweep = "asleep"
    BY DEF Init
  <2>3. enabled \in BOOLEAN /\ shutdown \in BOOLEAN /\ recent \in BOOLEAN
    BY <2>2
  <2>4. generation \in Nat /\ nextTurn \in Nat \ {0}
    BY <2>2
  <2>5. /\ owner \in Sessions \cup {Nobody} /\ dir \in Dirs \cup {Nobody}
        /\ sweep \in {"asleep", "check", "stop", "gone"}
    BY <2>2
  <2>6. video \subseteq Nat /\ ended \subseteq Sessions /\ due \subseteq Sessions
    BY <2>2
  <2> QED
    BY <2>1, <2>3, <2>4, <2>5, <2>6 DEF TypeOK
<1>4. Purpose
  BY DEF Init, Purpose, At, Call
<1> QED
  BY <1>3, <1>4 DEF Typed

LEMMA PurposeNew ==
    ASSUME Typed, NEW c \in Calls, NEW does, NEW at, NEW s,
           call' = [call EXCEPT ![c] = Call(does, at, s)],
           at \notin {"end", "revive"},
           at = "called" => /\ does \in DOMAIN First
                            /\ does \in {"end", "revive"} => s \in Sessions
    PROVE  Purpose'
<1>1. call'[c] = Call(does, at, s) /\ \A d \in Calls \ {c} : call'[d] = call[d]
  BY DEF Typed, TypeOK
<1>2. /\ Call(does, at, s).at = at /\ Call(does, at, s).does = does
      /\ Call(does, at, s).session = s
  BY DEF Call
<1> QED
  BY <1>1, <1>2 DEF Purpose, Typed, At

LEMMA PurposeGoto ==
    ASSUME Typed, NEW c \in Calls, NEW at \in Places, Goto(c, at), at # "called",
           at \in {"end", "revive"} => call[c].session \in Sessions
    PROVE  Purpose'
<1>1. call[c] \in CallStates /\ call'[c] = [call[c] EXCEPT !.at = at]
  BY DEF Typed, TypeOK, Goto
<1>2. call'[c].at = at /\ call'[c].session = call[c].session
  BY <1>1 DEF CallStates
<1>3. \A d \in Calls \ {c} : call'[d] = call[d]
  BY DEF Typed, TypeOK, Goto
<1> QED
  BY <1>1, <1>2, <1>3 DEF Purpose, Typed, At

LEMMA PurposeReturned ==
    ASSUME Typed, NEW c \in Calls, Returned(c) PROVE Purpose'
BY PurposeNew DEF Returned

LEMMA TypedBegin ==
    ASSUME Typed, NEW c \in Calls, Begin(c) PROVE Typed'
<1> USE DEF recorder
<1>1. ASSUME NEW does \in DOMAIN First, NEW s \in Sessions \cup {Nobody}, Invoke(c, does, s),
             does \in {"end", "revive"} => s \in Sessions
      PROVE  Typed'
  <2>1. Call(does, "called", s) \in CallStates
    BY NewCallType DEF Places
  <2>2. TypeOK'
    BY <1>1, <2>1 DEF Invoke, TypeOK, Typed
  <2>3. Purpose'
    BY <1>1, PurposeNew DEF Invoke
  <2> QED
    BY <2>2, <2>3 DEF Typed
<1>2. CASE BeginShutdown(c)
  <2>1. Call("nothing", "drain", Nobody) \in CallStates
    BY NewCallType DEF Places
  <2>2. TypeOK'
    BY <1>2, <2>1 DEF BeginShutdown, TypeOK, Typed
  <2>3. Purpose'
    BY <1>2, PurposeNew DEF BeginShutdown
  <2> QED
    BY <2>2, <2>3 DEF Typed
<1>3. {"act", "stop", "start", "end", "revive"} \subseteq DOMAIN First
  BY DEF First
<1> QED
  BY <1>1, <1>2, <1>3 DEF Begin

\* Where the recorder alone moves, or nothing at all.
LEMMA TypedReturns ==
    ASSUME Typed, NEW c \in Calls, Returned(c),
           enabled' \in BOOLEAN, generation' \in Nat, nextTurn' \in Nat \ {0},
           owner' \in Sessions \cup {Nobody}, dir' \in Dirs \cup {Nobody}, video' \subseteq Nat,
           turns' \in [Dirs -> [Calls -> TurnStates]],
           ended' \subseteq Sessions, UNCHANGED <<due, shutdown, recent, sweep>>
    PROVE  Typed'
BY ReturnedType, PurposeReturned DEF Typed, TypeOK

LEMMA TypedGoes ==
    ASSUME Typed, NEW c \in Calls, NEW at \in Places, Goto(c, at), at # "called",
           at \in {"end", "revive"} => call[c].session \in Sessions,
           enabled' \in BOOLEAN, generation' \in Nat, nextTurn' \in Nat \ {0},
           owner' \in Sessions \cup {Nobody}, dir' \in Dirs \cup {Nobody}, video' \subseteq Nat,
           turns' \in [Dirs -> [Calls -> TurnStates]],
           ended' \subseteq Sessions, due' \subseteq Sessions, UNCHANGED <<shutdown, recent, sweep>>
    PROVE  Typed'
BY GotoType, PurposeGoto DEF Typed, TypeOK

LEMMA TypedAdmit ==
    ASSUME Typed, NEW c \in Calls, Admit(c) PROVE Typed'
<1> USE DEF recorder
<1>1. CASE Returned(c)
  BY <1>1, TypedReturns DEF Admit, Typed, TypeOK
<1>2. CASE Goto(c, First[call[c].does])
  <2>1. call[c].does \in DOMAIN First
    BY DEF Admit, Typed, Purpose
  <2>2. First[call[c].does] \in Guarded
    BY <2>1, FirstType
  <2>3. First[call[c].does] \in Places /\ First[call[c].does] # "called"
    BY <2>2 DEF Places, Guarded
  <2>4. First[call[c].does] \in {"end", "revive"} => call[c].does \in {"end", "revive"}
    BY <2>1 DEF First
  <2>5. First[call[c].does] \in {"end", "revive"} => call[c].session \in Sessions
    BY <2>4 DEF Admit, Typed, Purpose
  <2> QED
    BY <1>2, <2>3, <2>5, TypedGoes DEF Admit, Typed, TypeOK
<1> QED
  BY <1>1, <1>2 DEF Admit

LEMMA TypedStart ==
    ASSUME Typed, NEW c \in Calls, StartRecording(c) PROVE Typed'
<1> USE DEF recorder
<1>1. call[c].session \in Sessions \cup {Nobody}
  BY CallFields DEF Typed, TypeOK
<1>2. /\ enabled' \in BOOLEAN /\ generation' \in Nat /\ nextTurn' \in Nat \ {0}
      /\ owner' \in Sessions \cup {Nobody} /\ dir' \in Dirs \cup {Nobody} /\ video' \subseteq Nat
  <2>1. CASE UNCHANGED recorder
    BY <2>1 DEF Typed, TypeOK
  <2>2. CASE video' = {} /\ UNCHANGED <<enabled, generation, nextTurn, owner, dir>>
    BY <2>2 DEF Typed, TypeOK
  <2>3. ASSUME NEW d \in Dirs, NEW captured \in BOOLEAN,
               enabled' = TRUE /\ generation' = generation + 1 /\ nextTurn' = FirstTurn,
               owner' = call[c].session /\ dir' = d,
               video' = VideoOf(captured, generation')
        PROVE  /\ enabled' \in BOOLEAN /\ generation' \in Nat /\ nextTurn' \in Nat \ {0}
               /\ owner' \in Sessions \cup {Nobody} /\ dir' \in Dirs \cup {Nobody}
               /\ video' \subseteq Nat
    <3>1. generation' \in Nat
      BY <2>3 DEF Typed, TypeOK
    <3>2. video' \subseteq Nat
      BY <2>3, <3>1 DEF VideoOf
    <3> QED
      BY <1>1, <2>3, <3>1, <3>2 DEF FirstTurn
  <2> QED
    BY <2>1, <2>2, <2>3 DEF StartRecording
<1> QED
  BY <1>2, TypedReturns DEF StartRecording, Typed, TypeOK

LEMMA TypedTurn ==
    ASSUME Typed, NEW c \in Calls, ReserveTurn(c) \/ WriteBefore(c) \/ FinishTurn(c)
    PROVE  Typed'
<1> USE DEF recorder
<1>0. call[c] \in CallStates
  BY DEF Typed, TypeOK
<1>1. CASE ReserveTurn(c)
  <2>1. CASE enabled
    <3> DEFINE r == [call[c] EXCEPT !.at = "capture", !.gen = generation, !.turn = nextTurn, !.dir = dir]
    <3>1. r \in CallStates
      BY <1>0, ReservedCallType DEF Typed, TypeOK
    <3>2. call' = [call EXCEPT ![c] = r]
      BY <1>1, <2>1 DEF ReserveTurn, Typed, TypeOK
    <3>3. r.at = "capture"
      BY <1>0 DEF CallStates
    <3>4. TypeOK'
      BY <1>1, <2>1, <3>1, <3>2 DEF ReserveTurn, Typed, TypeOK
    <3>5. Purpose'
      BY <3>2, <3>3 DEF Typed, TypeOK, Purpose, At
    <3> QED
      BY <3>4, <3>5 DEF Typed
  <2>2. CASE ~enabled
    <3>1. Goto(c, "tool") /\ "tool" \in Places
      BY <1>1, <2>2 DEF ReserveTurn, Places, Guarded
    <3> QED
      BY <1>1, <2>2, <3>1, TypedGoes DEF ReserveTurn, Typed, TypeOK
  <2> QED
    BY <2>1, <2>2
<1>2. CASE WriteBefore(c)
  <2>0. "tool" \in Places
    BY DEF Places, Guarded
  <2>1. CASE /\ turns' = [turns EXCEPT ![call[c].dir][call[c].turn].before = File(c, generation)]
             /\ call' = [call EXCEPT ![c].at = "tool", ![c].wrote = TRUE]
    <3> DEFINE r == [call[c] EXCEPT !.at = "tool", !.wrote = TRUE]
    <3>1. r \in CallStates /\ r.at = "tool"
      BY <1>0, WrittenCallType
    <3>2. call' = [call EXCEPT ![c] = r]
      BY <2>1 DEF Typed, TypeOK
    <3>3. turns' \in [Dirs -> [Calls -> TurnStates]]
      BY <2>1, FileType, TurnsType DEF Typed, TypeOK
    <3>4. TypeOK'
      BY <1>2, <3>1, <3>2, <3>3 DEF WriteBefore, Typed, TypeOK
    <3>5. Purpose'
      BY <3>1, <3>2 DEF Typed, TypeOK, Purpose, At
    <3> QED
      BY <3>4, <3>5 DEF Typed
  <2>2. CASE Goto(c, "tool") /\ UNCHANGED turns
    BY <1>2, <2>0, <2>2, TypedGoes DEF WriteBefore, Typed, TypeOK
  <2>3. CASE call' = [call EXCEPT ![c] = Call("nothing", "tool", Nobody)] /\ UNCHANGED turns
    <3>1. Call("nothing", "tool", Nobody) \in CallStates
      BY <2>0, NewCallType
    <3>2. TypeOK'
      BY <1>2, <2>3, <3>1 DEF WriteBefore, Typed, TypeOK
    <3>3. Purpose'
      BY <2>3, PurposeNew
    <3> QED
      BY <3>2, <3>3 DEF Typed
  <2> QED
    BY <1>2, <2>1, <2>2, <2>3 DEF WriteBefore
<1>3. CASE FinishTurn(c)
  <2>1. turns' \in [Dirs -> [Calls -> TurnStates]]
    <3>1. turns \in [Dirs -> [Calls -> TurnStates]] /\ File(c, generation) \in Files
      BY FileType DEF Typed, TypeOK
    <3>2. \/ turns' = [turns EXCEPT ![call[c].dir][call[c].turn].action = File(c, generation)]
          \/ UNCHANGED turns
      BY <1>3 DEF FinishTurn
    <3>3. [turns EXCEPT ![call[c].dir][call[c].turn].action = File(c, generation)]
            \in [Dirs -> [Calls -> TurnStates]]
      BY <3>1, TurnsType
    <3> QED
      BY <3>1, <3>2, <3>3
  <2> QED
    BY <1>3, <2>1, TypedReturns DEF FinishTurn, Typed, TypeOK
<1> QED
  BY <1>1, <1>2, <1>3

LEMMA TypedSession ==
    ASSUME Typed, NEW c \in Calls,
           \/ EndTool(c) \/ StopOwned(c) \/ ReviveSession(c) \/ StopRecording(c)
           \/ StrayStops(c) \/ StrayEnds(c)
    PROVE  Typed'
<1> USE DEF recorder
<1>1. CASE EndTool(c)
  <2>1. call[c].session \in Sessions
    BY <1>1 DEF EndTool, Typed, Purpose, At
  <2>2. ended' \subseteq Sessions /\ due' \subseteq Sessions
    BY <1>1, <2>1 DEF EndTool, Tombstone, Typed, TypeOK
  <2>3. "stopOwned" \in Places
    BY DEF Places, Guarded
  <2> QED
    BY <1>1, <2>2, <2>3, TypedGoes DEF EndTool, Typed, TypeOK
<1>2. CASE StopOwned(c)
  BY <1>2, StopType, TypedReturns DEF StopOwned, Typed, TypeOK
<1>3. CASE ReviveSession(c)
  BY <1>3, TypedReturns DEF ReviveSession, Typed, TypeOK
<1>4. CASE StopRecording(c)
  BY <1>4, StopType, TypedReturns DEF StopRecording, Typed, TypeOK
<1>5. CASE StrayStops(c)
  BY <1>5, StopType, TypedReturns DEF StrayStops, Typed, TypeOK
<1>6. CASE StrayEnds(c)
  BY <1>6, TypedReturns DEF StrayEnds, Typed, TypeOK
<1> QED
  BY <1>1, <1>2, <1>3, <1>4, <1>5, <1>6

LEMMA TypedCancel ==
    ASSUME Typed, NEW c \in Calls, Cancel(c) PROVE Typed'
<1> USE DEF recorder
<1>0. {"stray", "strayStop"} \subseteq Places
  BY DEF Places, Strays
<1>1. CASE Returned(c)
  BY <1>1, TypedReturns DEF Cancel, Typed, TypeOK
<1>2. CASE call' = [call EXCEPT ![c] = Call("nothing", "stray", Nobody)]
  <2>1. Call("nothing", "stray", Nobody) \in CallStates
    BY <1>0, NewCallType
  <2>2. TypeOK'
    BY <1>2, <2>1 DEF Cancel, Typed, TypeOK
  <2>3. Purpose'
    BY <1>2, PurposeNew
  <2> QED
    BY <2>2, <2>3 DEF Typed
<1>3. CASE Goto(c, "strayStop")
  BY <1>0, <1>3, TypedGoes DEF Cancel, Typed, TypeOK
<1> QED
  BY <1>1, <1>2, <1>3 DEF Cancel

LEMMA TypedShutdown ==
    ASSUME Typed, NEW c \in Calls,
           DrainCalls(c) \/ RevokeSessions(c) \/ ForgetSessions(c) \/ StopAll(c)
    PROVE  Typed'
<1> USE DEF recorder
<1>0. {"revoke", "forget", "stopAll", "closed"} \subseteq Places
  BY DEF Places
<1>1. CASE DrainCalls(c)
  BY <1>0, <1>1, TypedGoes DEF DrainCalls, Typed, TypeOK
<1>2. CASE RevokeSessions(c)
  <2>1. /\ enabled' \in BOOLEAN /\ generation' \in Nat /\ nextTurn' \in Nat \ {0}
        /\ owner' \in Sessions \cup {Nobody} /\ dir' \in Dirs \cup {Nobody} /\ video' \subseteq Nat
    BY <1>2, StopType DEF RevokeSessions, Typed, TypeOK
  <2> QED
    BY <1>0, <1>2, <2>1, TypedGoes DEF RevokeSessions, Typed, TypeOK
<1>3. CASE ForgetSessions(c)
  BY <1>0, <1>3, TypedGoes DEF ForgetSessions, Typed, TypeOK
<1>4. CASE StopAll(c)
  BY <1>0, <1>4, StopType, TypedGoes DEF StopAll, Typed, TypeOK
<1> QED
  BY <1>1, <1>2, <1>3, <1>4

LEMMA TypedNext == Typed /\ [Next]_vars => Typed'
<1> SUFFICES ASSUME Typed, [Next]_vars PROVE Typed'
  OBVIOUS
<1>1. ASSUME NEW c \in Calls, Begin(c) PROVE Typed'
  BY <1>1, TypedBegin
<1>2. ASSUME NEW c \in Calls, Continue(c) PROVE Typed'
  BY <1>2, TypedAdmit, TypedStart, TypedTurn, TypedSession, TypedShutdown DEF Continue
<1>3. ASSUME NEW c \in Calls, Cancel(c) PROVE Typed'
  BY <1>3, TypedCancel
<1>4. ASSUME NEW s \in Sessions, EndSession(s) PROVE Typed'
  BY <1>4 DEF EndSession, Tombstone, Typed, TypeOK, Purpose, At, recorder
<1>5. ASSUME NEW s \in Sessions, RunHook(s) PROVE Typed'
  BY <1>5, StopType DEF RunHook, Typed, TypeOK, Purpose, At
<1>6. CASE Maintain
  <2>1. CASE Wake \/ CheckRecording
    BY <2>1 DEF Wake, CheckRecording, Typed, TypeOK, Purpose, At, recorder
  <2>2. CASE StopIdle
    BY <2>2, StopType DEF StopIdle, Typed, TypeOK, Purpose, At
  <2> QED
    BY <1>6, <2>1, <2>2 DEF Maintain
<1>7. CASE Expire
  BY <1>7 DEF Expire, Typed, TypeOK, Purpose, At, recorder
<1>8. CASE UNCHANGED vars
  BY <1>8 DEF vars, Typed, TypeOK, Purpose, At
<1> QED
  BY <1>1, <1>2, <1>3, <1>4, <1>5, <1>6, <1>7, <1>8 DEF Next

LEMMA AlwaysTyped == Spec => []Typed
BY TypedInit, TypedNext, PTL DEF Spec

\* The values every field of the recorder, the turns and the calls can have.
THEOREM TypeCorrect == Spec => []TypeOK
BY AlwaysTyped, PTL DEF Typed

-----------------------------------------------------------------------------
(* The live recording: its owner and its video.                              *)

LEMMA StopKeeps ==
    ASSUME Typed, RecordingIsOwned, NEW s, StopOwner(s), UNCHANGED <<ended, due>>
    PROVE  RecordingIsOwned'
<1>1. VideoOfLiveRecording'
  BY DEF StopOwner, RecordingIsOwned, VideoOfLiveRecording
<1>2. NoOrphanRecording'
  BY DEF StopOwner, RecordingIsOwned, NoOrphanRecording
<1> QED
  BY <1>1, <1>2 DEF RecordingIsOwned

LEMMA TombstoneKeeps ==
    ASSUME RecordingIsOwned, NEW s, Tombstone(s), UNCHANGED recorder PROVE RecordingIsOwned'
BY DEF RecordingIsOwned, NoOrphanRecording, VideoOfLiveRecording, Tombstone, recorder

LEMMA KeptStart ==
    ASSUME Typed, RecordingIsOwned, NEW c \in Calls, StartRecording(c) PROVE RecordingIsOwned'
<1>1. UNCHANGED <<ended, due>>
  BY DEF StartRecording
<1>2. CASE UNCHANGED recorder
  BY <1>1, <1>2 DEF recorder, RecordingIsOwned, NoOrphanRecording, VideoOfLiveRecording
<1>3. CASE video' = {} /\ UNCHANGED <<enabled, generation, nextTurn, owner, dir>>
  BY <1>1, <1>3 DEF RecordingIsOwned, NoOrphanRecording, VideoOfLiveRecording
<1>4. ASSUME NEW captured \in BOOLEAN, ~Refused(c), enabled' = TRUE,
             owner' = call[c].session, video' = VideoOf(captured, generation')
      PROVE  RecordingIsOwned'
  BY <1>1, <1>4 DEF Refused, VideoOf, RecordingIsOwned, NoOrphanRecording, VideoOfLiveRecording
<1> QED
  BY <1>2, <1>3, <1>4 DEF StartRecording

LEMMA KeptNext == Typed /\ RecordingIsOwned /\ [Next]_vars => RecordingIsOwned'
<1> SUFFICES ASSUME Typed, RecordingIsOwned, [Next]_vars PROVE RecordingIsOwned'
  OBVIOUS
<1>0. ASSUME UNCHANGED <<recorder, ended, due>> PROVE RecordingIsOwned'
  BY <1>0 DEF recorder, RecordingIsOwned, NoOrphanRecording, VideoOfLiveRecording
<1>1. ASSUME NEW c \in Calls, Begin(c) \/ Cancel(c) \/ Admit(c) \/ WriteBefore(c) \/ FinishTurn(c)
                              \/ DrainCalls(c) \/ StrayEnds(c)
      PROVE  RecordingIsOwned'
  BY <1>0, <1>1 DEF Begin, Invoke, BeginShutdown, Cancel, StrayEnds, Admit, WriteBefore, FinishTurn, DrainCalls
<1>2. ASSUME NEW c \in Calls, ReserveTurn(c) PROVE RecordingIsOwned'
  BY <1>2 DEF ReserveTurn, RecordingIsOwned, NoOrphanRecording, VideoOfLiveRecording
<1>3. ASSUME NEW c \in Calls, EndTool(c) PROVE RecordingIsOwned'
  BY <1>0, <1>3, TombstoneKeeps DEF EndTool
<1>4. ASSUME NEW c \in Calls, StopOwned(c) \/ StrayStops(c) \/ StopRecording(c) \/ StopAll(c)
      PROVE  RecordingIsOwned'
  BY <1>4, StopKeeps DEF StopOwned, StrayStops, StopRecording, StopAll
<1>5. ASSUME NEW c \in Calls, ReviveSession(c) PROVE RecordingIsOwned'
  BY <1>5 DEF ReviveSession, recorder, RecordingIsOwned, NoOrphanRecording, VideoOfLiveRecording
<1>6. ASSUME NEW c \in Calls, RevokeSessions(c) PROVE RecordingIsOwned'
  <2>1. CASE owner \in ended \cup {Nobody}
    BY <1>6, <2>1, SessionAssumption
       DEF RevokeSessions, recorder, RecordingIsOwned, NoOrphanRecording, VideoOfLiveRecording, Nobody
  <2>2. CASE owner \notin ended \cup {Nobody}
    BY <1>6, <2>2
       DEF RevokeSessions, StopOwner, Stops, RecordingIsOwned, NoOrphanRecording, VideoOfLiveRecording
  <2> QED
    BY <2>1, <2>2
<1>7. ASSUME NEW c \in Calls, ForgetSessions(c) PROVE RecordingIsOwned'
  BY <1>7 DEF ForgetSessions, recorder, RecordingIsOwned, NoOrphanRecording, VideoOfLiveRecording
<1>8. ASSUME NEW s \in Sessions, EndSession(s) PROVE RecordingIsOwned'
  BY <1>8, TombstoneKeeps DEF EndSession
<1>9. ASSUME NEW s \in Sessions, RunHook(s) PROVE RecordingIsOwned'
  <2>1. VideoOfLiveRecording'
    BY <1>9 DEF RunHook, StopOwner, RecordingIsOwned, VideoOfLiveRecording
  <2>2. enabled' => owner' = owner /\ owner # s /\ enabled
    BY <1>9 DEF RunHook, StopOwner, Stops
  <2>3. NoOrphanRecording'
    BY <1>9, <2>2 DEF RunHook, RecordingIsOwned, NoOrphanRecording
  <2> QED
    BY <2>1, <2>3 DEF RecordingIsOwned
<1>10. CASE Maintain
  BY <1>0, <1>10, StopKeeps DEF Maintain, Wake, CheckRecording, StopIdle
<1>11. CASE Expire \/ UNCHANGED vars
  BY <1>0, <1>11 DEF Expire, vars, recorder
<1>12. ASSUME NEW c \in Calls, StartRecording(c) PROVE RecordingIsOwned'
  BY <1>12, KeptStart
<1> QED
  BY <1>1, <1>2, <1>3, <1>4, <1>5, <1>6, <1>7, <1>8, <1>9, <1>10, <1>11, <1>12
     DEF Next, Continue

\* A recording of an ended session is one that the session's hook has yet to
\* stop, and only the live recording has a video.
THEOREM RecordingOwned == Spec => []RecordingIsOwned
<1>1. Init => RecordingIsOwned
  BY DEF Init, RecordingIsOwned, NoOrphanRecording, VideoOfLiveRecording
<1> QED
  BY <1>1, KeptNext, AlwaysTyped, PTL DEF Spec

-----------------------------------------------------------------------------
(* Shutdown: once a drain is over nobody is inside, and the flag keeps it so. *)

Drained == {"revoke", "forget", "stopAll", "closed"}

Closing ==
    \A c \in Calls :
        /\ call[c].at \in Drained \cup {"drain"} => shutdown
        /\ call[c].at \in Drained => \A d \in Calls : ~Inside(d)
        /\ At(c, "closed") => ~enabled

\* What a step may do to the places of the calls without opening a drained runtime.
LEMMA ClosingKeeps ==
    ASSUME Closing, shutdown => shutdown', enabled' => enabled,
           \A c \in Calls : call'[c].at \in Drained \cup {"drain"} => call[c].at = call'[c].at,
           \A d \in Calls : call'[d].at \in Guarded => call[d].at \in Guarded
    PROVE  Closing'
<1>1. ASSUME NEW c \in Calls, (call[c].at \in Drained)' PROVE \A d \in Calls : ~Inside(d)'
  <2>1. call[c].at \in Drained
    BY <1>1 DEF Drained
  <2> QED
    BY <2>1 DEF Closing, Inside
<1>2. ASSUME NEW c \in Calls, (call[c].at \in Drained \cup {"drain"})' PROVE shutdown'
  <2>1. call[c].at \in Drained \cup {"drain"}
    BY <1>2 DEF Drained
  <2> QED
    BY <2>1 DEF Closing
<1>3. ASSUME NEW c \in Calls, At(c, "closed")' PROVE ~enabled'
  BY <1>3 DEF Closing, At, Drained
<1> QED
  BY <1>1, <1>2, <1>3 DEF Closing

LEMMA PlaceOfGoto ==
    ASSUME Typed, NEW c \in Calls, NEW at, Goto(c, at)
    PROVE  call'[c].at = at /\ \A d \in Calls \ {c} : call'[d] = call[d]
<1>1. call[c] \in CallStates /\ call'[c] = [call[c] EXCEPT !.at = at]
  BY DEF Typed, TypeOK, Goto
<1>2. call'[c].at = at
  BY <1>1 DEF CallStates
<1>3. \A d \in Calls \ {c} : call'[d] = call[d]
  BY DEF Typed, TypeOK, Goto
<1> QED
  BY <1>2, <1>3

LEMMA PlaceOfNew ==
    ASSUME Typed, NEW c \in Calls, NEW does, NEW at, NEW s,
           call' = [call EXCEPT ![c] = Call(does, at, s)]
    PROVE  call'[c].at = at /\ \A d \in Calls \ {c} : call'[d] = call[d]
BY DEF Typed, TypeOK, Call

LEMMA PlaceOfReturned ==
    ASSUME Typed, NEW c \in Calls, Returned(c)
    PROVE  call'[c].at = "done" /\ \A d \in Calls \ {c} : call'[d] = call[d]
BY PlaceOfNew DEF Returned

LEMMA PlaceOfTurn ==
    ASSUME Typed, NEW c \in Calls, ReserveTurn(c) \/ WriteBefore(c)
    PROVE  /\ call[c].at \in Guarded /\ call'[c].at \in {"capture", "tool"}
           /\ \A d \in Calls \ {c} : call'[d] = call[d]
<1>0. call[c] \in CallStates /\ call \in [Calls -> CallStates]
  BY DEF Typed, TypeOK
<1>1. CASE ReserveTurn(c) /\ enabled
  <2> DEFINE r == [call[c] EXCEPT !.at = "capture", !.gen = generation, !.turn = nextTurn, !.dir = dir]
  <2>1. r.at = "capture"
    BY <1>0 DEF CallStates
  <2>2. call' = [call EXCEPT ![c] = r] /\ call[c].at = "begin"
    BY <1>0, <1>1 DEF ReserveTurn, At
  <2> QED
    BY <1>0, <2>1, <2>2 DEF Guarded
<1>2. CASE ReserveTurn(c) /\ ~enabled
  BY <1>2, PlaceOfGoto DEF ReserveTurn, At, Guarded
<1>3. CASE WriteBefore(c) /\ Goto(c, "tool")
  BY <1>3, PlaceOfGoto DEF WriteBefore, At, Guarded
<1>4. CASE WriteBefore(c) /\ call' = [call EXCEPT ![c] = Call("nothing", "tool", Nobody)]
  BY <1>4, PlaceOfNew DEF WriteBefore, At, Guarded
<1>5. CASE WriteBefore(c) /\ call' = [call EXCEPT ![c].at = "tool", ![c].wrote = TRUE]
  <2> DEFINE r == [call[c] EXCEPT !.at = "tool", !.wrote = TRUE]
  <2>1. r.at = "tool"
    BY <1>0, WrittenCallType
  <2>2. call' = [call EXCEPT ![c] = r] /\ call[c].at = "capture"
    BY <1>0, <1>5 DEF WriteBefore, At
  <2> QED
    BY <1>0, <2>1, <2>2 DEF Guarded
<1> QED
  BY <1>1, <1>2, <1>3, <1>4, <1>5 DEF WriteBefore

LEMMA ClosingOne ==
    ASSUME Closing, shutdown => shutdown', enabled' => enabled,
           NEW c \in Calls, \A d \in Calls \ {c} : call'[d] = call[d],
           call'[c].at \notin Drained \cup {"drain"},
           call'[c].at \in Guarded => call[c].at \in Guarded
    PROVE  Closing'
<1>1. \A d \in Calls : call'[d].at \in Drained \cup {"drain"} => call[d].at = call'[d].at
  OBVIOUS
<1>2. \A d \in Calls : call'[d].at \in Guarded => call[d].at \in Guarded
  OBVIOUS
<1> QED
  BY <1>1, <1>2, ClosingKeeps

LEMMA ClosingDrain ==
    ASSUME Typed, Closing, NEW c \in Calls, NEW at \in Drained, Goto(c, at),
           UNCHANGED shutdown, shutdown, \A d \in Calls : ~Inside(d),
           enabled' => enabled, at = "closed" => ~enabled'
    PROVE  Closing'
<1>1. call'[c].at = at /\ \A d \in Calls \ {c} : call'[d] = call[d]
  BY PlaceOfGoto
<1>2. \A d \in Calls : call'[d].at \notin Guarded
  BY <1>1 DEF Inside, Drained, Guarded
<1> QED
  BY <1>1, <1>2 DEF Closing, At, Inside

LEMMA ClosingNext == Typed /\ Closing /\ [Next]_vars => Closing'
<1> SUFFICES ASSUME Typed, Closing, [Next]_vars PROVE Closing'
  OBVIOUS
<1> USE DEF recorder
<1>1. ASSUME NEW c \in Calls, NEW does, NEW s, Invoke(c, does, s) PROVE Closing'
  <2>1. call'[c].at = "called" /\ \A d \in Calls \ {c} : call'[d] = call[d]
    BY <1>1, PlaceOfNew DEF Invoke
  <2> QED
    BY <1>1, <2>1, ClosingOne DEF Invoke, Drained, Guarded
<1>2. ASSUME NEW c \in Calls, BeginShutdown(c) PROVE Closing'
  <2>1. call'[c].at = "drain" /\ \A d \in Calls \ {c} : call'[d] = call[d]
    BY <1>2, PlaceOfNew DEF BeginShutdown
  <2> QED
    BY <1>2, <2>1 DEF BeginShutdown, Closing, At, Inside, Drained, Guarded
<1>3. ASSUME NEW c \in Calls, Admit(c) PROVE Closing'
  <2>1. CASE shutdown
    BY <1>3, <2>1, PlaceOfReturned, ClosingOne DEF Admit, Drained, Guarded
  <2>2. CASE ~shutdown
    <3>1. call[c].does \in DOMAIN First
      BY <1>3 DEF Admit, Typed, Purpose
    <3>2. First[call[c].does] \in Guarded
      BY <3>1, FirstType
    <3>3. call'[c].at \in Guarded /\ \A d \in Calls \ {c} : call'[d] = call[d]
      BY <1>3, <2>2, <3>2, PlaceOfGoto DEF Admit
    <3> QED
      BY <1>3, <2>2, <3>3 DEF Admit, Closing, At, Inside, Drained, Guarded
  <2> QED
    BY <2>1, <2>2
<1>4. ASSUME NEW c \in Calls, FinishTurn(c) \/ ReviveSession(c) \/ StrayEnds(c) PROVE Closing'
  BY <1>4, PlaceOfReturned, ClosingOne DEF FinishTurn, ReviveSession, StrayEnds, Drained, Guarded
<1>5. ASSUME NEW c \in Calls, StopRecording(c) \/ StopOwned(c) \/ StrayStops(c) PROVE Closing'
  <2>1. (enabled' => enabled) /\ UNCHANGED shutdown /\ Returned(c)
    BY <1>5 DEF StopRecording, StopOwned, StrayStops, StopOwner
  <2> QED
    BY <2>1, PlaceOfReturned, ClosingOne DEF Drained, Guarded
<1>6. ASSUME NEW c \in Calls, ReserveTurn(c) \/ WriteBefore(c) PROVE Closing'
  <2>1. UNCHANGED <<enabled, shutdown>>
    BY <1>6 DEF ReserveTurn, WriteBefore
  <2>2. call'[c].at \notin Drained \cup {"drain"}
    BY <1>6, PlaceOfTurn DEF Drained
  <2> QED
    BY <1>6, <2>1, <2>2, PlaceOfTurn, ClosingOne
<1>7. ASSUME NEW c \in Calls, StartRecording(c) PROVE Closing'
  <2>1. call'[c].at = "done" /\ \A d \in Calls \ {c} : call'[d] = call[d]
    BY <1>7, PlaceOfReturned DEF StartRecording
  <2>2. Inside(c) /\ UNCHANGED shutdown
    BY <1>7 DEF StartRecording, At, Inside, Guarded
  <2> QED
    BY <2>1, <2>2 DEF Closing, At, Inside, Drained, Guarded
<1>8. ASSUME NEW c \in Calls, EndTool(c) PROVE Closing'
  <2>1. call'[c].at = "stopOwned" /\ \A d \in Calls \ {c} : call'[d] = call[d]
    BY <1>8, PlaceOfGoto DEF EndTool
  <2> QED
    BY <1>8, <2>1, ClosingOne DEF EndTool, At, Drained, Guarded
<1>9. ASSUME NEW c \in Calls, DrainCalls(c) PROVE Closing'
  <2>1. shutdown
    BY <1>9 DEF DrainCalls, Closing, At
  <2> QED
    BY <1>9, <2>1, ClosingDrain DEF DrainCalls, Drained
<1>10. ASSUME NEW c \in Calls, RevokeSessions(c) \/ ForgetSessions(c) \/ StopAll(c) PROVE Closing'
  <2>1. shutdown /\ \A d \in Calls : ~Inside(d)
    BY <1>10 DEF RevokeSessions, ForgetSessions, StopAll, Closing, At, Drained
  <2>2. enabled' => enabled
    BY <1>10 DEF RevokeSessions, ForgetSessions, StopAll, StopOwner
  <2>3. StopAll(c) => ~enabled'
    BY DEF StopAll, StopOwner, Stops
  <2> QED
    BY <1>10, <2>1, <2>2, <2>3, ClosingDrain DEF RevokeSessions, ForgetSessions, StopAll, Drained
<1>11. ASSUME NEW s \in Sessions, EndSession(s) PROVE Closing'
  BY <1>11 DEF EndSession, Closing, At, Inside
<1>12. ASSUME NEW s \in Sessions, RunHook(s) PROVE Closing'
  BY <1>12 DEF RunHook, StopOwner, Closing, At, Inside
<1>13. CASE Maintain
  <2>1. (enabled' => enabled) /\ UNCHANGED <<shutdown, call>>
    <3>1. CASE Wake \/ CheckRecording
      BY <3>1 DEF Wake, CheckRecording
    <3>2. CASE StopIdle
      BY <3>2 DEF StopIdle, StopOwner
    <3> QED
      BY <1>13, <3>1, <3>2 DEF Maintain
  <2> QED
    BY <2>1 DEF Closing, At, Inside
<1>14. CASE Expire \/ UNCHANGED vars
  BY <1>14 DEF Expire, vars, Closing, At, Inside
<1>15. ASSUME NEW c \in Calls, Cancel(c) PROVE Closing'
  <2>1. call'[c].at \in {"done", "stray", "strayStop"} /\ \A d \in Calls \ {c} : call'[d] = call[d]
    BY <1>15, PlaceOfReturned, PlaceOfNew, PlaceOfGoto DEF Cancel
  <2> QED
    BY <1>15, <2>1, ClosingOne DEF Cancel, Drained, Guarded
<1> QED
  BY <1>1, <1>2, <1>3, <1>4, <1>5, <1>6, <1>7, <1>8, <1>9, <1>10, <1>11, <1>12, <1>13, <1>14, <1>15
     DEF Next, Begin, Continue

\* A shutdown that has returned left nobody inside and nothing recording, for any
\* number of calls and of shutdowns.
THEOREM ShutdownIsDrained == Spec => []ShutdownDrains
<1>1. Init => Closing
  BY DEF Init, Closing, At, Call, Drained
<1>2. Closing => ShutdownDrains
  BY DEF Closing, ShutdownDrains, At, Drained
<1> QED
  BY <1>1, <1>2, ClosingNext, AlwaysTyped, PTL DEF Spec

-----------------------------------------------------------------------------
(* Turns: what a call has reserved is its own while its recording lives.     *)

\* Calls between the reservation of their turn and its last write, in the live
\* recording.
Holds(c) == call[c].at \in {"capture", "tool"} /\ enabled /\ call[c].gen = generation

\* Its turn holds its own before, or none of the live recording.
Written(c) ==
    \A d \in Dirs, n \in Calls :
        d = call[c].dir /\ n = call[c].turn =>
            IF call[c].wrote THEN turns[d][n].before = File(c, generation)
                             ELSE turns[d][n].before.gen < generation

\* The turns the live recording has not given out hold at most leftovers.
Fresh ==
    enabled => \A d \in Dirs, n \in Calls :
                   d = dir /\ n >= nextTurn => turns[d][n].before.gen < generation

Reservation ==
    /\ enabled => generation > 0
    /\ \A c \in Calls : call[c].gen <= generation
    /\ \A c \in Calls : call[c].wrote => At(c, "tool")
    /\ \A d \in Dirs, n \in Calls : turns[d][n].before.gen <= generation
    /\ Fresh
    /\ \A c \in Calls :
          Holds(c) => /\ call[c].dir = dir /\ call[c].turn < nextTurn
                      /\ \A d \in Calls : Holds(d) /\ call[d].turn = call[c].turn => c = d
                      /\ Written(c)

ReservedTypes ==
    /\ generation \in Nat /\ nextTurn \in Nat
    /\ \A c \in Calls : call[c].gen \in Nat /\ call[c].turn \in Nat
    /\ \A d \in Dirs, n \in Calls : turns[d][n].before.gen \in Nat

LEMMA ReservedTyped == Typed => ReservedTypes
<1> SUFFICES ASSUME Typed PROVE ReservedTypes
  OBVIOUS
<1>1. generation \in Nat /\ nextTurn \in Nat
  BY DEF Typed, TypeOK
<1>2. \A c \in Calls : call[c].gen \in Nat /\ call[c].turn \in Nat
  BY CallFields DEF Typed, TypeOK
<1>3. \A d \in Dirs, n \in Calls : turns[d][n] \in TurnStates
  BY DEF Typed, TypeOK
<1>4. \A d \in Dirs, n \in Calls : turns[d][n].before.gen \in Nat
  BY <1>3 DEF TurnStates, Files
<1> QED
  BY <1>1, <1>2, <1>4 DEF ReservedTypes

\* The recording goes on or ends, and nobody takes a turn or writes one.
LEMMA ReservationKeeps ==
    ASSUME Reservation, generation' = generation, turns' = turns,
           enabled' => enabled /\ nextTurn' = nextTurn /\ dir' = dir,
           \A c \in Calls : call'[c].gen <= generation,
           \A c \in Calls : (call[c].wrote => At(c, "tool"))',
           \A c \in Calls : Holds(c)' => call'[c] = call[c]
    PROVE  Reservation'
<1>1. (enabled => generation > 0)' /\ \A c \in Calls : (call[c].gen <= generation)'
  BY DEF Reservation
<1>3. Fresh' /\ \A d \in Dirs, n \in Calls : (turns[d][n].before.gen <= generation)'
  BY DEF Reservation, Fresh
<1>2. ASSUME NEW c \in Calls, Holds(c)'
      PROVE  (/\ call[c].dir = dir /\ call[c].turn < nextTurn
              /\ \A d \in Calls : Holds(d) /\ call[d].turn = call[c].turn => c = d
              /\ Written(c))'
  <2>1. \A d \in Calls : Holds(d)' => Holds(d) /\ call'[d] = call[d]
    BY DEF Holds
  <2>2. enabled' /\ dir' = dir /\ nextTurn' = nextTurn
    BY <1>2 DEF Holds
  <2> QED
    BY <1>2, <2>1, <2>2 DEF Reservation, Written
<1> QED
  BY <1>1, <1>2, <1>3 DEF Reservation

\* As before, where one call moves: it holds no turn then.
LEMMA ReservationOne ==
    ASSUME Typed, Reservation, NEW c \in Calls, UNCHANGED <<generation, turns>>,
           enabled' => enabled /\ nextTurn' = nextTurn /\ dir' = dir,
           \A d \in Calls \ {c} : call'[d] = call[d],
           call'[c].gen <= generation, ~call'[c].wrote, ~Holds(c)'
    PROVE  Reservation'
<1>1. \A d \in Calls : call'[d].gen <= generation /\ (call'[d].wrote => call'[d].at = "tool")
  BY DEF Reservation, At
<1>2. \A d \in Calls : Holds(d)' => call'[d] = call[d]
  OBVIOUS
<1> QED
  BY <1>1, <1>2, ReservationKeeps DEF At

LEMMA GenOfGoto ==
    ASSUME Typed, NEW c \in Calls, NEW at, Goto(c, at)
    PROVE  /\ call'[c].at = at /\ call'[c].gen = call[c].gen /\ call'[c].turn = call[c].turn
           /\ call'[c].dir = call[c].dir /\ call'[c].wrote = call[c].wrote
           /\ \A d \in Calls \ {c} : call'[d] = call[d]
<1>1. call[c] \in CallStates /\ call'[c] = [call[c] EXCEPT !.at = at]
  BY DEF Typed, TypeOK, Goto
<1>2. /\ call'[c].at = at /\ call'[c].gen = call[c].gen /\ call'[c].turn = call[c].turn
      /\ call'[c].dir = call[c].dir /\ call'[c].wrote = call[c].wrote
  BY <1>1 DEF CallStates
<1> QED
  BY <1>2, PlaceOfGoto

LEMMA GenOfNew ==
    ASSUME Typed, NEW c \in Calls, NEW does, NEW at, NEW s,
           call' = [call EXCEPT ![c] = Call(does, at, s)]
    PROVE  /\ call'[c].at = at /\ call'[c].gen = 0 /\ ~call'[c].wrote
           /\ \A d \in Calls \ {c} : call'[d] = call[d]
BY DEF Typed, TypeOK, Call

LEMMA GenOfReturned ==
    ASSUME Typed, NEW c \in Calls, Returned(c)
    PROVE  /\ call'[c].at = "done" /\ call'[c].gen = 0 /\ ~call'[c].wrote
           /\ \A d \in Calls \ {c} : call'[d] = call[d]
BY GenOfNew DEF Returned

\* A call that starts afresh holds nothing.
LEMMA ReservationNew ==
    ASSUME Typed, Reservation, NEW c \in Calls, NEW does, NEW at, NEW s,
           call' = [call EXCEPT ![c] = Call(does, at, s)],
           at \in {"called", "drain", "done", "stray"}, UNCHANGED <<generation, turns>>,
           enabled' => enabled /\ nextTurn' = nextTurn /\ dir' = dir
    PROVE  Reservation'
<1>1. /\ call'[c].at = at /\ call'[c].gen = 0 /\ ~call'[c].wrote
      /\ \A d \in Calls \ {c} : call'[d] = call[d]
  BY GenOfNew
<1>2. call'[c].gen <= generation
  BY <1>1, ReservedTyped DEF ReservedTypes
<1>3. ~Holds(c)'
  BY <1>1 DEF Holds
<1> QED
  BY <1>1, <1>2, <1>3, ReservationOne

LEMMA ReservationReturned ==
    ASSUME Typed, Reservation, NEW c \in Calls, Returned(c), UNCHANGED <<generation, turns>>,
           enabled' => enabled /\ nextTurn' = nextTurn /\ dir' = dir
    PROVE  Reservation'
BY ReservationNew DEF Returned

LEMMA ReservationGoto ==
    ASSUME Typed, Reservation, NEW c \in Calls, ~At(c, "tool"), NEW at, Goto(c, at),
           at \notin {"capture", "tool"}, UNCHANGED <<generation, turns>>,
           enabled' => enabled /\ nextTurn' = nextTurn /\ dir' = dir
    PROVE  Reservation'
<1>1. /\ call'[c].at = at /\ call'[c].gen = call[c].gen /\ call'[c].wrote = call[c].wrote
      /\ \A d \in Calls \ {c} : call'[d] = call[d]
  BY GenOfGoto
<1>2. call'[c].gen <= generation /\ ~call'[c].wrote
  BY <1>1 DEF Reservation
<1>3. ~Holds(c)'
  BY <1>1 DEF Holds
<1> QED
  BY <1>1, <1>2, <1>3, ReservationOne

LEMMA ReservationStop ==
    ASSUME NEW s, StopOwner(s)
    PROVE  UNCHANGED generation /\ (enabled' => enabled /\ nextTurn' = nextTurn /\ dir' = dir)
BY DEF StopOwner

LEMMA ReservationStart ==
    ASSUME Typed, Reservation, NEW c \in Calls, StartRecording(c) PROVE Reservation'
<1>1. CASE UNCHANGED recorder
  BY <1>1, ReservationReturned DEF StartRecording, recorder
<1>2. CASE UNCHANGED <<enabled, generation, nextTurn, owner, dir>>
  BY <1>2, ReservationReturned DEF StartRecording
<1>3. CASE generation' = generation + 1
  <2>1. call'[c].gen = 0 /\ ~call'[c].wrote /\ \A d \in Calls \ {c} : call'[d] = call[d]
    BY GenOfReturned DEF StartRecording
  <2>2. generation \in Nat /\ \A d \in Calls : call[d].gen \in Nat /\ call[d].gen <= generation
    BY ReservedTyped DEF ReservedTypes, Reservation
  <2>3. \A d \in Calls : call'[d].gen \in Nat /\ call'[d].gen <= generation
    BY <2>1, <2>2
  <2>4. \A d \in Calls : ~Holds(d)' /\ call'[d].gen <= generation'
    BY <1>3, <2>2, <2>3 DEF Holds
  <2>5. generation' > 0
    BY <1>3, <2>2
  <2>6. \A d \in Calls : (call[d].wrote => At(d, "tool"))'
    BY <2>1 DEF Reservation, At
  <2>7. \A d \in Dirs, n \in Calls : turns'[d][n].before.gen < generation'
    <3> SUFFICES ASSUME NEW d \in Dirs, NEW n \in Calls
                 PROVE  turns[d][n].before.gen < generation + 1
      BY <1>3 DEF StartRecording
    <3>1. turns[d][n].before.gen \in Nat /\ generation \in Nat
      BY ReservedTyped DEF ReservedTypes
    <3>2. turns[d][n].before.gen <= generation
      BY DEF Reservation
    <3> QED
      BY <3>1, <3>2
  <2>8. \A d \in Dirs, n \in Calls : turns'[d][n].before.gen <= generation'
    <3> SUFFICES ASSUME NEW d \in Dirs, NEW n \in Calls
                 PROVE  turns'[d][n].before.gen <= generation'
      OBVIOUS
    <3>1. turns'[d][n].before.gen \in Nat /\ generation' \in Nat
      BY <1>3, ReservedTyped DEF ReservedTypes, StartRecording
    <3> QED
      BY <2>7, <3>1
  <2> QED
    BY <2>4, <2>5, <2>6, <2>7, <2>8 DEF Reservation, Fresh
<1> QED
  BY <1>1, <1>2, <1>3 DEF StartRecording

LEMMA ReservationReserve ==
    ASSUME Typed, Reservation, NEW c \in Calls, ReserveTurn(c) PROVE Reservation'
<1> DEFINE r == [call[c] EXCEPT !.at = "capture", !.gen = generation, !.turn = nextTurn, !.dir = dir]
<1>0. call[c] \in CallStates /\ call \in [Calls -> CallStates]
  BY DEF Typed, TypeOK
<1>1. CASE enabled
  <2>1. /\ r.at = "capture" /\ r.gen = generation /\ r.turn = nextTurn /\ r.dir = dir
        /\ r.wrote = call[c].wrote
    BY <1>0 DEF CallStates
  <2>2. call' = [call EXCEPT ![c] = r]
    BY <1>0, <1>1 DEF ReserveTurn
  <2>3. call'[c] = r /\ \A d \in Calls \ {c} : call'[d] = call[d]
    BY <1>0, <2>2
  <2>4. nextTurn' = nextTurn + 1 /\ UNCHANGED <<enabled, generation, dir, turns>>
    BY <1>1 DEF ReserveTurn
  <2>5. ReservedTypes
    BY ReservedTyped
  <2>6. \A d \in Calls \ {c} : Holds(d)' => Holds(d) /\ call[d].turn < nextTurn /\ call[d].dir = dir
    BY <2>3, <2>4 DEF Holds, Reservation
  <2>7. /\ call'[c].turn = nextTurn /\ call'[c].dir = dir /\ call'[c].gen = generation
        /\ ~call'[c].wrote
    BY <2>1, <2>3 DEF Reservation, ReserveTurn, At
  <2>8. (enabled => generation > 0)' /\ \A d \in Calls : (call[d].gen <= generation)'
    <3>1. (enabled => generation > 0)'
      BY <2>4 DEF Reservation
    <3>2. generation <= generation
      BY <2>5 DEF ReservedTypes
    <3>3. \A d \in Calls : call'[d].gen <= generation
      BY <2>3, <2>7, <3>2 DEF Reservation
    <3> QED
      BY <2>4, <3>1, <3>3
  <2>9. \A d \in Calls : Holds(d)' => (call[d].dir = dir /\ call[d].turn < nextTurn)'
    <3> SUFFICES ASSUME NEW d \in Calls, Holds(d)'
                 PROVE  call'[d].dir = dir /\ call'[d].turn < nextTurn + 1
      BY <2>4
    <3>1. nextTurn \in Nat /\ call[d].turn \in Nat
      BY <2>5 DEF ReservedTypes
    <3>2. CASE d = c
      BY <2>7, <3>1, <3>2
    <3>3. CASE d # c
      BY <2>3, <2>6, <3>1, <3>3
    <3> QED
      BY <3>2, <3>3
  <2>10. \A d, e \in Calls : Holds(d)' /\ Holds(e)' /\ call'[e].turn = call'[d].turn => d = e
    <3> SUFFICES ASSUME NEW d \in Calls, NEW e \in Calls, Holds(d)', Holds(e)',
                        call'[e].turn = call'[d].turn
                 PROVE  d = e
      OBVIOUS
    <3>1. CASE d # c /\ e # c
      BY <2>3, <2>6, <3>1 DEF Reservation
    <3>2. CASE d = c \/ e = c
      <4>1. \A b \in Calls \ {c} : Holds(b)' => call'[b].turn # nextTurn
        <5> SUFFICES ASSUME NEW b \in Calls \ {c}, Holds(b)' PROVE call'[b].turn # nextTurn
          OBVIOUS
        <5>1. call[b].turn < nextTurn /\ call'[b].turn = call[b].turn
          BY <2>3, <2>6
        <5>2. nextTurn \in Nat /\ call[b].turn \in Nat
          BY <2>5 DEF ReservedTypes
        <5> QED
          BY <5>1, <5>2
      <4> QED
        BY <2>7, <3>2, <4>1
    <3> QED
      BY <3>1, <3>2
  <2>11. \A d \in Calls : Holds(d)' => Written(d)'
    <3> SUFFICES ASSUME NEW d \in Calls, Holds(d)' PROVE Written(d)'
      OBVIOUS
    <3>1. CASE d = c
      <4>1. \A e \in Dirs, n \in Calls : e = dir /\ n = nextTurn => turns[e][n].before.gen < generation
        BY <1>1, <2>5 DEF Reservation, Fresh, ReservedTypes
      <4> QED
        BY <2>4, <2>7, <3>1, <4>1 DEF Written
    <3>2. CASE d # c
      BY <2>3, <2>4, <2>6, <3>2 DEF Reservation, Written
    <3> QED
      BY <3>1, <3>2
  <2>12. \A d \in Calls : (call[d].wrote => At(d, "tool"))'
    BY <2>3, <2>7 DEF Reservation, At
  <2>13. Fresh'
    <3> SUFFICES ASSUME NEW d \in Dirs, NEW n \in Calls, d = dir, n >= nextTurn + 1
                 PROVE  turns[d][n].before.gen < generation
      BY <2>4 DEF Fresh
    <3>1. n >= nextTurn
      BY <2>5, CallAssumption DEF ReservedTypes, Calls
    <3> QED
      BY <1>1, <3>1 DEF Reservation, Fresh
  <2>14. \A d \in Dirs, n \in Calls : (turns[d][n].before.gen <= generation)'
    BY <2>4 DEF Reservation
  <2> QED
    BY <2>8, <2>9, <2>10, <2>11, <2>12, <2>13, <2>14 DEF Reservation
<1>2. CASE ~enabled
  <2>1. Goto(c, "tool") /\ UNCHANGED <<enabled, generation, nextTurn, dir, turns>>
    BY <1>2 DEF ReserveTurn
  <2>2. /\ call'[c].gen = call[c].gen /\ call'[c].wrote = call[c].wrote
        /\ \A d \in Calls \ {c} : call'[d] = call[d]
    BY <2>1, GenOfGoto
  <2>3. call'[c].gen <= generation /\ ~call'[c].wrote
    BY <2>2 DEF Reservation, ReserveTurn, At
  <2>4. ~Holds(c)'
    BY <1>2, <2>1 DEF Holds
  <2> QED
    BY <2>1, <2>2, <2>3, <2>4, ReservationOne
<1> QED
  BY <1>1, <1>2

LEMMA BeforeWritten ==
    ASSUME turns \in [Dirs -> [Calls -> TurnStates]], NEW f, NEW d, NEW n,
           turns' = [turns EXCEPT ![d][n].before = f]
    PROVE  /\ d \in Dirs /\ n \in Calls => turns'[d][n].before = f
           /\ \A e \in Dirs, m \in Calls :
                 /\ turns'[e][m].action = turns[e][m].action
                 /\ ~(e = d /\ m = n) => turns'[e][m] = turns[e][m]
BY DEF TurnStates

LEMMA ActionWritten ==
    ASSUME turns \in [Dirs -> [Calls -> TurnStates]], NEW f, NEW d, NEW n,
           turns' = [turns EXCEPT ![d][n].action = f]
    PROVE  \A e \in Dirs, m \in Calls :
              /\ turns'[e][m].before = turns[e][m].before
              /\ ~(e = d /\ m = n) => turns'[e][m] = turns[e][m]
BY DEF TurnStates

\* A call whose recording is live goes on to its tool; it may write its before.
LEMMA ReservationGoesOn ==
    ASSUME Typed, Reservation, NEW c \in Calls, At(c, "capture"), Current(c),
           UNCHANGED <<enabled, generation, nextTurn, dir>>,
           call'[c].at = "tool", call'[c].gen = call[c].gen, call'[c].turn = call[c].turn,
           call'[c].dir = call[c].dir, \A d \in Calls \ {c} : call'[d] = call[d],
           \/ /\ turns' = [turns EXCEPT ![call[c].dir][call[c].turn].before = File(c, generation)]
              /\ call'[c].wrote = TRUE
           \/ UNCHANGED turns /\ call'[c].wrote = call[c].wrote
    PROVE  Reservation'
<1>0. /\ call \in [Calls -> CallStates] /\ turns \in [Dirs -> [Calls -> TurnStates]]
      /\ File(c, generation).gen = generation
  BY FileType DEF Typed, TypeOK
<1>1. Holds(c)
  BY DEF Current, Holds, At
<1>2. \A d \in Calls : Holds(d)' => Holds(d)
  BY <1>1 DEF Holds
<1>3. \A d \in Calls : /\ call'[d].gen = call[d].gen /\ call'[d].turn = call[d].turn
                       /\ call'[d].dir = call[d].dir
  OBVIOUS
<1>4. \A d \in Calls : (call[d].wrote => At(d, "tool"))'
  BY DEF Reservation, At
<1>5. ASSUME NEW e \in Dirs, NEW m \in Calls, ~(e = call[c].dir /\ m = call[c].turn)
      PROVE  turns'[e][m] = turns[e][m]
  BY <1>0, <1>5, BeforeWritten
<1>6. \A e \in Dirs, m \in Calls :
         \/ turns'[e][m].before = turns[e][m].before
         \/ turns'[e][m].before = File(c, generation)
  <2> SUFFICES ASSUME NEW e \in Dirs, NEW m \in Calls, e = call[c].dir, m = call[c].turn
               PROVE  \/ turns'[e][m].before = turns[e][m].before
                      \/ turns'[e][m].before = File(c, generation)
    BY <1>5
  <2>1. CASE turns' = [turns EXCEPT ![call[c].dir][call[c].turn].before = File(c, generation)]
    BY <1>0, <2>1, BeforeWritten
  <2> QED
    BY <2>1
<1>7. generation <= generation
  BY ReservedTyped DEF ReservedTypes
<1>8. \A d \in Dirs, n \in Calls : (turns[d][n].before.gen <= generation)'
  <2> SUFFICES ASSUME NEW d \in Dirs, NEW n \in Calls
               PROVE  turns'[d][n].before.gen <= generation
    OBVIOUS
  <2>1. CASE turns'[d][n].before = turns[d][n].before
    BY <2>1 DEF Reservation
  <2>2. CASE turns'[d][n].before = File(c, generation)
    BY <1>0, <1>7, <2>2
  <2> QED
    BY <1>6, <2>1, <2>2
<1>9. Fresh'
  <2> SUFFICES ASSUME NEW d \in Dirs, NEW n \in Calls, d = dir, n >= nextTurn
               PROVE  turns'[d][n].before.gen < generation
    BY DEF Fresh
  <2>1. call[c].turn < nextTurn /\ call[c].turn \in Nat /\ nextTurn \in Nat
    BY <1>1, ReservedTyped DEF Reservation, ReservedTypes
  <2>2. n # call[c].turn
    BY <2>1, CallAssumption DEF Calls
  <2>3. turns'[d][n] = turns[d][n]
    BY <1>5, <2>2
  <2>4. enabled
    BY DEF Current
  <2> QED
    BY <2>3, <2>4 DEF Reservation, Fresh
<1>10. Written(c)'
  <2> SUFFICES ASSUME NEW d \in Dirs, NEW n \in Calls, d = call[c].dir, n = call[c].turn
               PROVE  IF call'[c].wrote THEN turns'[d][n].before = File(c, generation)
                                        ELSE turns'[d][n].before.gen < generation
    BY <1>3 DEF Written
  <2>1. CASE turns' = [turns EXCEPT ![call[c].dir][call[c].turn].before = File(c, generation)]
             /\ call'[c].wrote = TRUE
    BY <1>0, <2>1, BeforeWritten
  <2>2. CASE UNCHANGED turns /\ call'[c].wrote = call[c].wrote
    BY <1>1, <2>2 DEF Reservation, Written
  <2> QED
    BY <2>1, <2>2
<1>11. \A d \in Calls : Holds(d)' => Written(d)'
  <2> SUFFICES ASSUME NEW d \in Calls, Holds(d)', d # c PROVE Written(d)'
    BY <1>10
  <2>1. Holds(d) /\ call'[d] = call[d]
    BY <1>2
  <2>2. call[d].turn # call[c].turn /\ Written(d)
    BY <1>1, <2>1 DEF Reservation
  <2>3. \A e \in Dirs, n \in Calls : n = call[d].turn => turns'[e][n] = turns[e][n]
    BY <1>5, <2>2
  <2> QED
    BY <2>1, <2>2, <2>3 DEF Written
<1>12. \A d \in Calls : (call[d].gen <= generation)' /\ (enabled => generation > 0)'
  BY <1>3 DEF Reservation
<1> QED
  BY <1>2, <1>3, <1>4, <1>8, <1>9, <1>11, <1>12 DEF Reservation

LEMMA ReservationWrite ==
    ASSUME Typed, Reservation, NEW c \in Calls, WriteBefore(c) PROVE Reservation'
<1>0. call \in [Calls -> CallStates] /\ call[c] \in CallStates
  BY DEF Typed, TypeOK
<1>1. UNCHANGED <<enabled, generation, nextTurn, dir>> /\ At(c, "capture")
  BY DEF WriteBefore, recorder
<1>2. CASE /\ Current(c) /\ call' = [call EXCEPT ![c].at = "tool", ![c].wrote = TRUE]
           /\ turns' = [turns EXCEPT ![call[c].dir][call[c].turn].before = File(c, generation)]
  <2>1. call' = [call EXCEPT ![c] = [call[c] EXCEPT !.at = "tool", !.wrote = TRUE]]
    BY <1>0, <1>2
  <2>2. /\ call'[c].at = "tool" /\ call'[c].gen = call[c].gen /\ call'[c].turn = call[c].turn
        /\ call'[c].dir = call[c].dir /\ call'[c].wrote = TRUE
        /\ \A d \in Calls \ {c} : call'[d] = call[d]
    BY <1>0, <2>1, WrittenCallType
  <2> QED
    BY <1>1, <1>2, <2>2, ReservationGoesOn
<1>3. CASE Current(c) /\ Goto(c, "tool") /\ UNCHANGED turns
  BY <1>1, <1>3, GenOfGoto, ReservationGoesOn
<1>4. CASE call' = [call EXCEPT ![c] = Call("nothing", "tool", Nobody)] /\ UNCHANGED turns
  <2>1. call'[c].gen = 0 /\ ~call'[c].wrote /\ \A d \in Calls \ {c} : call'[d] = call[d]
    BY <1>4, GenOfNew
  <2>2. call'[c].gen <= generation
    BY <2>1, ReservedTyped DEF ReservedTypes
  <2>3. ~Holds(c)'
    BY <1>1, <2>1, ReservedTyped DEF Holds, Reservation, ReservedTypes
  <2> QED
    BY <1>1, <1>4, <2>1, <2>2, <2>3, ReservationOne
<1> QED
  BY <1>2, <1>3, <1>4 DEF WriteBefore

LEMMA ReservationFinish ==
    ASSUME Typed, Reservation, NEW c \in Calls, FinishTurn(c) PROVE Reservation'
<1>1. turns \in [Dirs -> [Calls -> TurnStates]]
  BY DEF Typed, TypeOK
<1>2. \A e \in Dirs, m \in Calls : turns'[e][m].before = turns[e][m].before
  <2>1. CASE turns' = [turns EXCEPT ![call[c].dir][call[c].turn].action = File(c, generation)]
    BY <1>1, <2>1, ActionWritten
  <2>2. CASE UNCHANGED turns
    BY <2>2
  <2> QED
    BY <2>1, <2>2 DEF FinishTurn
<1>3. /\ call'[c].at = "done" /\ call'[c].gen = 0 /\ ~call'[c].wrote
      /\ \A d \in Calls \ {c} : call'[d] = call[d]
  BY GenOfReturned DEF FinishTurn
<1>4. UNCHANGED <<enabled, generation, nextTurn, dir>>
  BY DEF FinishTurn, recorder
<1>5. \A d \in Calls : Holds(d)' => Holds(d) /\ call'[d] = call[d]
  BY <1>3, <1>4 DEF Holds
<1>6. \A d \in Calls : call'[d].gen <= generation
  BY <1>3, ReservedTyped DEF Reservation, ReservedTypes
<1>7. \A d \in Calls : Holds(d)' => Written(d)'
  <2> SUFFICES ASSUME NEW d \in Calls, Holds(d)' PROVE Written(d)'
    OBVIOUS
  <2>1. Written(d) /\ call'[d] = call[d]
    BY <1>5 DEF Reservation
  <2> QED
    BY <1>2, <1>4, <2>1 DEF Written
<1>8. \A d \in Calls : Holds(d)' => call'[d].dir = dir' /\ call'[d].turn < nextTurn'
  BY <1>4, <1>5 DEF Reservation
<1>9. \A d, e \in Calls : Holds(d)' /\ Holds(e)' /\ call'[e].turn = call'[d].turn => d = e
  BY <1>5 DEF Reservation
<1>10. \A d \in Calls : (call[d].wrote => At(d, "tool"))'
  BY <1>3 DEF Reservation, At
<1>11. Fresh' /\ \A d \in Dirs, n \in Calls : (turns[d][n].before.gen <= generation)'
  BY <1>2, <1>4 DEF Reservation, Fresh
<1>12. (enabled => generation > 0)'
  BY <1>4 DEF Reservation
<1>13. \A d \in Calls : (call[d].gen <= generation)'
  BY <1>4, <1>6
<1> QED
  BY <1>7, <1>8, <1>9, <1>10, <1>11, <1>12, <1>13 DEF Reservation

LEMMA ReservationNext == Typed /\ Reservation /\ [Next]_vars => Reservation'
<1> SUFFICES ASSUME Typed, Reservation, [Next]_vars PROVE Reservation'
  OBVIOUS
<1> USE DEF recorder
<1>1. ASSUME NEW c \in Calls, Begin(c) PROVE Reservation'
  <2>1. ASSUME NEW does, NEW s, Invoke(c, does, s) PROVE Reservation'
    BY <2>1, ReservationNew DEF Invoke
  <2>2. CASE BeginShutdown(c)
    BY <2>2, ReservationNew DEF BeginShutdown
  <2> QED
    BY <1>1, <2>1, <2>2 DEF Begin
<1>2. ASSUME NEW c \in Calls, Admit(c) PROVE Reservation'
  <2>1. CASE shutdown
    BY <1>2, <2>1, ReservationReturned DEF Admit
  <2>2. CASE ~shutdown
    <3>1. First[call[c].does] \notin {"capture", "tool"} /\ ~At(c, "tool")
      BY <1>2 DEF Admit, Typed, Purpose, First, At
    <3> QED
      BY <1>2, <2>2, <3>1, ReservationGoto DEF Admit
  <2> QED
    BY <2>1, <2>2
<1>3. ASSUME NEW c \in Calls, Cancel(c) \/ ReviveSession(c) \/ StrayEnds(c) PROVE Reservation'
  <2>1. UNCHANGED <<recorder, turns>>
    BY <1>3 DEF Cancel, ReviveSession, StrayEnds
  <2>2. \/ Returned(c) \/ call' = [call EXCEPT ![c] = Call("nothing", "stray", Nobody)]
        \/ Goto(c, "strayStop") /\ ~At(c, "tool")
    BY <1>3 DEF Cancel, ReviveSession, StrayEnds, At
  <2> QED
    BY <2>1, <2>2, ReservationReturned, ReservationNew, ReservationGoto
<1>4. ASSUME NEW c \in Calls, StopRecording(c) \/ StopOwned(c) \/ StrayStops(c) PROVE Reservation'
  <2>1. Returned(c) /\ UNCHANGED turns /\ \E s : StopOwner(s)
    BY <1>4 DEF StopRecording, StopOwned, StrayStops
  <2> QED
    BY <2>1, ReservationStop, ReservationReturned
<1>5. ASSUME NEW c \in Calls, EndTool(c) \/ DrainCalls(c) \/ ForgetSessions(c) PROVE Reservation'
  <2>1. ~At(c, "tool") /\ \E at \in {"stopOwned", "revoke", "stopAll"} : Goto(c, at)
    BY <1>5 DEF EndTool, DrainCalls, ForgetSessions, At
  <2>2. UNCHANGED <<recorder, turns>>
    BY <1>5 DEF EndTool, DrainCalls, ForgetSessions
  <2> QED
    BY <2>1, <2>2, ReservationGoto
<1>6. ASSUME NEW c \in Calls, RevokeSessions(c) \/ StopAll(c) PROVE Reservation'
  <2>1. ~At(c, "tool") /\ \E at \in {"forget", "closed"} : Goto(c, at)
    BY <1>6 DEF RevokeSessions, StopAll, At
  <2>2. UNCHANGED recorder \/ \E s : StopOwner(s)
    BY <1>6 DEF RevokeSessions, StopAll
  <2>3. UNCHANGED turns
    BY <1>6 DEF RevokeSessions, StopAll
  <2> QED
    BY <2>1, <2>2, <2>3, ReservationStop, ReservationGoto
<1>7. ASSUME NEW s \in Sessions, EndSession(s) \/ RunHook(s) PROVE Reservation'
  <2>1. UNCHANGED <<turns, call>> /\ (UNCHANGED recorder \/ StopOwner(s))
    BY <1>7 DEF EndSession, RunHook
  <2> QED
    BY <2>1, ReservationStop, ReservationKeeps DEF Reservation, At
<1>8. CASE Maintain
  <2>1. UNCHANGED <<turns, call>> /\ (UNCHANGED recorder \/ StopOwner(Nobody))
    BY <1>8 DEF Maintain, Wake, CheckRecording, StopIdle
  <2> QED
    BY <2>1, ReservationStop, ReservationKeeps DEF Reservation, At
<1>9. CASE Expire \/ UNCHANGED vars
  BY <1>9, ReservationKeeps DEF Expire, vars, Reservation, At
<1> QED
  BY <1>1, <1>2, <1>3, <1>4, <1>5, <1>6, <1>7, <1>8, <1>9,
     ReservationStart, ReservationReserve, ReservationWrite, ReservationFinish DEF Next, Continue

\* Only the call that holds a turn writes an action to it.
LEMMA ActionStep ==
    ASSUME Typed, Reservation, [Next]_vars,
           NEW d \in Dirs, NEW n \in Calls, NEW c \in Calls,
           turns'[d][n].action.call = c, turns[d][n].action.call # c
    PROVE  IF call[c].wrote THEN turns[d][n].before = File(c, generation)
                            ELSE turns[d][n].before.gen < generation
<1>1. turns \in [Dirs -> [Calls -> TurnStates]] /\ turns[d][n] \in TurnStates
  BY DEF Typed, TypeOK
<1>2. turns' # turns
  OBVIOUS
<1>3. \A b \in Calls : ~WriteBefore(b)
  <2> SUFFICES ASSUME NEW b \in Calls,
                      turns' = [turns EXCEPT ![call[b].dir][call[b].turn].before = File(b, generation)]
               PROVE  FALSE
    BY <1>2 DEF WriteBefore
  <2>1. turns'[d][n].action = turns[d][n].action
    BY <1>1, BeforeWritten
  <2> QED
    BY <2>1
<1>4. PICK b \in Calls : FinishTurn(b)
  BY <1>2, <1>3
     DEF Next, Begin, Continue, Invoke, BeginShutdown, Admit, Cancel, StartRecording, StopRecording,
         ReserveTurn, EndTool, StopOwned, StrayEnds, StrayStops, ReviveSession, DrainCalls,
         RevokeSessions, ForgetSessions, StopAll, EndSession, RunHook, Maintain, Wake,
         CheckRecording, StopIdle, Expire, vars
<1>5. /\ Current(b)
      /\ turns' = [turns EXCEPT ![call[b].dir][call[b].turn].action = File(b, generation)]
  BY <1>2, <1>4 DEF FinishTurn
<1>6. d = call[b].dir /\ n = call[b].turn
  BY <1>1, <1>5, ActionWritten
<1>7. c = b
  <2>1. turns'[d][n].action = File(b, generation)
    BY <1>1, <1>5, <1>6 DEF TurnStates
  <2> QED
    BY <2>1 DEF File
<1>8. Holds(b)
  BY <1>4, <1>5 DEF FinishTurn, Current, Holds, At
<1>9. Written(b)
  BY <1>8 DEF Reservation
<1> QED
  BY <1>6, <1>7, <1>9 DEF Written

LEMMA AlwaysReserved == Spec => []Reservation
<1>1. ASSUME Init PROVE Reservation
  <2>1. \A c \in Calls : call[c].at = "new" /\ call[c].gen = 0 /\ ~call[c].wrote
    BY <1>1 DEF Init, Call
  <2>2. \A d \in Dirs, n \in Calls : turns[d][n].before.gen = 0
    BY <1>1 DEF Init, NoTurn, NoFile, File
  <2>3. ~enabled /\ generation = 0
    BY <1>1 DEF Init
  <2> QED
    BY <2>1, <2>2, <2>3 DEF Reservation, Fresh, Holds
<1> QED
  BY <1>1, ReservationNext, AlwaysTyped, PTL DEF Spec

\* An action is written to the turn that holds what was before that same action, if
\* its call wrote that, and no before of the same recording otherwise, for any number
\* of calls, recordings and directories.
THEOREM ActionFollowsItsBefore == Spec => ActionHasItsBefore
<1>1. Typed /\ Reservation /\ [Next]_vars =>
         [\A d \in Dirs, n \in Calls, c \in Calls :
             turns'[d][n].action.call = c /\ turns[d][n].action.call # c =>
                 IF call[c].wrote THEN turns[d][n].before = File(c, generation)
                                  ELSE turns[d][n].before.gen < generation]_vars
  BY ActionStep
<1> QED
  BY <1>1, AlwaysTyped, AlwaysReserved, PTL DEF Spec, ActionHasItsBefore
=============================================================================
