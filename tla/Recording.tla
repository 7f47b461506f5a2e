------------------------------ MODULE Recording ------------------------------
(* The trajectory recorder of a runtime (recording.rs), the admission and    *)
(* shutdown of the runtime's calls and its idle sweep (sdk/runtime.rs).      *)
(*                                                                           *)
(* One recorder serves all sessions.  Its mutex is taken in one step, but a  *)
(* recorded call takes it three times: to reserve a turn, to write what was  *)
(* before the action, to write the action.  Calls hold a read guard of the   *)
(* runtime's lifecycle lock, shutdown its write guard.  Any of them may be   *)
(* cancelled (sdk/abi.rs): its future is dropped with the guard, and what it *)
(* gave to a blocking worker goes on.  Sessions end and revive as            *)
(* SessionLifecycle says; here an end is its tombstone and, later, the       *)
(* recorder's clean-up hook.                                                 *)
EXTENDS Naturals, FiniteSets

CONSTANTS
    Sessions,   \* sessions of the runtime
    Dirs,       \* output directories a start may name
    MaxCalls,   \* bound: calls, numbered in the order they come
    MaxOpen     \* bound: calls under way at once

ASSUME CallAssumption    == MaxCalls \in Nat /\ MaxOpen \in Nat
ASSUME SessionAssumption == "nobody" \notin Sessions

Nobody == "nobody"
Calls  == 1..MaxCalls

VARIABLES
    enabled, generation, nextTurn,  \* RecordingInner
    owner,      \* the session of the live recording, Nobody if anonymous
    dir,        \* its output directory
    video,      \* the generations whose video is being captured
    turns,      \* on disk: by directory and number, the before and the action that are there
    ended,      \* tombstones
    due,        \* ended sessions whose hook has still to run
    shutdown,   \* the runtime's flag
    recent,     \* a call came within the recording's idle TTL
    sweep,      \* the maintenance thread
    call        \* each call: where it is, and its locals

recorder == <<enabled, generation, nextTurn, owner, dir, video>>
vars == <<enabled, generation, nextTurn, owner, dir, video, turns, ended, due,
          shutdown, recent, sweep, call>>

\* gen, turn and dir are the reservation; wrote, that its before was written.
Call(does, at, s) == [does |-> does, at |-> at, session |-> s, gen |-> 0, turn |-> 0,
                      dir |-> Nobody, wrote |-> FALSE]

\* A file of a turn: the call it is of and the recording that was live.  The
\* before stands for either of its files, the state and the screenshot.
File(c, g) == [call |-> c, gen |-> g]
NoFile == File(0, 0)
NoTurn == [before |-> NoFile, action |-> NoFile]

Init ==
    /\ enabled = FALSE /\ generation = 0 /\ nextTurn = 1
    /\ owner = Nobody /\ dir = Nobody /\ video = {}
    /\ turns = [d \in Dirs |-> [n \in Calls |-> NoTurn]]
    /\ ended = {} /\ due = {}
    /\ shutdown = FALSE /\ recent = FALSE /\ sweep = "asleep"
    /\ call = [c \in Calls |-> Call("nothing", "new", Nobody)]

At(c, at)   == call[c].at = at
Goto(c, at) == call' = [call EXCEPT ![c].at = at]
Returned(c) == call' = [call EXCEPT ![c] = Call("nothing", "done", Nobody)]

\* Calls that hold a read guard, and a shutdown that holds the write guard.
Guarded == {"start", "stop", "begin", "capture", "tool", "end", "stopOwned", "revive"}
Inside(c) == call[c].at \in Guarded
Writes(c) == call[c].at \in {"revoke", "forget", "stopAll"}

\* What a cancelled call left to a worker: its tool, or the stop of a recording.
Strays == {"stray", "strayStop"}

-----------------------------------------------------------------------------
(* Admission: the flag is read before the read guard and again under it.     *)

Comes(c) ==
    /\ At(c, "new") /\ \A b \in Calls : b < c => ~At(b, "new")
    /\ Cardinality({b \in Calls : call[b].at \notin {"new", "done", "closed"}}) < MaxOpen

First == [start |-> "start", stop |-> "stop", act |-> "begin", end |-> "end", revive |-> "revive"]

Invoke(c, does, s) ==
    /\ Comes(c) /\ ~shutdown
    /\ recent' = TRUE
    /\ call' = [call EXCEPT ![c] = Call(does, "called", s)]
    /\ UNCHANGED <<recorder, turns, ended, due, shutdown, sweep>>

\* Mutant of Admit: the flag was read before the guard, and that is all.
AdmitUnlooked(c) ==
    /\ At(c, "called") /\ ~\E w \in Calls : Writes(w)
    /\ Goto(c, First[call[c].does])
    /\ UNCHANGED <<recorder, turns, ended, due, shutdown, recent, sweep>>

Admit(c) ==
    /\ At(c, "called") /\ ~\E w \in Calls : Writes(w)
    /\ IF shutdown THEN Returned(c) ELSE Goto(c, First[call[c].does])
    /\ UNCHANGED <<recorder, turns, ended, due, shutdown, recent, sweep>>

\* The caller cancels a call or a shutdown where it waits.  A tool's worker may go on
\* without the read guard; the stop of a recording, given to a worker, still comes.
Cancel(c) ==
    /\ \/ /\ call[c].at \in {"called", "start", "stop", "begin", "tool", "end", "revive", "drain"}
          /\ Returned(c)
       \/ /\ At(c, "tool")
          /\ call' = [call EXCEPT ![c] = Call("nothing", "stray", Nobody)]
       \/ /\ call[c].at \in {"stopOwned", "stopAll"}
          /\ Goto(c, "strayStop")
    /\ UNCHANGED <<recorder, turns, ended, due, shutdown, recent, sweep>>

StrayEnds(c) ==
    /\ At(c, "stray")
    /\ Returned(c)
    /\ UNCHANGED <<recorder, turns, ended, due, shutdown, recent, sweep>>

-----------------------------------------------------------------------------
(* The recorder.                                                             *)

\* Mutant of Stops: only the owner's recording is stopped, the anonymous owner's too.
StopsOwn(requester) == enabled /\ requester = owner

\* Nobody asks without regard to the owner; a session stops only its own.
Stops(requester) == enabled /\ requester \in {Nobody, owner}

\* Mutant of FirstTurn: turns are counted from zero.
FirstTurnZero == 0

FirstTurn == 1

StopOwner(requester) ==
    /\ enabled'  = (enabled /\ ~Stops(requester))
    /\ owner'    = IF Stops(requester) THEN Nobody ELSE owner
    /\ dir'      = IF Stops(requester) THEN Nobody ELSE dir
    /\ nextTurn' = IF Stops(requester) THEN FirstTurn ELSE nextTurn
    /\ video'    = IF Stops(requester) THEN {} ELSE video
    /\ UNCHANGED generation

\* Mutant of Refused: what the dispatch admitted is not looked at again.
RefusedNever(c) == FALSE

Refused(c) == call[c].session \in ended

VideoOf(captured, g) == IF captured THEN {g} ELSE {}

\* The video of the recording before is stopped first; with no directory the
\* start fails there, and that recording goes on without its video.
StartRecording(c) ==
    /\ At(c, "start")
    /\ Returned(c)
    /\ \/ Refused(c) /\ UNCHANGED recorder
       \/ ~Refused(c) /\ video' = {} /\ UNCHANGED <<enabled, generation, nextTurn, owner, dir>>
       \/ \E d \in Dirs, captured \in BOOLEAN :
             /\ ~Refused(c)
             /\ enabled' = TRUE /\ generation' = generation + 1 /\ nextTurn' = FirstTurn
             /\ owner' = call[c].session /\ dir' = d
             /\ video' = VideoOf(captured, generation')
    /\ UNCHANGED <<turns, ended, due, shutdown, recent, sweep>>

StopRecording(c) ==
    /\ At(c, "stop")
    /\ StopOwner(Nobody)
    /\ Returned(c)
    /\ UNCHANGED <<turns, ended, due, shutdown, recent, sweep>>

ReserveTurn(c) ==
    /\ At(c, "begin")
    /\ IF enabled
         THEN /\ call' = [call EXCEPT ![c].at = "capture", ![c].gen = generation,
                                      ![c].turn = nextTurn, ![c].dir = dir]
              /\ nextTurn' = nextTurn + 1
         ELSE Goto(c, "tool") /\ UNCHANGED nextTurn
    /\ UNCHANGED <<enabled, generation, owner, dir, video, turns, ended, due, shutdown, recent, sweep>>

\* Mutant of Current: any recording will do.
CurrentAny(c) == enabled

\* The recording of the reservation is still the live one.
Current(c) == enabled /\ generation = call[c].gen

\* What is captured may be suppressed or missing and its write may fail: the call
\* goes on with its turn, and nothing takes away what was there.
WriteBefore(c) ==
    /\ At(c, "capture")
    /\ \/ /\ Current(c)
          /\ turns' = [turns EXCEPT ![call[c].dir][call[c].turn].before = File(c, generation)]
          /\ call' = [call EXCEPT ![c].at = "tool", ![c].wrote = TRUE]
       \/ Current(c) /\ Goto(c, "tool") /\ UNCHANGED turns
       \/ /\ ~Current(c) /\ UNCHANGED turns
          /\ call' = [call EXCEPT ![c] = Call("nothing", "tool", Nobody)]
    /\ UNCHANGED <<recorder, ended, due, shutdown, recent, sweep>>

\* The tool ran.  A turn of a recording that is over is discarded; a write may fail.
FinishTurn(c) ==
    /\ At(c, "tool")
    /\ Returned(c)
    /\ \/ /\ Current(c)
          /\ turns' = [turns EXCEPT ![call[c].dir][call[c].turn].action = File(c, generation)]
       \/ UNCHANGED turns
    /\ UNCHANGED <<recorder, ended, due, shutdown, recent, sweep>>

-----------------------------------------------------------------------------
(* Sessions.  end_session may be refused, or put off to the end of a call;   *)
(* in any case the recording its session owns is stopped before it returns.  *)

Tombstone(s) ==
    /\ s \notin ended
    /\ ended' = ended \cup {s} /\ due' = due \cup {s}

EndTool(c) ==
    /\ At(c, "end")
    /\ Goto(c, "stopOwned")
    /\ Tombstone(call[c].session) \/ UNCHANGED <<ended, due>>
    /\ UNCHANGED <<recorder, turns, shutdown, recent, sweep>>

StopOwned(c) ==
    /\ At(c, "stopOwned")
    /\ StopOwner(call[c].session)
    /\ Returned(c)
    /\ UNCHANGED <<turns, ended, due, shutdown, recent, sweep>>

\* The same stop by the worker of a call, or of a shutdown, that was cancelled.
StrayStops(c) ==
    /\ At(c, "strayStop")
    /\ StopOwner(call[c].session)
    /\ Returned(c)
    /\ UNCHANGED <<turns, ended, due, shutdown, recent, sweep>>

ReviveSession(c) ==
    /\ At(c, "revive")
    /\ ended' = ended \ {call[c].session}
    /\ Returned(c)
    /\ UNCHANGED <<recorder, turns, due, shutdown, recent, sweep>>

\* A transport that closes, an idle session, a deferred end.
EndSession(s) ==
    /\ Tombstone(s)
    /\ UNCHANGED <<recorder, turns, shutdown, recent, sweep, call>>

\* A hook that fails has stopped the recording too; its retry finds nothing.
RunHook(s) ==
    /\ s \in due
    /\ StopOwner(s)
    /\ due' = due \ {s}
    /\ UNCHANGED <<turns, ended, shutdown, recent, sweep, call>>

-----------------------------------------------------------------------------
(* Shutdown and the idle sweep.                                              *)

BeginShutdown(c) ==
    /\ Comes(c)
    /\ shutdown' = TRUE
    /\ call' = [call EXCEPT ![c] = Call("nothing", "drain", Nobody)]
    /\ UNCHANGED <<recorder, turns, ended, due, recent, sweep>>

\* Mutant of DrainCalls: the drain also waits for the calls that wait for it.
DrainAllCalls(c) ==
    /\ At(c, "drain")
    /\ ~\E d \in Calls : d # c /\ call[d].at \notin {"new", "done", "closed"} \cup Strays
    /\ Goto(c, "revoke")
    /\ UNCHANGED <<recorder, turns, ended, due, shutdown, recent, sweep>>

DrainCalls(c) ==
    /\ At(c, "drain") /\ ~\E d \in Calls : Inside(d) \/ Writes(d)
    /\ Goto(c, "revoke")
    /\ UNCHANGED <<recorder, turns, ended, due, shutdown, recent, sweep>>

\* Every session that is live is ended, its hooks included, and all are forgotten.
RevokeSessions(c) ==
    /\ At(c, "revoke")
    /\ ended' = Sessions
    /\ IF owner \in ended \cup {Nobody} THEN UNCHANGED recorder ELSE StopOwner(owner)
    /\ Goto(c, "forget")
    /\ UNCHANGED <<turns, due, shutdown, recent, sweep>>

ForgetSessions(c) ==
    /\ At(c, "forget")
    /\ ended' = {}
    /\ Goto(c, "stopAll")
    /\ UNCHANGED <<recorder, turns, due, shutdown, recent, sweep>>

StopAll(c) ==
    /\ At(c, "stopAll")
    /\ StopOwner(Nobody)
    /\ Goto(c, "closed")
    /\ UNCHANGED <<turns, ended, due, shutdown, recent, sweep>>

Wake ==
    /\ sweep = "asleep"
    /\ \/ shutdown /\ sweep' = "gone"
       \/ ~shutdown /\ ~recent /\ sweep' = "check"
    /\ UNCHANGED <<recorder, turns, ended, due, shutdown, recent, call>>

CheckRecording ==
    /\ sweep = "check"
    /\ sweep' = IF enabled THEN "stop" ELSE "asleep"
    /\ UNCHANGED <<recorder, turns, ended, due, shutdown, recent, call>>

StopIdle ==
    /\ sweep = "stop"
    /\ StopOwner(Nobody)
    /\ sweep' = "asleep"
    /\ UNCHANGED <<turns, ended, due, shutdown, recent, call>>

Expire ==
    /\ recent /\ recent' = FALSE
    /\ UNCHANGED <<recorder, turns, ended, due, shutdown, sweep, call>>

-----------------------------------------------------------------------------

Begin(c) ==
    \/ Invoke(c, "act", Nobody) \/ Invoke(c, "stop", Nobody)
    \/ \E s \in Sessions \cup {Nobody} : Invoke(c, "start", s)
    \/ \E s \in Sessions : Invoke(c, "end", s) \/ Invoke(c, "revive", s)
    \/ BeginShutdown(c)

Continue(c) ==
    \/ Admit(c) \/ StartRecording(c) \/ StopRecording(c)
    \/ ReserveTurn(c) \/ WriteBefore(c) \/ FinishTurn(c)
    \/ EndTool(c) \/ StopOwned(c) \/ ReviveSession(c) \/ StrayEnds(c) \/ StrayStops(c)
    \/ DrainCalls(c) \/ RevokeSessions(c) \/ ForgetSessions(c) \/ StopAll(c)

Maintain == Wake \/ CheckRecording \/ StopIdle

Next ==
    \/ \E c \in Calls : Begin(c) \/ Continue(c) \/ Cancel(c)
    \/ \E s \in Sessions : EndSession(s) \/ RunHook(s)
    \/ Maintain \/ Expire

Spec == Init /\ [][Next]_vars

\* A call that came goes on, as tools return; the maintenance thread comes
\* round; time passes.  Nobody has to call or to end a session.
FairSpec ==
    /\ Spec
    /\ WF_vars(\E c \in Calls : Continue(c))
    /\ WF_vars(Maintain) /\ WF_vars(Expire)

-----------------------------------------------------------------------------

Places == Guarded \cup Strays \cup {"new", "called", "drain", "revoke", "forget", "stopAll",
                                   "done", "closed"}

CallStates ==
    [does : {"nothing"} \cup DOMAIN First, at : Places, session : Sessions \cup {Nobody},
     gen : Nat, turn : Nat, dir : Dirs \cup {Nobody}, wrote : BOOLEAN]
Files      == [call : {0} \cup Calls, gen : Nat]
TurnStates == [before : Files, action : Files]

TypeOK ==
    /\ enabled \in BOOLEAN /\ generation \in Nat /\ nextTurn \in Nat \ {0}
    /\ owner \in Sessions \cup {Nobody} /\ dir \in Dirs \cup {Nobody}
    /\ video \subseteq Nat
    /\ turns \in [Dirs -> [Calls -> TurnStates]]
    /\ ended \subseteq Sessions /\ due \subseteq Sessions
    /\ shutdown \in BOOLEAN /\ recent \in BOOLEAN
    /\ sweep \in {"asleep", "check", "stop", "gone"}
    /\ call \in [Calls -> CallStates]

\* A recording never outlives its session's clean-up (recording.rs 267): a start
\* that comes too late is refused, one that comes in time is stopped by the hook.
NoOrphanRecording == enabled /\ owner \in ended => owner \in due

\* Only the live recording has a video, whatever starts failed or replaced it.
VideoOfLiveRecording == \A g \in video : enabled /\ g = generation

\* What records, and what films it, belongs to a session that has not been
\* cleaned up and to the recording that is live.
RecordingIsOwned == NoOrphanRecording /\ VideoOfLiveRecording

\* When a shutdown returns no call holds its guard, none will get in, and nothing
\* is recorded, though calls and shutdowns were cancelled at any of their waits.
ShutdownDrains ==
    (\E c \in Calls : At(c, "closed")) => ~enabled /\ \A d \in Calls : ~Inside(d)

\* What the lifecycle lock is for: a shutdown "does not return while a previously
\* admitted operation is still executing" (runtime.rs 162-163).  The code does not
\* keep it: the worker of a cancelled call runs on with no guard (abi.rs 520).
NothingRunsAfterShutdown ==
    (\E c \in Calls : At(c, "closed")) => \A d \in Calls : call[d].at \notin Guarded \cup Strays

\* An action is written beside what was before that same action, if its call wrote
\* that, and otherwise beside no before of its own recording: at most a leftover of
\* an earlier one.  Recordings come and go between the three steps of a turn, and a
\* new one may number its turns from one in the same directory.
ActionHasItsBefore ==
    [][\A d \in Dirs, n \in Calls, c \in Calls :
          turns'[d][n].action.call = c /\ turns[d][n].action.call # c =>
              IF call[c].wrote THEN turns[d][n].before = File(c, generation)
                               ELSE turns[d][n].before.gen < generation]_vars

\* What a turn's folder is documented to hold: screenshots "immediately before and
\* after the action" (recording_tools.rs 53-54), with turns numbered from one "each
\* time recording is (re-)started" (66).  The code does not keep it: a before that
\* is not captured leaves the one of an earlier recording in place.
BeforeIsOfTheAction ==
    \A d \in Dirs, n \in Calls :
        turns[d][n].before # NoFile => turns[d][n].before.gen >= turns[d][n].action.gen

\* A shutdown was cancelled while it drained, and nobody shuts down since: the flag
\* is up, the maintenance thread goes, the recording and its calls are not stopped.
Abandoned == shutdown /\ ~\E c \in Calls : At(c, "drain") \/ Writes(c) \/ At(c, "closed")

\* A recording that nobody uses is stopped, whoever owns it: by the sweep, or by the
\* shutdown that ends the sweep, if that is not abandoned.
IdleRecordingStops == []<>(~enabled \/ recent \/ Abandoned)

\* Every shutdown returns, calls and other shutdowns notwithstanding, unless its
\* caller cancels it.
ShutdownReturns ==
    \A c \in Calls : At(c, "drain") ~> call[c].at \in {"closed", "strayStop", "done"}
=============================================================================
