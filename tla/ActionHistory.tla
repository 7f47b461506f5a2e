--------------------------- MODULE ActionHistory ---------------------------
(* The encrypted action history, cua-driver-core/src/history.rs: tool calls  *)
(* offer events without ever blocking, one writer thread appends them, and   *)
(* the lifecycle operations of the user, one at a time under the control     *)
(* mutex, switch recording on and off, query it and delete it.               *)
(*                                                                           *)
(* One action is what a thread does between two points where others see it:  *)
(* an atomic, the writer slot's mutex, a message, a file.  An operation that *)
(* refuses at once changes nothing and is a stuttering step.  Encryption,    *)
(* retention (whole chunks of the log's oldest part disappear) and the lease *)
(* of a second process are left out, but for the errors they end in.         *)
EXTENDS Naturals, Sequences

CONSTANTS
    Actions,       \* tool calls the dispatcher reports, each begins once
    Operations,    \* lifecycle operations the user asks for
    Capacity,      \* WRITER_QUEUE_CAPACITY
    MaxOperations, \* bound: lifecycle operations of a behaviour
    MaxRestarts    \* bound: restarts of the process

Nobody  == "nobody"
Control == "control"

AllOperations == {"enable", "disable", "pause", "resume", "flush", "delete", "query"}

ASSUME ActionAssumption == Nobody \notin Actions /\ Control \notin Actions
ASSUME OperationAssumption == Operations \subseteq AllOperations
ASSUME BoundAssumption ==
    Capacity \in Nat \ {0} /\ MaxOperations \in Nat /\ MaxRestarts \in Nat

VARIABLES
    durable,    \* state.json
    log,        \* the events of the store, oldest first
    enabled, paused, health,
    next,       \* next_sequence
    dropped,    \* dropped_events
    unreported, \* pending_dropped_events
    slot,       \* who holds the mutex of the writer handle
    handle,     \* the handle is there
    thread,     \* the writer thread: none, running, or failed for good
    queue,      \* its channel
    control,    \* the operation under the control mutex, and where it is
    awaiting,   \* the number of its last request to the writer
    answer,     \* the answer to that request
    act,        \* where each tool call is, and which of its events is next
    operations, restarts, \* counted against their bounds
    turnedOff,  \* history: recording has been switched off
    broken      \* history: the writer failed, the log was erased, a crash

store    == <<durable, log>>
switches == <<enabled, paused, health>>
counters == <<next, dropped, unreported>>
writer   == <<handle, thread, queue>>
request  == <<awaiting, answer>>
bounds   == <<operations, restarts>>
past     == <<turnedOff, broken>>
vars     == <<store, switches, counters, slot, writer, control, request, act, bounds, past>>

State(e, p)        == [enabled |-> e, paused |-> p]
At(op, where)      == [op |-> op, at |-> where]
Call(where, event) == [at |-> where, event |-> event]
Resting            == At("none", "idle")

\* An event with its sequence number; a request to the writer has number 0.
Event(what, of, n, s) == [what |-> what, of |-> of, n |-> n, seq |-> s]
Request(what, n)      == Event(what, Nobody, n, 0)
IsEvent(m)            == m.what \notin {"Flush", "ReadSnapshot", "Shutdown"}

\* Mutant of Room: the channel takes one message too many.
RoomForOneMore == Len(queue) <= Capacity

Room == Len(queue) < Capacity

LastSeq == IF log = <<>> THEN 0 ELSE log[Len(log)].seq

Init ==
    /\ durable = State(FALSE, FALSE) /\ log = <<>>
    /\ enabled = FALSE /\ paused = FALSE /\ health = "disabled"
    /\ next = 1 /\ dropped = 0 /\ unreported = 0
    /\ slot = Nobody /\ handle = FALSE /\ thread = "none" /\ queue = <<>>
    /\ control = Resting /\ awaiting = 0 /\ answer = "none"
    /\ act = [a \in Actions |-> Call("new", "start")]
    /\ operations = 0 /\ restarts = 0
    /\ turnedOff = FALSE /\ broken = FALSE

-----------------------------------------------------------------------------
(* Tool calls: begin_action, the action itself, finish_action.               *)

Move(a, where) == act' = [act EXCEPT ![a] = Call(where, act[a].event)]

RecordDrop == dropped' = dropped + 1 /\ unreported' = unreported + 1

\* is_capturing reads two atomics, one after the other.
BeginAction(a) ==
    /\ act[a].at = "new"
    /\ Move(a, IF enabled THEN "gated" ELSE "over")
    /\ UNCHANGED <<store, switches, counters, slot, writer, control, request, bounds, past>>

PassGate(a) ==
    /\ act[a].at = "gated"
    /\ Move(a, IF paused THEN "over" ELSE "offer")
    /\ UNCHANGED <<store, switches, counters, slot, writer, control, request, bounds, past>>

\* Mutant of FinishGate: the end of an action asks whether recording is on.
FinishGateCapturing == enabled /\ ~paused

\* Pause suppresses new begins, never the end of a started action.
FinishGate == enabled

FinishAction(a) ==
    /\ act[a].at = "running"
    /\ act' = [act EXCEPT ![a] = IF FinishGate THEN Call("offer", "end")
                                 ELSE Call("over", "start")]
    /\ UNCHANGED <<store, switches, counters, slot, writer, control, request, bounds, past>>

\* Where a call goes when its event was sent or dropped.
Offered(a) == IF act[a].event = "start" THEN "running" ELSE "over"

\* try_lock: a slot that is busy or empty costs the event.
TryLock(a) ==
    /\ act[a].at = "offer"
    /\ IF slot = Nobody /\ handle
       THEN slot' = a /\ Move(a, "report") /\ UNCHANGED counters
       ELSE RecordDrop /\ Move(a, Offered(a)) /\ UNCHANGED <<slot, next>>
    /\ UNCHANGED <<store, switches, writer, control, request, bounds, past>>

\* Mutant of Unsent: the count of a report that found no room is gone.
UnsentForgotten == 0

\* What is left to report once a report was tried.
Unsent == IF Room THEN 0 ELSE unreported

\* Drops so far are reported ahead of the event, if there is room.
ReportDrops(a) ==
    /\ act[a].at = "report"
    /\ Move(a, "send")
    /\ IF unreported = 0
       THEN UNCHANGED <<queue, next, unreported>>
       ELSE /\ next' = next + 1
            /\ unreported' = Unsent
            /\ queue' = IF Room THEN Append(queue, Event("drops", Nobody, unreported, next))
                        ELSE queue
    /\ UNCHANGED <<store, switches, dropped, slot, handle, thread, control, request,
                   bounds, past>>

\* try_send: a full queue costs the event, and its number is not used again.
TrySend(a) ==
    /\ act[a].at = "send"
    /\ next' = next + 1
    /\ IF Room
       THEN /\ queue' = Append(queue, Event(act[a].event, a, 0, next))
            /\ UNCHANGED <<dropped, unreported>>
       ELSE RecordDrop /\ UNCHANGED queue
    /\ slot' = Nobody
    /\ Move(a, Offered(a))
    /\ UNCHANGED <<store, switches, handle, thread, control, request, bounds, past>>

-----------------------------------------------------------------------------
(* The writer thread.                                                        *)

\* What the writer's failure does; it is never undone for this thread.
Fail == thread' = "failed" /\ health' = "failed" /\ broken' = TRUE

AppendEvent ==
    /\ thread = "running" /\ queue # <<>> /\ IsEvent(Head(queue))
    /\ log' = Append(log, Head(queue))
    /\ queue' = Tail(queue)
    /\ UNCHANGED <<durable, switches, counters, slot, handle, thread, control, request,
                   act, bounds, past>>

\* The store is full, unwritable or could not be rotated.
AppendFails ==
    /\ thread = "running" /\ queue # <<>> /\ IsEvent(Head(queue))
    /\ Fail /\ RecordDrop
    /\ queue' = Tail(queue)
    /\ UNCHANGED <<store, enabled, paused, next, slot, handle, control, request, act,
                   bounds, turnedOff>>

\* Mutant of Discards: a writer that failed leaves its queue alone.
DiscardsNothing == FALSE

\* A writer that failed still empties its queue.
Discards == thread = "failed"

DiscardEvent ==
    /\ Discards /\ queue # <<>> /\ IsEvent(Head(queue))
    /\ RecordDrop
    /\ queue' = Tail(queue)
    /\ UNCHANGED <<store, switches, next, slot, handle, thread, control, request, act,
                   bounds, past>>

\* Maintenance fails after half a minute without a message, which is longer
\* than any operation takes to send its next one.
MaintenanceFails ==
    /\ thread = "running" /\ queue = <<>> /\ control = Resting
    /\ Fail
    /\ UNCHANGED <<store, enabled, paused, counters, slot, handle, queue, control,
                   request, act, bounds, turnedOff>>

\* Mutant of Verdicts: a flush succeeds if the file does, whatever was lost.
VerdictsOfFile == {"ok", "error"}

\* The sticky error, or what the file system says.
Verdicts == IF thread = "failed" THEN {"error"} ELSE {"ok", "error"}

\* An answer to a request whose deadline has passed goes nowhere.
AnswerRequest ==
    /\ thread # "none" /\ queue # <<>> /\ Head(queue).what \in {"Flush", "ReadSnapshot"}
    /\ IF Head(queue).n = awaiting /\ control.at \in {"flushing", "reading"}
       THEN answer' \in Verdicts
       ELSE UNCHANGED answer
    /\ queue' = Tail(queue)
    /\ UNCHANGED <<store, switches, counters, slot, handle, thread, control, awaiting,
                   act, bounds, past>>

ExitThread ==
    /\ thread # "none" /\ queue # <<>> /\ Head(queue).what = "Shutdown"
    /\ thread' = "none"
    /\ queue' = Tail(queue)
    /\ UNCHANGED <<store, switches, counters, slot, handle, control, request, act,
                   bounds, past>>

-----------------------------------------------------------------------------
(* Lifecycle operations.  The control mutex is held from the first step to   *)
(* the last, so there is one at a time; control says where it is.            *)

Goto(where) == control' = At(control.op, where)
Return      == control' = Resting

Begin(op, where) ==
    /\ control = Resting /\ op \in Operations /\ operations < MaxOperations
    /\ control' = At(op, where)
    /\ operations' = operations + 1
    /\ UNCHANGED <<store, health, counters, slot, writer, request, act, restarts, broken>>

Enable ==
    /\ ~enabled
    /\ Begin("enable", "start writer")
    /\ paused' = FALSE
    /\ UNCHANGED <<enabled, turnedOff>>

\* The producer gate closes before persistence or writer shutdown.
Disable ==
    /\ Begin("disable", IF enabled THEN "persist first" ELSE "persist")
    /\ enabled' = FALSE
    /\ turnedOff' = (turnedOff \/ enabled)
    /\ UNCHANGED paused

DeleteAll ==
    /\ Begin("delete", IF enabled THEN "mark" ELSE "persist")
    /\ enabled' = FALSE /\ paused' = FALSE
    /\ turnedOff' = (turnedOff \/ enabled)

\* pause, resume and flush require that recording is on.
Adjust(op, where) == enabled /\ Begin(op, where) /\ UNCHANGED <<enabled, paused, turnedOff>>

Pause  == Adjust("pause", "persist")
Resume == Adjust("resume", "persist")
Flush  == Adjust("flush", "mark")
Query  == Begin("query", "snapshot") /\ UNCHANGED <<enabled, paused, turnedOff>>

\* Mutant of FirstSequence: a writer numbers on from where this process was.
FirstSequenceHere == next

\* A writer numbers on from the last event of the store.
FirstSequence == LastSeq + 1

\* The slot is empty: enabled is FALSE.  Reading the store, the lease, the first
\* append or its verification may fail, the last with the event in the log.
StartWriter ==
    /\ control.at = "start writer" /\ slot = Nobody
    /\ \/ /\ handle' = TRUE /\ thread' = "running"
          /\ log' = Append(log, Event("enable", Nobody, 0, FirstSequence))
          /\ next' = FirstSequence + 1
          /\ Goto("persist")
       \/ /\ UNCHANGED <<handle, thread>>
          /\ \/ UNCHANGED <<log, next>>
             \/ /\ log' = Append(log, Event("enable", Nobody, 0, FirstSequence))
                /\ next' = FirstSequence + 1
          /\ Return
    /\ UNCHANGED <<durable, switches, dropped, unreported, slot, queue, request, act,
                   bounds, past>>

\* What each operation writes to the state file, and where it goes from there.
Wanted(op) == State(op \in {"enable", "pause", "resume"}, op = "pause")

Persisted == CASE control.op = "enable"              -> "open"
               [] control.op \in {"pause", "resume"} -> "mark"
               [] control.op = "delete"              -> "erase"
               [] control.at = "persist first"       -> "mark"
               [] OTHER                              -> "settle"

Persist ==
    /\ control.at \in {"persist", "persist first"}
    /\ durable' = Wanted(control.op)
    /\ paused' = (paused \/ control.op = "pause")
    /\ Goto(Persisted)
    /\ UNCHANGED <<log, enabled, health, counters, slot, writer, request, act, bounds, past>>

\* Mutant of PersistFailed: an enable that could not be made durable returns.
PersistFailedReturns == Resting

\* Mutant of PersistFailed: a disable that finds recording off settles anyway.
PersistFailedSettles == CASE control.op = "enable" -> At("enable", "stop")
                          [] control = At("disable", "persist") -> At("disable", "settle")
                          [] OTHER -> Resting

\* Where a failed write leads: enable stops its writer, the others return.
PersistFailed == IF control.op = "enable" THEN At("enable", "stop") ELSE Resting

\* A disable that could not be made durable opens the gate again.
PersistFails ==
    /\ control.at \in {"persist", "persist first"}
    /\ control' = PersistFailed
    /\ enabled' = (enabled \/ control.at = "persist first")
    /\ UNCHANGED <<store, paused, health, counters, slot, writer, request, act, bounds, past>>

\* send_lossless and stop_writer hold the slot until there is room for their
\* message, a query until its snapshot is there, flush_writer to clone the sender.
TakeSlot ==
    /\ control.at \in {"mark", "clone", "stop", "snapshot"} /\ slot = Nobody
    /\ slot' = Control
    /\ Goto(CASE control.at = "mark"  -> "marking"
              [] control.at = "clone" -> "cloned"
              [] control.at = "stop"  -> "stopping"
              [] control.at = "snapshot" -> IF handle THEN "ask" ELSE "offline")
    /\ handle' = (handle /\ control.at # "stop")
    /\ UNCHANGED <<store, switches, counters, thread, queue, request, act, bounds, past>>

\* The marker an operation leaves in the log.
Marker(op) == IF op = "query" THEN "access" ELSE op

SendMarker ==
    /\ control.at = "marking" /\ Room
    /\ queue' = Append(queue, Event(Marker(control.op), Nobody, 0, next))
    /\ next' = next + 1
    /\ slot' = Nobody
    /\ Goto("clone")
    /\ UNCHANGED <<store, switches, dropped, unreported, handle, thread, request, act,
                   bounds, past>>

CloneSender ==
    /\ control.at = "cloned"
    /\ slot' = Nobody
    /\ Goto("flush")
    /\ UNCHANGED <<store, switches, counters, writer, request, act, bounds, past>>

\* A request waits for room: Flush without the slot, ReadSnapshot with it.
Ask ==
    /\ control.at \in {"flush", "ask"} /\ Room
    /\ awaiting' = awaiting + 1 /\ answer' = "none"
    /\ IF control.at = "flush"
       THEN Goto("flushing") /\ queue' = Append(queue, Request("Flush", awaiting'))
       ELSE Goto("reading") /\ queue' = Append(queue, Request("ReadSnapshot", awaiting'))
    /\ UNCHANGED <<store, switches, counters, slot, handle, thread, act, bounds, past>>

\* The answer, or the end of the five seconds it had to come.
Outcomes == IF answer = "none" THEN {"error"} ELSE {answer}

\* disable and delete go on whatever the writer says.
Flushed ==
    /\ control.at = "flushing"
    /\ \E outcome \in Outcomes :
         /\ control' = CASE control.op \in {"disable", "delete"} -> At(control.op, "stop")
                         [] control.op \in {"flush", "query"}    -> Resting
                         [] OTHER -> IF outcome = "error" THEN At(control.op, "undo")
                                     ELSE At(control.op, IF control.op = "resume" THEN "open"
                                                         ELSE "settle")
         /\ paused' = (paused /\ ~(control.op = "pause" /\ outcome = "error"))
    /\ UNCHANGED <<store, enabled, health, counters, slot, writer, request, act, bounds, past>>

\* A pause or a resume that failed tries to write back what it found.
Undo ==
    /\ control.at = "undo"
    /\ durable' \in {durable, State(TRUE, control.op = "resume")}
    /\ Return
    /\ UNCHANGED <<log, switches, counters, slot, writer, request, act, bounds, past>>

\* Producers are let in once the operation is durable.
OpenGate ==
    /\ enabled' = (enabled \/ control.op = "enable")
    /\ paused' = (paused /\ control.op = "enable")

Open ==
    /\ control.at = "open"
    /\ OpenGate
    /\ Goto("settle")
    /\ UNCHANGED <<store, health, counters, slot, writer, request, act, bounds, past>>

Settle ==
    /\ control.at = "settle"
    /\ health' = CASE control.op = "disable" -> "disabled"
                   [] control.op = "pause"   -> "paused"
                   [] OTHER                  -> "ready"
    /\ paused' = (paused /\ control.op # "disable")
    /\ Return
    /\ UNCHANGED <<store, enabled, counters, slot, writer, request, act, bounds, past>>

SendShutdown ==
    /\ control.at = "stopping" /\ Room
    /\ queue' = Append(queue, Request("Shutdown", 0))
    /\ Goto("join")
    /\ UNCHANGED <<store, switches, counters, slot, handle, thread, request, act, bounds, past>>

\* The join has no deadline: whatever was queued has been dealt with.
Join ==
    /\ control.at = "join" /\ thread = "none"
    /\ slot' = Nobody
    /\ control' = CASE control.op = "enable"  -> Resting
                    [] control.op = "disable" -> At("disable", "settle")
                    [] control.op = "delete"  -> At("delete", "persist")
    /\ health' = IF control.op = "enable" THEN "failed" ELSE health
    /\ UNCHANGED <<store, enabled, paused, counters, writer, request, act, bounds, past>>

\* Keys first, then files; a failure in between leaves what cannot be read.
Erase ==
    /\ control.at = "erase"
    /\ \/ log' = <<>> /\ next' = 1 /\ health' = "disabled" /\ broken' = TRUE
       \/ health' \in {health, "failed"} /\ UNCHANGED <<log, next, broken>>
    /\ Return
    /\ UNCHANGED <<durable, enabled, paused, dropped, unreported, slot, writer, request,
                   act, bounds, turnedOff>>

\* A snapshot of nothing, or an error, ends the query.
SnapshotRead ==
    /\ control.at = "reading"
    /\ slot' = Nobody
    /\ \/ answer = "ok" /\ log # <<>> /\ Goto("mark")
       \/ Return
    /\ UNCHANGED <<store, switches, counters, writer, request, act, bounds, past>>

\* The next number, once the log was read.
NextOffline == IF next > LastSeq THEN next ELSE LastSeq + 1

\* Without a writer the query reads the store itself, and appends its access
\* if it returns any event.
QueryOffline ==
    /\ control.at = "offline"
    /\ \/ UNCHANGED <<log, next>>
       \/ next' = NextOffline /\ UNCHANGED log
       \/ /\ log # <<>>
          /\ next' = NextOffline + 1
          /\ log' \in {log, Append(log, Event("access", Nobody, 0, NextOffline))}
    /\ slot' = Nobody
    /\ Return
    /\ UNCHANGED <<durable, switches, dropped, unreported, writer, request, act, bounds, past>>

-----------------------------------------------------------------------------
\* The process ends, and HistoryManager::new starts from what it left.
Restart ==
    /\ restarts < MaxRestarts
    /\ restarts' = restarts + 1
    /\ dropped' = 0 /\ unreported' = 0 /\ queue' = <<>>
    /\ slot' = Nobody /\ control' = Resting /\ awaiting' = 0 /\ answer' = "none"
    /\ act' = [a \in Actions |-> IF act[a].at = "new" THEN act[a]
                                 ELSE Call("over", "start")]
    /\ paused' = durable.paused
    /\ \E starts \in {durable.enabled, FALSE} :
         /\ enabled' = starts /\ handle' = starts
         /\ thread' = IF starts THEN "running" ELSE "none"
         /\ next' = IF starts THEN FirstSequence ELSE 1
         /\ health' = CASE ~durable.enabled -> "disabled"
                        [] ~starts          -> "failed"
                        [] OTHER            -> IF durable.paused THEN "paused" ELSE "ready"
    /\ broken' = TRUE
    /\ UNCHANGED <<store, operations, turnedOff>>

ToolCall(a) == BeginAction(a) \/ PassGate(a) \/ FinishAction(a)

\* A call that has begun to offer an event goes on without waiting.
OfferEvent(a) == TryLock(a) \/ ReportDrops(a) \/ TrySend(a)

WriterLoop == \/ AppendEvent \/ AppendFails \/ DiscardEvent \/ AnswerRequest
              \/ ExitThread

StartOperation == \/ Enable \/ Disable \/ DeleteAll \/ Pause \/ Resume \/ Flush \/ Query

RunOperation ==
    \/ StartWriter \/ Persist \/ PersistFails \/ TakeSlot \/ SendMarker \/ CloneSender \/ Ask \/ Flushed
    \/ Undo \/ Open \/ Settle \/ SendShutdown \/ Join \/ Erase \/ SnapshotRead
    \/ QueryOffline

Next ==
    \/ \E a \in Actions : ToolCall(a) \/ OfferEvent(a)
    \/ WriterLoop \/ MaintenanceFails
    \/ StartOperation \/ RunOperation
    \/ Restart

Spec == Init /\ [][Next]_vars

\* Threads that can take a step do.  Nobody has to call, to ask for an operation
\* or to end an action, and the process need not restart.
FairSpec ==
    /\ Spec
    /\ WF_vars(WriterLoop) /\ WF_vars(RunOperation)
    /\ \A a \in Actions : WF_vars(OfferEvent(a))

-----------------------------------------------------------------------------
(* Properties.                                                               *)

Kinds == {"start", "end", "drops", "access", "Flush", "ReadSnapshot", "Shutdown"}
         \cup AllOperations
Messages == [what : Kinds, of : Actions \cup {Nobody}, n : Nat, seq : Nat]

Places == {"idle", "start writer", "persist", "persist first", "mark", "marking", "clone",
           "cloned", "flush", "flushing", "undo", "open", "settle", "stop", "stopping",
           "join", "erase", "snapshot", "ask", "reading", "offline"}
Controls == [op : AllOperations \cup {"none"}, at : Places]

StoreTypeOK ==
    /\ durable \in [enabled : BOOLEAN, paused : BOOLEAN]
    /\ log \in Seq(Messages)
    /\ next \in Nat /\ dropped \in Nat /\ unreported \in Nat

SwitchTypeOK ==
    /\ enabled \in BOOLEAN /\ paused \in BOOLEAN
    /\ health \in {"disabled", "ready", "paused", "failed"}
    /\ turnedOff \in BOOLEAN /\ broken \in BOOLEAN

WriterTypeOK ==
    /\ slot \in Actions \cup {Nobody, Control}
    /\ handle \in BOOLEAN /\ thread \in {"none", "running", "failed"}
    /\ queue \in Seq(Messages) /\ Len(queue) <= Capacity

ControlTypeOK ==
    /\ control \in Controls
    /\ awaiting \in Nat /\ answer \in {"none", "ok", "error"}
    /\ operations \in 0..MaxOperations /\ restarts \in 0..MaxRestarts

Calls == [at : {"new", "gated", "offer", "report", "send", "running", "over"},
          event : {"start", "end"}]

ActTypeOK == act \in [Actions -> Calls]

\* The values of every variable; the channel keeps its capacity.
TypeOK == StoreTypeOK /\ SwitchTypeOK /\ WriterTypeOK /\ ControlTypeOK /\ ActTypeOK

\* The store numbers its events strictly upwards across writers, restarts,
\* queries without a writer and deletions: read_all refuses any other store,
\* and with it every later query and enable.
SequencesIncrease == \A i, j \in DOMAIN log : i < j => log[i].seq < log[j].seq

\* With no operation under way a writer runs exactly if recording is on, so
\* that nothing is written behind a user who switched it off.
WriterFollowsEnablement ==
    control = Resting => /\ handle = enabled /\ (thread # "none") = enabled
                         /\ ~enabled => queue = <<>>

\* Whoever waits has someone to wait for: what is in the channel has a thread that
\* empties it, a join has its shutdown there, after all other messages, and the
\* slot is with a call or an operation that will give it back.
WaitsAreServed ==
    /\ queue # <<>> => thread # "none"
    /\ control.at = "join" /\ thread # "none" =>
          queue # <<>> /\ queue[Len(queue)].what = "Shutdown"
    /\ slot = Control => control # Resting
    /\ slot \in Actions => act[slot].at \in {"report", "send"}

WriterIsThere == WriterFollowsEnablement /\ WaitsAreServed

\* A recording reported as disabled is not switched on by a restart.
DisabledSurvivesRestart ==
    control = Resting /\ health = "disabled" => ~enabled /\ ~durable.enabled

Reported(s) ==
    LET sum[i \in 0..Len(s)] ==
          IF i = 0 THEN 0 ELSE sum[i - 1] + IF s[i].what = "drops" THEN s[i].n ELSE 0
    IN  sum[Len(s)]

\* Every dropped event is in a report that is stored or on its way, or is still
\* to be reported, as long as the store is sound.
DropsAreReported ==
    ~broken => dropped = unreported + Reported(log) + Reported(queue)

\* The log tells of an action its start and then its end, neither of them twice,
\* whatever was dropped and however often the process restarted.  While
\* recording stays on and nothing is dropped it tells each action from start to
\* end, also one that a pause comes in between.
ActionsAreWhole ==
    LET s == log \o queue IN
    \A i \in DOMAIN s : s[i].of \in Actions =>
        /\ \A j \in i + 1..Len(s) :
              s[j].of = s[i].of => s[i].what = "start" /\ s[j].what = "end"
        /\ ~turnedOff /\ ~broken /\ dropped = 0
           /\ s[i].what = "start" /\ act[s[i].of].at = "over" =>
              \E j \in i + 1..Len(s) : s[j].what = "end" /\ s[j].of = s[i].of

\* A resume lets producers in only when its marker is in the store, after the
\* marker of the pause it ends.
ResumeMarkerFirst ==
    [][control.op = "resume" /\ paused /\ ~paused' /\ restarts' = restarts =>
         \E i \in DOMAIN log : log[i].what = "resume"
                               /\ \A j \in i + 1..Len(log) : log[j].what # "pause"]_vars

\* Every operation returns, also when the writer failed or its queue is full.
OperationReturns == control # Resting ~> control = Resting

\* Claim: a failed write of the state file leaves memory and disk agreeing on
\* whether recording is on.
NoSplitBrain == control = Resting => enabled = durable.enabled
=============================================================================
