------------------------ MODULE ActionHistoryProofs ------------------------
(* Proofs about ActionHistory, by one inductive invariant.  Shape ties the    *)
(* handle, the thread, its queue and the slot's mutex to the place of the     *)
(* operation under way; SeqInv orders the numbers of stored and queued        *)
(* events; HealthInv says what a health of "disabled" stands for.             *)
EXTENDS ActionHistory, TLAPS

\* The places of an operation that leaves its marker, and that stops the writer.
Marking  == {"mark", "marking", "clone", "cloned", "flush", "flushing"}
Stopping == {"stop", "stopping", "join"}

\* Where each operation can be.
Course ==
    \/ control.op = "none"    /\ control.at = "idle"
    \/ control.op = "enable"  /\ control.at \in {"start writer", "persist", "open", "settle"}
                                                \cup Stopping
    \/ control.op = "disable" /\ control.at \in {"persist first", "persist", "settle"}
                                                \cup Marking \cup Stopping
    \/ control.op = "delete"  /\ control.at \in {"persist", "erase"} \cup Marking \cup Stopping
    \/ control.op = "pause"   /\ control.at \in {"persist", "undo", "settle"} \cup Marking
    \/ control.op = "resume"  /\ control.at \in {"persist", "undo", "open", "settle"} \cup Marking
    \/ control.op = "flush"   /\ control.at \in Marking
    \/ control.op = "query"   /\ control.at \in {"snapshot", "ask", "reading", "offline"}
                                                \cup Marking

\* The operation under way has taken the writer's handle, or finds none.
Gone == \/ control.at \in {"start writer", "erase", "offline", "stopping", "join"}
        \/ control.op = "disable" /\ control.at \in {"persist", "settle"}
        \/ control.op = "delete" /\ control.at = "persist"

\* The operation under way finds recording on, or has switched it on.
On == \/ control.op \in {"pause", "resume", "flush"}
      \/ control.op = "query" /\ control.at # "offline"
      \/ control.op = "enable" /\ control.at = "settle"

Agreement ==
    IF control.at \in {"idle", "snapshot"} THEN handle <=> enabled
    ELSE (handle <=> ~Gone) /\ (enabled <=> On)

Holding == {"marking", "cloned", "stopping", "join", "ask", "reading", "offline"}

SlotInv ==
    /\ slot = Control <=> control.at \in Holding
    /\ \A a \in Actions : slot = a <=> act[a].at \in {"report", "send"}
    /\ slot \in Actions => handle

IsShutdown(m) == m.what = "Shutdown"

ThreadInv ==
    /\ handle \/ control.at = "stopping" => thread # "none"
    /\ ~handle /\ control.at \notin {"stopping", "join"} => thread = "none" /\ queue = <<>>
    /\ \A i \in 1..Len(queue) :
           IsShutdown(queue[i]) => control.at = "join" /\ i = Len(queue)
    /\ control.at = "join" =>
           IF thread = "none" THEN queue = <<>>
           ELSE queue # <<>> /\ IsShutdown(queue[Len(queue)])

Shape == Course /\ Agreement /\ SlotInv /\ ThreadInv

\* Numbers of stored and queued events, which a writer goes on counting.
SeqInv ==
    /\ \A i, j \in 1..Len(log) : i < j => log[i].seq < log[j].seq
    /\ thread # "none" => \A i \in 1..Len(log) : log[i].seq < next
    /\ \A j \in 1..Len(queue) : IsEvent(queue[j]) =>
           /\ queue[j].seq < next
           /\ \A i \in 1..Len(log) : log[i].seq < queue[j].seq
           /\ \A i \in 1..Len(queue) : i < j /\ IsEvent(queue[i]) => queue[i].seq < queue[j].seq

\* What a health of "disabled" promises, and what the two operations that set it
\* have made durable by then.
HealthInv ==
    /\ control.op = "disable" /\ control.at \in {"settle"} \cup Marking \cup Stopping
          => ~durable.enabled
    /\ control.at = "erase" => ~durable.enabled
    /\ control.at = "persist first" => health # "disabled"
    /\ health = "disabled" =>
          \/ ~enabled /\ ~durable.enabled
          \/ control.op = "enable" /\ control.at \in {"open", "settle"}

-----------------------------------------------------------------------------
(* Types.                                                                    *)

\* What the type invariant says of the records that are built.
LEMMA MessageType ==
    ASSUME NEW what \in Kinds, NEW of \in Actions \cup {Nobody}, NEW n \in Nat, NEW s \in Nat
    PROVE  Event(what, of, n, s) \in Messages
BY DEF Event, Messages

LEMMA StateType ==
    ASSUME NEW e \in BOOLEAN, NEW p \in BOOLEAN
    PROVE  State(e, p) \in [enabled : BOOLEAN, paused : BOOLEAN]
BY DEF State

LEMMA AtType ==
    ASSUME NEW op \in AllOperations \cup {"none"}, NEW where \in Places
    PROVE  At(op, where) \in Controls
BY DEF At, Controls

LEMMA RestingType == Resting \in Controls
BY AtType DEF Resting, Places

LEMMA ControlFields ==
    ASSUME NEW c \in Controls
    PROVE  c.op \in AllOperations \cup {"none"} /\ c.at \in Places
BY DEF Controls

LEMMA CountType ==
    ASSUME NEW n \in Nat, NEW i \in 0..n, i < n
    PROVE  i + 1 \in 0..n
OBVIOUS

LEMMA BeginType ==
    ASSUME ControlTypeOK, NEW op \in AllOperations, NEW where, Begin(op, where),
           where \in {"start writer", "persist first", "persist", "mark", "snapshot"}
    PROVE  ControlTypeOK'
<1>1. control' \in Controls
  BY AtType DEF Begin, Places
<1>2. operations' \in 0..MaxOperations
  BY CountType, BoundAssumption DEF Begin, ControlTypeOK
<1> QED
  BY <1>1, <1>2 DEF Begin, ControlTypeOK, request

LEMMA RequestType ==
    ASSUME NEW what \in {"Flush", "ReadSnapshot", "Shutdown"}, NEW n \in Nat
    PROVE  Request(what, n) \in Messages
BY MessageType DEF Request, Kinds

LEMMA EmptyType == <<>> \in Seq(Messages) /\ Len(<<>>) = 0
OBVIOUS

LEMMA LastType == ASSUME StoreTypeOK PROVE LastSeq \in Nat
<1>1. CASE log = <<>>
  BY <1>1 DEF LastSeq
<1>2. CASE log # <<>>
  <2>1. log[Len(log)] \in Messages
    BY <1>2 DEF StoreTypeOK
  <2> QED
    BY <1>2, <2>1 DEF LastSeq, Messages
<1> QED
  BY <1>1, <1>2

\* The channel: a sender that found room, the writer that takes a message.
LEMMA SendType ==
    ASSUME WriterTypeOK, Room, NEW m \in Messages
    PROVE  Append(queue, m) \in Seq(Messages) /\ Len(Append(queue, m)) <= Capacity
BY BoundAssumption DEF WriterTypeOK, Room

LEMMA ReceiveType ==
    ASSUME WriterTypeOK, queue # <<>>
    PROVE  /\ Head(queue) \in Messages
           /\ Tail(queue) \in Seq(Messages) /\ Len(Tail(queue)) <= Capacity
BY BoundAssumption DEF WriterTypeOK

LEMMA CallKinds ==
    ASSUME ActTypeOK, NEW a \in Actions
    PROVE  act[a].event \in Kinds
BY DEF ActTypeOK, Calls, Kinds

\* Tool calls.
LEMMA CallType ==
    ASSUME StoreTypeOK, SwitchTypeOK, WriterTypeOK, ControlTypeOK, ActTypeOK,
           NEW a \in Actions, ToolCall(a) \/ OfferEvent(a)
    PROVE  TypeOK'
<1>1. CASE BeginAction(a)
  <2>1. ActTypeOK'
    BY <1>1 DEF BeginAction, Move, Call, store, switches, counters, writer, request,
       bounds, past, ActTypeOK, Calls
  <2>2. StoreTypeOK' /\ SwitchTypeOK' /\ WriterTypeOK' /\ ControlTypeOK'
    BY <1>1 DEF BeginAction, store, switches, counters, writer, request, bounds, past,
       StoreTypeOK, SwitchTypeOK, WriterTypeOK, ControlTypeOK
  <2> QED
    BY <2>1, <2>2 DEF TypeOK
<1>2. CASE PassGate(a)
  <2>1. ActTypeOK'
    BY <1>2 DEF PassGate, Move, Call, store, switches, counters, writer, request, bounds,
       past, ActTypeOK, Calls
  <2>2. StoreTypeOK' /\ SwitchTypeOK' /\ WriterTypeOK' /\ ControlTypeOK'
    BY <1>2 DEF PassGate, store, switches, counters, writer, request, bounds, past,
       StoreTypeOK, SwitchTypeOK, WriterTypeOK, ControlTypeOK
  <2> QED
    BY <2>1, <2>2 DEF TypeOK
<1>3. CASE FinishAction(a)
  <2>1. ActTypeOK'
    BY <1>3 DEF FinishAction, Call, FinishGate, store, switches, counters, writer, request,
       bounds, past, ActTypeOK, Calls
  <2>2. StoreTypeOK' /\ SwitchTypeOK' /\ WriterTypeOK' /\ ControlTypeOK'
    BY <1>3 DEF FinishAction, store, switches, counters, writer, request, bounds, past,
       StoreTypeOK, SwitchTypeOK, WriterTypeOK, ControlTypeOK
  <2> QED
    BY <2>1, <2>2 DEF TypeOK
<1>4. CASE TryLock(a)
  <2>1. StoreTypeOK'
    BY <1>4 DEF TryLock, Move, RecordDrop, Offered, Call, store, switches, counters,
       writer, request, bounds, past, StoreTypeOK
  <2>2. WriterTypeOK'
    BY <1>4 DEF TryLock, Move, RecordDrop, Offered, Call, store, switches, counters,
       writer, request, bounds, past, WriterTypeOK
  <2>3. ActTypeOK'
    BY <1>4 DEF TryLock, Move, RecordDrop, Offered, Call, store, switches, counters,
       writer, request, bounds, past, ActTypeOK, Calls
  <2>4. SwitchTypeOK' /\ ControlTypeOK'
    BY <1>4 DEF TryLock, store, switches, counters, writer, request, bounds, past,
       SwitchTypeOK, ControlTypeOK
  <2> QED
    BY <2>1, <2>2, <2>3, <2>4 DEF TypeOK
<1>5. CASE ReportDrops(a)
  <2>1. StoreTypeOK'
    BY <1>5 DEF ReportDrops, Event, Move, Room, Unsent, Call, store, switches, request,
       bounds, past, StoreTypeOK
  <2>2. WriterTypeOK'
    <3>1. Event("drops", Nobody, unreported, next) \in Messages
      BY MessageType DEF Kinds, StoreTypeOK
    <3> QED
      BY <1>5, <3>1, SendType DEF ReportDrops, WriterTypeOK
  <2>3. ActTypeOK'
    BY <1>5 DEF ReportDrops, Event, Move, Room, Unsent, Call, store, switches, request,
       bounds, past, ActTypeOK, Calls
  <2>4. SwitchTypeOK' /\ ControlTypeOK'
    BY <1>5 DEF ReportDrops, store, switches, request, bounds, past, SwitchTypeOK,
       ControlTypeOK
  <2> QED
    BY <2>1, <2>2, <2>3, <2>4 DEF TypeOK
<1>6. CASE TrySend(a)
  <2>1. StoreTypeOK'
    BY <1>6 DEF TrySend, Event, Move, RecordDrop, Room, Offered, Call, store, switches,
       request, bounds, past, StoreTypeOK
  <2>2. WriterTypeOK'
    BY <1>6, SendType, CallKinds, MessageType DEF TrySend, Unsent, WriterTypeOK,
       StoreTypeOK, ActTypeOK
  <2>3. ActTypeOK'
    BY <1>6 DEF TrySend, Event, Move, RecordDrop, Room, Offered, Call, store, switches,
       request, bounds, past, ActTypeOK, Calls
  <2>4. SwitchTypeOK' /\ ControlTypeOK'
    BY <1>6 DEF TrySend, store, switches, request, bounds, past, SwitchTypeOK, ControlTypeOK
  <2> QED
    BY <2>1, <2>2, <2>3, <2>4 DEF TypeOK
<1> QED
  BY <1>1, <1>2, <1>3, <1>4, <1>5, <1>6 DEF ToolCall, OfferEvent

\* The writer thread.
LEMMA WriterType ==
    ASSUME StoreTypeOK, SwitchTypeOK, WriterTypeOK, ControlTypeOK, ActTypeOK,
           WriterLoop \/ MaintenanceFails
    PROVE  TypeOK'
<1>1. CASE AppendEvent
  <2>1. StoreTypeOK'
    BY <1>1, ReceiveType DEF AppendEvent, counters, StoreTypeOK, WriterTypeOK
  <2>2. WriterTypeOK'
    BY <1>1, ReceiveType DEF AppendEvent, switches, counters, request, bounds, past,
       WriterTypeOK
  <2>3. SwitchTypeOK' /\ ControlTypeOK' /\ ActTypeOK'
    BY <1>1 DEF AppendEvent, switches, counters, request, bounds, past, SwitchTypeOK,
       ControlTypeOK, ActTypeOK
  <2> QED
    BY <2>1, <2>2, <2>3 DEF TypeOK
<1>2. CASE AppendFails
  <2>1. StoreTypeOK'
    BY <1>2 DEF AppendFails, IsEvent, RecordDrop, Fail, store, request, bounds, StoreTypeOK
  <2>2. SwitchTypeOK'
    BY <1>2 DEF AppendFails, IsEvent, RecordDrop, Fail, store, request, bounds, SwitchTypeOK
  <2>3. WriterTypeOK'
    BY <1>2, ReceiveType DEF AppendFails, RecordDrop, Fail, store, request, bounds,
       WriterTypeOK
  <2>4. ControlTypeOK' /\ ActTypeOK'
    BY <1>2 DEF AppendFails, store, request, bounds, ControlTypeOK, ActTypeOK
  <2> QED
    BY <2>1, <2>2, <2>3, <2>4 DEF TypeOK
<1>3. CASE DiscardEvent
  <2>1. StoreTypeOK'
    BY <1>3 DEF DiscardEvent, IsEvent, RecordDrop, Discards, store, switches, request,
       bounds, past, StoreTypeOK
  <2>2. WriterTypeOK'
    BY <1>3, ReceiveType DEF DiscardEvent, RecordDrop, Discards, store, switches, request,
       bounds, past, WriterTypeOK
  <2>3. SwitchTypeOK' /\ ControlTypeOK' /\ ActTypeOK'
    BY <1>3 DEF DiscardEvent, store, switches, request, bounds, past, SwitchTypeOK,
       ControlTypeOK, ActTypeOK
  <2> QED
    BY <2>1, <2>2, <2>3 DEF TypeOK
<1>4. CASE AnswerRequest
  <2>1. WriterTypeOK'
    BY <1>4, ReceiveType DEF AnswerRequest, Verdicts, store, switches, counters, bounds,
       past, WriterTypeOK
  <2>2. ControlTypeOK'
    BY <1>4 DEF AnswerRequest, Verdicts, store, switches, counters, bounds, past,
       ControlTypeOK, Controls, Places, AllOperations
  <2>3. StoreTypeOK' /\ SwitchTypeOK' /\ ActTypeOK'
    BY <1>4 DEF AnswerRequest, store, switches, counters, bounds, past, StoreTypeOK,
       SwitchTypeOK, ActTypeOK
  <2> QED
    BY <2>1, <2>2, <2>3 DEF TypeOK
<1>5. CASE ExitThread
  <2>1. WriterTypeOK'
    BY <1>5, ReceiveType DEF ExitThread, store, switches, counters, request, bounds, past,
       WriterTypeOK
  <2>2. StoreTypeOK' /\ SwitchTypeOK' /\ ControlTypeOK' /\ ActTypeOK'
    BY <1>5 DEF ExitThread, store, switches, counters, request, bounds, past, StoreTypeOK,
       SwitchTypeOK, ControlTypeOK, ActTypeOK
  <2> QED
    BY <2>1, <2>2 DEF TypeOK
<1>6. CASE MaintenanceFails
  <2>1. SwitchTypeOK'
    BY <1>6 DEF MaintenanceFails, Resting, Fail, At, store, counters, request, bounds,
       SwitchTypeOK
  <2>2. WriterTypeOK'
    BY <1>6 DEF MaintenanceFails, Resting, Fail, At, store, counters, request, bounds,
       WriterTypeOK
  <2>3. StoreTypeOK' /\ ControlTypeOK' /\ ActTypeOK'
    BY <1>6 DEF MaintenanceFails, store, counters, request, bounds, StoreTypeOK,
       ControlTypeOK, ActTypeOK
  <2> QED
    BY <2>1, <2>2, <2>3 DEF TypeOK
<1> QED
  BY <1>1, <1>2, <1>3, <1>4, <1>5, <1>6 DEF WriterLoop

\* An operation is asked for.
LEMMA StartType ==
    ASSUME StoreTypeOK, SwitchTypeOK, WriterTypeOK, ControlTypeOK, ActTypeOK, StartOperation
    PROVE  TypeOK'
<1>1. CASE Enable
  <2>1. SwitchTypeOK'
    BY <1>1 DEF Enable, Begin, At, Resting, writer, SwitchTypeOK
  <2>2. ControlTypeOK'
    BY <1>1, BeginType DEF Enable, AllOperations
  <2>3. StoreTypeOK' /\ WriterTypeOK' /\ ActTypeOK'
    BY <1>1 DEF Enable, Begin, writer, store, counters, request, StoreTypeOK, WriterTypeOK,
       ActTypeOK
  <2> QED
    BY <2>1, <2>2, <2>3 DEF TypeOK
<1>2. CASE Disable
  <2>1. SwitchTypeOK'
    BY <1>2 DEF Disable, Begin, At, Resting, SwitchTypeOK
  <2>2. ControlTypeOK'
    BY <1>2, BeginType DEF Disable, AllOperations
  <2>3. StoreTypeOK' /\ WriterTypeOK' /\ ActTypeOK'
    BY <1>2 DEF Disable, Begin, store, counters, writer, request, StoreTypeOK,
       WriterTypeOK, ActTypeOK
  <2> QED
    BY <2>1, <2>2, <2>3 DEF TypeOK
<1>3. CASE DeleteAll
  <2>1. SwitchTypeOK'
    BY <1>3 DEF DeleteAll, Begin, At, Resting, SwitchTypeOK
  <2>2. ControlTypeOK'
    BY <1>3, BeginType DEF DeleteAll, AllOperations
  <2>3. StoreTypeOK' /\ WriterTypeOK' /\ ActTypeOK'
    BY <1>3 DEF DeleteAll, Begin, store, counters, writer, request, StoreTypeOK,
       WriterTypeOK, ActTypeOK
  <2> QED
    BY <2>1, <2>2, <2>3 DEF TypeOK
<1>4. CASE Pause
  <2>1. ControlTypeOK'
    BY <1>4, BeginType DEF Pause, Adjust, AllOperations
  <2>2. StoreTypeOK' /\ SwitchTypeOK' /\ WriterTypeOK' /\ ActTypeOK'
    BY <1>4 DEF Pause, Adjust, Begin, store, counters, writer, request, StoreTypeOK,
       SwitchTypeOK, WriterTypeOK, ActTypeOK
  <2> QED
    BY <2>1, <2>2 DEF TypeOK
<1>5. CASE Resume
  <2>1. ControlTypeOK'
    BY <1>5, BeginType DEF Resume, Adjust, AllOperations
  <2>2. StoreTypeOK' /\ SwitchTypeOK' /\ WriterTypeOK' /\ ActTypeOK'
    BY <1>5 DEF Resume, Adjust, Begin, store, counters, writer, request, StoreTypeOK,
       SwitchTypeOK, WriterTypeOK, ActTypeOK
  <2> QED
    BY <2>1, <2>2 DEF TypeOK
<1>6. CASE Flush
  <2>1. ControlTypeOK'
    BY <1>6, BeginType DEF Flush, Adjust, AllOperations
  <2>2. StoreTypeOK' /\ SwitchTypeOK' /\ WriterTypeOK' /\ ActTypeOK'
    BY <1>6 DEF Flush, Adjust, Begin, store, counters, writer, request, StoreTypeOK,
       SwitchTypeOK, WriterTypeOK, ActTypeOK
  <2> QED
    BY <2>1, <2>2 DEF TypeOK
<1>7. CASE Query
  <2>1. ControlTypeOK'
    BY <1>7, BeginType DEF Query, AllOperations
  <2>2. StoreTypeOK' /\ SwitchTypeOK' /\ WriterTypeOK' /\ ActTypeOK'
    BY <1>7 DEF Query, Begin, store, counters, writer, request, StoreTypeOK, SwitchTypeOK,
       WriterTypeOK, ActTypeOK
  <2> QED
    BY <2>1, <2>2 DEF TypeOK
<1> QED
  BY <1>1, <1>2, <1>3, <1>4, <1>5, <1>6, <1>7 DEF StartOperation

\* An operation under way.
LEMMA RunType ==
    ASSUME StoreTypeOK, SwitchTypeOK, WriterTypeOK, ControlTypeOK, ActTypeOK, Course, RunOperation
    PROVE  TypeOK'
<1>1. CASE StartWriter
  <2>1. StoreTypeOK'
    <3>1. FirstSequence \in Nat /\ FirstSequence + 1 \in Nat
      BY LastType DEF FirstSequence
    <3>2. Event("enable", Nobody, 0, FirstSequence) \in Messages
      BY <3>1, MessageType DEF Kinds, AllOperations
    <3>3. Append(log, Event("enable", Nobody, 0, FirstSequence)) \in Seq(Messages)
      BY <3>2 DEF StoreTypeOK
    <3>4. log' \in Seq(Messages) /\ next' \in Nat
      BY <1>1, <3>1, <3>3 DEF StartWriter, StoreTypeOK
    <3> QED
      BY <1>1, <3>4 DEF StartWriter, StoreTypeOK
  <2>2. WriterTypeOK'
    BY <1>1 DEF StartWriter, Event, Goto, Return, FirstSequence, LastSeq, Resting, At,
       switches, writer, request, bounds, past, WriterTypeOK
  <2>3. ControlTypeOK'
    BY <1>1, AtType, RestingType, ControlFields DEF StartWriter, Goto, Return, Outcomes,
       ControlTypeOK, Places, request, bounds
  <2>4. SwitchTypeOK' /\ ActTypeOK'
    BY <1>1 DEF StartWriter, switches, writer, request, bounds, past, SwitchTypeOK,
       ActTypeOK
  <2> QED
    BY <2>1, <2>2, <2>3, <2>4 DEF TypeOK
<1>2. CASE Persist
  <2>1. StoreTypeOK'
    <3>1. durable' \in [enabled : BOOLEAN, paused : BOOLEAN]
      <4>1. (control.op \in {"enable", "pause", "resume"}) \in BOOLEAN
            /\ (control.op = "pause") \in BOOLEAN
        OBVIOUS
      <4> QED
        BY <1>2, <4>1, StateType, Zenon DEF Persist, Wanted
    <3> QED
      BY <1>2, <3>1 DEF Persist, StoreTypeOK, counters
  <2>2. SwitchTypeOK'
    BY <1>2 DEF Persist, Goto, Wanted, Persisted, State, At, counters, writer, request,
       bounds, past, SwitchTypeOK
  <2>3. ControlTypeOK'
    BY <1>2 DEF Persist, Goto, Wanted, Persisted, State, At, counters, writer, request,
       bounds, past, ControlTypeOK, Controls, Places, AllOperations
  <2>4. WriterTypeOK' /\ ActTypeOK'
    BY <1>2 DEF Persist, counters, writer, request, bounds, past, WriterTypeOK, ActTypeOK
  <2> QED
    BY <2>1, <2>2, <2>3, <2>4 DEF TypeOK
<1>3. CASE PersistFails
  <2>1. SwitchTypeOK'
    BY <1>3 DEF PersistFails, PersistFailed, At, Resting, store, counters, writer, request,
       bounds, past, SwitchTypeOK
  <2>2. ControlTypeOK'
    BY <1>3 DEF PersistFails, PersistFailed, At, Resting, store, counters, writer, request,
       bounds, past, ControlTypeOK, Controls, Places, AllOperations
  <2>3. StoreTypeOK' /\ WriterTypeOK' /\ ActTypeOK'
    BY <1>3 DEF PersistFails, store, counters, writer, request, bounds, past, StoreTypeOK,
       WriterTypeOK, ActTypeOK
  <2> QED
    BY <2>1, <2>2, <2>3 DEF TypeOK
<1>4. CASE TakeSlot
  <2>1. WriterTypeOK'
    BY <1>4 DEF TakeSlot, Goto, At, store, switches, counters, request, bounds, past,
       WriterTypeOK
  <2>2. ControlTypeOK'
    BY <1>4 DEF TakeSlot, Goto, At, store, switches, counters, request, bounds, past,
       ControlTypeOK, Controls, Places, AllOperations
  <2>3. StoreTypeOK' /\ SwitchTypeOK' /\ ActTypeOK'
    BY <1>4 DEF TakeSlot, store, switches, counters, request, bounds, past, StoreTypeOK,
       SwitchTypeOK, ActTypeOK
  <2> QED
    BY <2>1, <2>2, <2>3 DEF TypeOK
<1>5. CASE SendMarker
  <2>1. StoreTypeOK'
    BY <1>5 DEF SendMarker, Event, Goto, Room, Marker, At, store, switches, request,
       bounds, past, StoreTypeOK
  <2>2. WriterTypeOK'
    <3>1. Marker(control.op) \in Kinds
      BY <1>5 DEF SendMarker, Course, Marking, Stopping, Marker, Kinds, AllOperations
    <3>2. Event(Marker(control.op), Nobody, 0, next) \in Messages
      BY <3>1, MessageType DEF StoreTypeOK
    <3> QED
      BY <1>5, <3>2, SendType DEF SendMarker, WriterTypeOK
  <2>3. ControlTypeOK'
    BY <1>5 DEF SendMarker, Event, Goto, Room, Marker, At, store, switches, request,
       bounds, past, ControlTypeOK, Controls, Places, AllOperations
  <2>4. SwitchTypeOK' /\ ActTypeOK'
    BY <1>5 DEF SendMarker, store, switches, request, bounds, past, SwitchTypeOK, ActTypeOK
  <2> QED
    BY <2>1, <2>2, <2>3, <2>4 DEF TypeOK
<1>6. CASE CloneSender
  <2>1. WriterTypeOK'
    BY <1>6 DEF CloneSender, Goto, At, store, switches, counters, writer, request, bounds,
       past, WriterTypeOK
  <2>2. ControlTypeOK'
    BY <1>6 DEF CloneSender, Goto, At, store, switches, counters, writer, request, bounds,
       past, ControlTypeOK, Controls, Places, AllOperations
  <2>3. StoreTypeOK' /\ SwitchTypeOK' /\ ActTypeOK'
    BY <1>6 DEF CloneSender, store, switches, counters, writer, request, bounds, past,
       StoreTypeOK, SwitchTypeOK, ActTypeOK
  <2> QED
    BY <2>1, <2>2, <2>3 DEF TypeOK
<1>7. CASE Ask
  <2>1. WriterTypeOK'
    <3>1. awaiting' \in Nat
      BY <1>7 DEF Ask, ControlTypeOK
    <3>2. Request("Flush", awaiting') \in Messages
          /\ Request("ReadSnapshot", awaiting') \in Messages
      BY <3>1, RequestType
    <3> QED
      BY <1>7, <3>2, SendType DEF Ask, WriterTypeOK
  <2>2. ControlTypeOK'
    <3>1. control' \in Controls
      BY <1>7, AtType, ControlFields DEF Ask, Goto, ControlTypeOK, Places
    <3>2. awaiting' \in Nat /\ answer' = "none"
      BY <1>7 DEF Ask, ControlTypeOK
    <3> QED
      BY <1>7, <3>1, <3>2 DEF Ask, ControlTypeOK, bounds
  <2>3. StoreTypeOK' /\ SwitchTypeOK' /\ ActTypeOK'
    BY <1>7 DEF Ask, store, switches, counters, bounds, past, StoreTypeOK, SwitchTypeOK,
       ActTypeOK
  <2> QED
    BY <2>1, <2>2, <2>3 DEF TypeOK
<1>8. CASE Flushed
  <2>1. SwitchTypeOK'
    BY <1>8 DEF Flushed, At, Resting, Outcomes, store, counters, writer, request, bounds,
       past, SwitchTypeOK
  <2>2. ControlTypeOK'
    BY <1>8, AtType, RestingType, ControlFields DEF Flushed, Goto, Return, Outcomes,
       ControlTypeOK, Places, request, bounds
  <2>3. StoreTypeOK' /\ WriterTypeOK' /\ ActTypeOK'
    BY <1>8 DEF Flushed, store, counters, writer, request, bounds, past, StoreTypeOK,
       WriterTypeOK, ActTypeOK
  <2> QED
    BY <2>1, <2>2, <2>3 DEF TypeOK
<1>9. CASE Undo
  <2>1. StoreTypeOK'
    BY <1>9, StateType DEF Undo, Wanted, StoreTypeOK, counters
  <2>2. ControlTypeOK'
    BY <1>9 DEF Undo, Return, State, Resting, At, switches, counters, writer, request,
       bounds, past, ControlTypeOK, Controls, Places, AllOperations
  <2>3. SwitchTypeOK' /\ WriterTypeOK' /\ ActTypeOK'
    BY <1>9 DEF Undo, switches, counters, writer, request, bounds, past, SwitchTypeOK,
       WriterTypeOK, ActTypeOK
  <2> QED
    BY <2>1, <2>2, <2>3 DEF TypeOK
<1>10. CASE Open
  <2>1. SwitchTypeOK'
    BY <1>10 DEF Open, Goto, OpenGate, At, store, counters, writer, request, bounds, past,
       SwitchTypeOK
  <2>2. ControlTypeOK'
    BY <1>10 DEF Open, Goto, OpenGate, At, store, counters, writer, request, bounds, past,
       ControlTypeOK, Controls, Places, AllOperations
  <2>3. StoreTypeOK' /\ WriterTypeOK' /\ ActTypeOK'
    BY <1>10 DEF Open, store, counters, writer, request, bounds, past, StoreTypeOK,
       WriterTypeOK, ActTypeOK
  <2> QED
    BY <2>1, <2>2, <2>3 DEF TypeOK
<1>11. CASE Settle
  <2>1. SwitchTypeOK'
    BY <1>11 DEF Settle, Return, Resting, At, store, counters, writer, request, bounds,
       past, SwitchTypeOK
  <2>2. ControlTypeOK'
    BY <1>11 DEF Settle, Return, Resting, At, store, counters, writer, request, bounds,
       past, ControlTypeOK, Controls, Places, AllOperations
  <2>3. StoreTypeOK' /\ WriterTypeOK' /\ ActTypeOK'
    BY <1>11 DEF Settle, store, counters, writer, request, bounds, past, StoreTypeOK,
       WriterTypeOK, ActTypeOK
  <2> QED
    BY <2>1, <2>2, <2>3 DEF TypeOK
<1>12. CASE SendShutdown
  <2>1. WriterTypeOK'
    BY <1>12, SendType, RequestType DEF
       SendShutdown, WriterTypeOK, StoreTypeOK, ControlTypeOK
  <2>2. ControlTypeOK'
    BY <1>12 DEF SendShutdown, Request, Goto, Room, At, Event, store, switches, counters,
       request, bounds, past, ControlTypeOK, Controls, Places, AllOperations
  <2>3. StoreTypeOK' /\ SwitchTypeOK' /\ ActTypeOK'
    BY <1>12 DEF SendShutdown, store, switches, counters, request, bounds, past,
       StoreTypeOK, SwitchTypeOK, ActTypeOK
  <2> QED
    BY <2>1, <2>2, <2>3 DEF TypeOK
<1>13. CASE Join
  <2>1. SwitchTypeOK'
    BY <1>13 DEF Join, At, Resting, store, counters, writer, request, bounds, past,
       SwitchTypeOK
  <2>2. WriterTypeOK'
    BY <1>13 DEF Join, At, Resting, store, counters, writer, request, bounds, past,
       WriterTypeOK
  <2>3. ControlTypeOK'
    <3>1. control.op \in {"enable", "disable", "delete"}
      BY <1>13 DEF Join, Course, Marking, Stopping
    <3>2. control' \in Controls
      BY <1>13, <3>1, AtType, RestingType DEF Join, Places, AllOperations
    <3> QED
      BY <1>13, <3>2 DEF Join, ControlTypeOK, request, bounds
  <2>4. StoreTypeOK' /\ ActTypeOK'
    BY <1>13 DEF Join, store, counters, writer, request, bounds, past, StoreTypeOK,
       ActTypeOK
  <2> QED
    BY <2>1, <2>2, <2>3, <2>4 DEF TypeOK
<1>14. CASE Erase
  <2>1. StoreTypeOK'
    <3>1. log' \in Seq(Messages)
      BY <1>14, EmptyType DEF Erase, StoreTypeOK
    <3>2. next' \in Nat
      BY <1>14 DEF Erase, StoreTypeOK
    <3> QED
      BY <1>14, <3>1, <3>2 DEF Erase, StoreTypeOK
  <2>2. SwitchTypeOK'
    BY <1>14 DEF Erase, Return, Resting, At, writer, request, bounds, SwitchTypeOK
  <2>3. ControlTypeOK'
    BY <1>14 DEF Erase, Return, Resting, At, writer, request, bounds, ControlTypeOK,
       Controls, Places, AllOperations
  <2>4. WriterTypeOK' /\ ActTypeOK'
    BY <1>14 DEF Erase, writer, request, bounds, WriterTypeOK, ActTypeOK
  <2> QED
    BY <2>1, <2>2, <2>3, <2>4 DEF TypeOK
<1>15. CASE SnapshotRead
  <2>1. WriterTypeOK'
    BY <1>15 DEF SnapshotRead, Goto, Return, Resting, At, store, switches, counters,
       writer, request, bounds, past, WriterTypeOK
  <2>2. ControlTypeOK'
    BY <1>15, AtType, RestingType, ControlFields DEF SnapshotRead, Goto, Return, Outcomes,
       ControlTypeOK, Places, request, bounds
  <2>3. StoreTypeOK' /\ SwitchTypeOK' /\ ActTypeOK'
    BY <1>15 DEF SnapshotRead, store, switches, counters, writer, request, bounds, past,
       StoreTypeOK, SwitchTypeOK, ActTypeOK
  <2> QED
    BY <2>1, <2>2, <2>3 DEF TypeOK
<1>16. CASE QueryOffline
  <2>1. StoreTypeOK'
    <3>1. NextOffline \in Nat /\ NextOffline + 1 \in Nat
      BY LastType DEF NextOffline, StoreTypeOK
    <3>2. Event("access", Nobody, 0, NextOffline) \in Messages
      BY <3>1, MessageType DEF Kinds
    <3> QED
      BY <1>16, <3>1, <3>2 DEF QueryOffline, StoreTypeOK
  <2>2. WriterTypeOK'
    BY <1>16 DEF QueryOffline, Event, Return, NextOffline, LastSeq, Resting, At, switches,
       writer, request, bounds, past, WriterTypeOK
  <2>3. ControlTypeOK'
    BY <1>16 DEF QueryOffline, Event, Return, NextOffline, LastSeq, Resting, At, switches,
       writer, request, bounds, past, ControlTypeOK, Controls, Places, AllOperations
  <2>4. SwitchTypeOK' /\ ActTypeOK'
    BY <1>16 DEF QueryOffline, switches, writer, request, bounds, past, SwitchTypeOK,
       ActTypeOK
  <2> QED
    BY <2>1, <2>2, <2>3, <2>4 DEF TypeOK
<1> QED
  BY <1>1, <1>2, <1>3, <1>4, <1>5, <1>6, <1>7, <1>8, <1>9, <1>10, <1>11, <1>12, <1>13,
     <1>14, <1>15, <1>16 DEF RunOperation

\* The process restarts.
LEMMA RestartType ==
    ASSUME StoreTypeOK, SwitchTypeOK, WriterTypeOK, ControlTypeOK, ActTypeOK, Restart
    PROVE  TypeOK'
<1>1. CASE Restart
  <2>1. StoreTypeOK'
    BY <1>1, LastType DEF Restart, Call, FirstSequence, LastSeq, store, StoreTypeOK
  <2>2. SwitchTypeOK'
    BY <1>1 DEF Restart, StoreTypeOK, SwitchTypeOK
  <2>3. WriterTypeOK'
    <3>1. queue' \in Seq(Messages) /\ Len(queue') <= Capacity
      BY <1>1, EmptyType, BoundAssumption DEF Restart
    <3>2. handle' \in BOOLEAN /\ thread' \in {"none", "running", "failed"}
      BY <1>1 DEF Restart, StoreTypeOK
    <3> QED
      BY <1>1, <3>1, <3>2 DEF Restart, WriterTypeOK
  <2>4. ControlTypeOK'
    BY <1>1, RestingType, BoundAssumption DEF Restart, ControlTypeOK
  <2>5. ActTypeOK'
    BY <1>1 DEF Restart, Call, Resting, FirstSequence, LastSeq, At, store, ActTypeOK, Calls
  <2> QED
    BY <2>1, <2>2, <2>3, <2>4, <2>5 DEF TypeOK
<1> QED
  BY <1>1

-----------------------------------------------------------------------------
(* Where the operation is, and what it holds.                                *)

\* Where a step of an operation leads, field by field.
LEMMA GotoFields ==
    ASSUME NEW where, Goto(where)
    PROVE  control'.op = control.op /\ control'.at = where
BY DEF Goto, At

LEMMA ReturnFields ==
    ASSUME Return
    PROVE  control'.op = "none" /\ control'.at = "idle"
BY DEF Return, Resting, At

LEMMA AtFields ==
    ASSUME NEW op, NEW where, control' = At(op, where)
    PROVE  control'.op = op /\ control'.at = where
BY DEF At

LEMMA BeginFields ==
    ASSUME NEW op, NEW where, Begin(op, where)
    PROVE  /\ control.op = "none" /\ control.at = "idle"
           /\ control'.op = op /\ control'.at = where
BY DEF Begin, Resting, At

\* The slot: it changes hands between nobody and the operation under way, or
\* nothing that SlotInv tells changes.
LEMMA SlotMoved ==
    ASSUME SlotInv, UNCHANGED act, slot \in {Nobody, Control}, slot' \in {Nobody, Control},
           slot' = Control <=> control'.at \in Holding
    PROVE  SlotInv'
<1>1. Nobody \notin Actions /\ Control \notin Actions
  BY ActionAssumption
<1> QED
  BY <1>1 DEF SlotInv

LEMMA SlotKept ==
    ASSUME SlotInv, UNCHANGED <<act, slot>>, handle => handle',
           control.at \in Holding <=> control'.at \in Holding
    PROVE  SlotInv'
BY DEF SlotInv

\* The thread and its queue: untouched, a message sent, a message taken.
LEMMA ThreadKept ==
    ASSUME ThreadInv, UNCHANGED <<handle, thread, queue>>,
           control.at \notin {"stopping", "join"}, control'.at \notin {"stopping", "join"}
    PROVE  ThreadInv'
BY DEF ThreadInv, IsShutdown

LEMMA ThreadSent ==
    ASSUME ThreadInv, WriterTypeOK, handle, UNCHANGED <<handle, thread>>,
           control.at \notin {"stopping", "join"}, control'.at \notin {"stopping", "join"},
           NEW m \in Messages, ~IsShutdown(m), queue' = Append(queue, m)
    PROVE  ThreadInv'
<1>1. \A i \in 1..Len(queue) : ~IsShutdown(queue[i])
  BY DEF ThreadInv
<1>2. queue \in Seq(Messages)
  BY DEF WriterTypeOK
<1>3. Len(queue') = Len(queue) + 1 /\ queue'[Len(queue) + 1] = m
      /\ \A i \in 1..Len(queue) : queue'[i] = queue[i]
  BY <1>2
<1>4. \A i \in 1..Len(queue') : ~IsShutdown(queue'[i])
  <2>1. TAKE i \in 1..Len(queue')
  <2>2. i \in 1..Len(queue) \/ i = Len(queue) + 1
    BY <1>2, <1>3
  <2> QED
    BY <2>2, <1>1, <1>3
<1> QED
  BY <1>4 DEF ThreadInv

LEMMA NonEmpty == ASSUME NEW s, Len(s) # 0 PROVE s # <<>>
BY EmptyType

LEMMA ThreadReceived ==
    ASSUME ThreadInv, WriterTypeOK, queue # <<>>, ~IsShutdown(Head(queue)),
           thread # "none", thread' # "none", queue' = Tail(queue),
           UNCHANGED <<handle, control>>
    PROVE  ThreadInv'
<1>1. queue \in Seq(Messages) /\ Len(queue) > 0
  BY DEF WriterTypeOK
<1>2. Len(queue') = Len(queue) - 1 /\ \A i \in 1..Len(queue') : queue'[i] = queue[i + 1]
  BY <1>1
<1>3. ~IsShutdown(queue[1])
  BY <1>1
<1>4. ASSUME NEW i \in 1..Len(queue'), IsShutdown(queue'[i])
      PROVE  control'.at = "join" /\ i = Len(queue')
  <2>1. i + 1 \in 1..Len(queue) /\ IsShutdown(queue[i + 1])
    BY <1>1, <1>2, <1>4
  <2>2. control.at = "join" /\ i + 1 = Len(queue)
    BY <2>1 DEF ThreadInv
  <2> QED
    BY <2>2, <1>1, <1>2
<1>5. ASSUME control.at = "join"
      PROVE  queue' # <<>> /\ IsShutdown(queue'[Len(queue')])
  <2>1. IsShutdown(queue[Len(queue)])
    BY <1>5 DEF ThreadInv
  <2>2. Len(queue) # 1
    BY <2>1, <1>3
  <2>3. Len(queue') \in 1..Len(queue') /\ Len(queue') + 1 = Len(queue)
    BY <2>2, <1>1, <1>2
  <2>4. queue'[Len(queue')] = queue[Len(queue)]
    BY <2>3, <1>2
  <2>5. queue' # <<>>
    <3>1. Len(queue') # 0
      BY <2>2, <1>1, <1>2
    <3> QED
      BY <3>1, NonEmpty
  <2> QED
    BY <2>1, <2>4, <2>5
<1> QED
  BY <1>4, <1>5 DEF ThreadInv

LEMMA ThreadFresh ==
    ASSUME handle' <=> thread' # "none", queue' = <<>>,
           control'.at \notin {"stopping", "join"}
    PROVE  ThreadInv'
BY DEF ThreadInv

LEMMA CallShape ==
    ASSUME StoreTypeOK, WriterTypeOK, ActTypeOK, Shape,
           NEW a \in Actions, ToolCall(a) \/ OfferEvent(a)
    PROVE  Shape'
<1>1. UNCHANGED <<control, handle, enabled, thread>>
  BY DEF ToolCall, OfferEvent, BeginAction, PassGate, FinishAction, TryLock, ReportDrops,
     TrySend, switches, writer
<1>2. Course' /\ Agreement'
  BY <1>1 DEF Shape, Course, Agreement, Gone, On
<1>3. /\ a # Nobody /\ a # Control /\ Control \notin Actions /\ Nobody \notin Actions
      /\ Nobody # Control
  BY ActionAssumption DEF Nobody, Control
<1>4. CASE ToolCall(a)
  <2>1. SlotInv'
    BY <1>4, <1>1 DEF ToolCall, BeginAction, PassGate, FinishAction, Move, Call, ActTypeOK,
       SlotInv, Shape, writer
  <2>2. ThreadInv'
    BY <1>4, <1>1 DEF ToolCall, BeginAction, PassGate, FinishAction, ThreadInv, Shape,
       writer
  <2> QED
    BY <1>2, <2>1, <2>2 DEF Shape
<1>5. CASE TryLock(a)
  <2>1. SlotInv'
    <3>1. CASE slot = Nobody /\ handle
      <4>1. \A b \in Actions : act'[b].at = IF b = a THEN "report" ELSE act[b].at
        BY <1>5, <3>1 DEF TryLock, Move, Call, ActTypeOK
      <4>2. slot' = a
        BY <1>5, <3>1 DEF TryLock
      <4> QED
        BY <3>1, <4>1, <4>2, <1>1, <1>3 DEF SlotInv, Shape
    <3>2. CASE ~(slot = Nobody /\ handle)
      BY <1>5, <3>2, <1>1, <1>3 DEF TryLock, Move, Call, Offered, ActTypeOK, SlotInv, Shape
    <3> QED
      BY <3>1, <3>2
  <2>2. ThreadInv'
    BY <1>5, <1>1 DEF TryLock, ThreadInv, Shape, writer
  <2> QED
    BY <1>2, <2>1, <2>2 DEF Shape
<1>6. ASSUME slot = a
      PROVE  handle /\ control.at \notin {"stopping", "join"}
  BY <1>3, <1>6 DEF Shape, SlotInv, Holding
<1>7. CASE ReportDrops(a)
  <2>1. slot = a
    BY <1>7 DEF ReportDrops, Shape, SlotInv
  <2>2. SlotInv'
    BY <1>7, <1>1, <1>3, <2>1 DEF ReportDrops, Move, Call, ActTypeOK, SlotInv, Shape
  <2>3. ThreadInv'
    <3> DEFINE m == Event("drops", Nobody, unreported, next)
    <3>1. m \in Messages /\ ~IsShutdown(m)
      BY MessageType DEF Kinds, StoreTypeOK, IsShutdown, Event
    <3>2. CASE UNCHANGED queue
      BY <1>1, <3>2 DEF ThreadInv, Shape
    <3>3. CASE queue' = Append(queue, m)
      <4> HIDE DEF m
      <4> QED
        BY <1>1, <1>6, <2>1, <3>1, <3>3, ThreadSent DEF Shape
    <3> QED
      BY <1>7, <3>2, <3>3 DEF ReportDrops
  <2> QED
    BY <1>2, <2>2, <2>3 DEF Shape
<1>8. CASE TrySend(a)
  <2>1. slot = a
    BY <1>8 DEF TrySend, Shape, SlotInv
  <2>2. SlotInv'
    <3>1. \A b \in Actions : act'[b].at = IF b = a THEN Offered(a) ELSE act[b].at
      BY <1>8 DEF TrySend, Move, Call, ActTypeOK
    <3>2. slot' = Nobody /\ Offered(a) \in {"running", "over"}
      BY <1>8 DEF TrySend, Offered
    <3> QED
      BY <2>1, <3>1, <3>2, <1>1, <1>3 DEF SlotInv, Shape
  <2>3. ThreadInv'
    <3> DEFINE m == Event(act[a].event, a, 0, next)
    <3>1. m \in Messages
      BY CallKinds, MessageType DEF StoreTypeOK
    <3>2. ~IsShutdown(m)
      BY DEF IsShutdown, Event, ActTypeOK, Calls
    <3>3. CASE UNCHANGED queue
      BY <1>1, <3>3 DEF ThreadInv, Shape
    <3>4. CASE queue' = Append(queue, m)
      <4> HIDE DEF m
      <4> QED
        BY <1>1, <1>6, <2>1, <3>1, <3>2, <3>4, ThreadSent DEF Shape
    <3> QED
      BY <1>8, <3>3, <3>4 DEF TrySend
  <2> QED
    BY <1>2, <2>2, <2>3 DEF Shape
<1> QED
  BY <1>4, <1>5, <1>7, <1>8 DEF OfferEvent

LEMMA WriterShape ==
    ASSUME WriterTypeOK, Shape, WriterLoop \/ MaintenanceFails
    PROVE  Shape'
<1>1. UNCHANGED <<control, handle, enabled, slot, act>>
  BY DEF WriterLoop, AppendEvent, AppendFails, DiscardEvent, AnswerRequest, ExitThread,
     MaintenanceFails, switches
<1>2. Course' /\ Agreement' /\ SlotInv'
  BY <1>1 DEF Shape, Course, Agreement, Gone, On, SlotInv
<1>3. CASE AppendEvent \/ AppendFails \/ DiscardEvent \/ AnswerRequest
  <2>1. queue # <<>> /\ queue' = Tail(queue) /\ thread # "none" /\ thread' # "none"
    BY <1>3 DEF AppendEvent, AppendFails, Fail, DiscardEvent, Discards, AnswerRequest
  <2>2. ~IsShutdown(Head(queue))
    BY <1>3 DEF AppendEvent, AppendFails, DiscardEvent, AnswerRequest, IsEvent, IsShutdown
  <2> QED
    BY <1>1, <1>2, <2>1, <2>2, ThreadReceived DEF Shape
<1>4. CASE ExitThread
  <2>1. queue \in Seq(Messages) /\ queue # <<>> /\ IsShutdown(queue[1])
    BY <1>4 DEF ExitThread, WriterTypeOK, IsShutdown
  <2>2. control.at = "join" /\ Len(queue) = 1
    <3>1. 1 \in 1..Len(queue)
      BY <2>1
    <3> QED
      BY <2>1, <3>1 DEF Shape, ThreadInv
  <2>3. queue' = <<>> /\ thread' = "none"
    BY <1>4, <2>1, <2>2 DEF ExitThread
  <2>4. ~handle
    BY <2>2 DEF Shape, Agreement, Gone
  <2> QED
    BY <1>1, <1>2, <2>2, <2>3, <2>4, EmptyType DEF Shape, ThreadInv
<1>5. CASE MaintenanceFails
  BY <1>1, <1>2, <1>5 DEF MaintenanceFails, Fail, Shape, ThreadInv
<1> QED
  BY <1>3, <1>4, <1>5 DEF WriterLoop

LEMMA Started ==
    ASSUME Shape, NEW op, NEW where, Begin(op, where),
           where \in {"start writer", "persist first", "persist", "mark", "snapshot"}
    PROVE  /\ SlotInv' /\ ThreadInv'
           /\ control'.op = op /\ control'.at = where
           /\ (handle <=> enabled) /\ (handle' <=> handle)
<1>1. /\ control.op = "none" /\ control.at = "idle"
      /\ control'.op = op /\ control'.at = where
  BY BeginFields
<1>2. UNCHANGED <<slot, act, handle, thread, queue>>
  BY DEF Begin, writer
<1>3. control.at \notin Holding /\ control'.at \notin Holding
  BY <1>1 DEF Holding
<1> QED
  BY <1>1, <1>2, <1>3, SlotKept, ThreadKept DEF Shape, Agreement

LEMMA StartedShape ==
    ASSUME Shape, NEW op, NEW where, Begin(op, where),
           \/ op = "enable" /\ where = "start writer" /\ ~enabled /\ ~enabled'
           \/ op = "disable" /\ where = "persist first" /\ enabled /\ ~enabled'
           \/ op = "disable" /\ where = "persist" /\ ~enabled /\ ~enabled'
           \/ op = "delete" /\ where = "mark" /\ enabled /\ ~enabled'
           \/ op = "delete" /\ where = "persist" /\ ~enabled /\ ~enabled'
           \/ op \in {"pause", "resume"} /\ where = "persist" /\ enabled /\ enabled'
           \/ op = "flush" /\ where = "mark" /\ enabled /\ enabled'
           \/ op = "query" /\ where = "snapshot" /\ (enabled' <=> enabled)
    PROVE  Shape'
<1>1. where \in {"start writer", "persist first", "persist", "mark", "snapshot"}
  OBVIOUS
<1>2. /\ SlotInv' /\ ThreadInv'
      /\ control'.op = op /\ control'.at = where
      /\ (handle <=> enabled) /\ (handle' <=> handle)
  BY <1>1, Started
<1>3. Course'
  BY <1>2 DEF Course, Marking, Stopping
<1>4. Agreement'
  <2>1. CASE op = "query"
    BY <1>2, <2>1 DEF Agreement, Gone, On
  <2>2. CASE op \in {"enable", "pause", "resume", "flush"}
    BY <1>2, <2>2 DEF Agreement, Gone, On
  <2>3. CASE op \in {"disable", "delete"}
    BY <1>2, <2>3 DEF Agreement, Gone, On
  <2> QED
    BY <2>1, <2>2, <2>3
<1> QED
  BY <1>2, <1>3, <1>4 DEF Shape

LEMMA StartShape ==
    ASSUME Shape, StartOperation
    PROVE  Shape'
<1>1. CASE Enable
  BY <1>1, StartedShape DEF Enable
<1>2. CASE Disable
  <2>1. CASE enabled
    BY <1>2, <2>1, StartedShape DEF Disable
  <2>2. CASE ~enabled
    BY <1>2, <2>2, StartedShape DEF Disable
  <2> QED
    BY <2>1, <2>2
<1>3. CASE DeleteAll
  <2>1. CASE enabled
    BY <1>3, <2>1, StartedShape DEF DeleteAll
  <2>2. CASE ~enabled
    BY <1>3, <2>2, StartedShape DEF DeleteAll
  <2> QED
    BY <2>1, <2>2
<1>4. CASE Pause
  BY <1>4, StartedShape DEF Pause, Adjust
<1>5. CASE Resume
  BY <1>5, StartedShape DEF Resume, Adjust
<1>6. CASE Flush
  BY <1>6, StartedShape DEF Flush, Adjust
<1>7. CASE Query
  BY <1>7, StartedShape DEF Query
<1> QED
  BY <1>1, <1>2, <1>3, <1>4, <1>5, <1>6, <1>7 DEF StartOperation

\* The writer as a step of an operation finds it.
LEMMA Found ==
    ASSUME Shape
    PROVE  /\ Course /\ Agreement /\ SlotInv /\ ThreadInv
           /\ control.at \in Holding => slot = Control
           /\ ~handle /\ control.at \notin {"stopping", "join"} => thread = "none" /\ queue = <<>>
BY DEF Shape, SlotInv, ThreadInv

\* Where a write of the state file leads.
LEMMA PersistLeads ==
    ASSUME Course, control.at \in {"persist", "persist first"}
    PROVE  \/ control.op = "enable" /\ Persisted = "open"
           \/ control.op \in {"pause", "resume"} /\ Persisted = "mark"
           \/ control.op = "delete" /\ Persisted = "erase"
           \/ control.op = "disable" /\ control.at = "persist first" /\ Persisted = "mark"
           \/ control.op = "disable" /\ control.at = "persist" /\ Persisted = "settle"
<1>1. \/ control.op = "enable" /\ control.at = "persist"
      \/ control.op \in {"pause", "resume"} /\ control.at = "persist"
      \/ control.op = "delete" /\ control.at = "persist"
      \/ control.op = "disable" /\ control.at = "persist first"
      \/ control.op = "disable" /\ control.at = "persist"
  BY DEF Course, Marking, Stopping
<1> QED
  BY <1>1 DEF Persisted

LEMMA RunShape ==
    ASSUME WriterTypeOK, StoreTypeOK, SwitchTypeOK, ControlTypeOK, Shape, RunOperation
    PROVE  Shape'
<1>0. Nobody # Control
  BY DEF Nobody, Control
<1>1. CASE StartWriter
  <2>1. control.op = "enable" /\ control.at = "start writer" /\ ~handle /\ ~enabled
    BY <1>1, Found DEF StartWriter, Course, Agreement, Gone, On, Marking, Stopping
  <2>2. thread = "none" /\ queue = <<>>
    BY <2>1, Found
  <2>3. UNCHANGED <<slot, act, queue, enabled>>
    BY <1>1 DEF StartWriter, switches
  <2>4. \/ control'.op = "enable" /\ control'.at = "persist" /\ handle' /\ thread' = "running"
        \/ control'.op = "none" /\ control'.at = "idle" /\ UNCHANGED <<handle, thread>>
    BY <1>1, <2>1, GotoFields, ReturnFields DEF StartWriter
  <2>5. CASE control'.op = "enable" /\ control'.at = "persist" /\ handle' /\ thread' = "running"
    <3>1. Course' /\ Agreement'
      BY <2>1, <2>3, <2>5 DEF Course, Agreement, Gone, On, Marking, Stopping
    <3>2. SlotInv'
      BY <2>1, <2>3, <2>5, SlotKept, Found DEF Holding
    <3>3. ThreadInv'
      BY <2>2, <2>3, <2>5, ThreadFresh
    <3> QED
      BY <3>1, <3>2, <3>3 DEF Shape
  <2>6. CASE control'.op = "none" /\ control'.at = "idle" /\ UNCHANGED <<handle, thread>>
    <3>1. Course' /\ Agreement'
      BY <2>1, <2>3, <2>6 DEF Course, Agreement
    <3>2. SlotInv' /\ ThreadInv'
      BY <2>1, <2>3, <2>6, SlotKept, ThreadKept, Found DEF Holding
    <3> QED
      BY <3>1, <3>2 DEF Shape
  <2> QED
    BY <2>4, <2>5, <2>6
<1>2. CASE Persist
  <2>1. UNCHANGED <<slot, act, handle, thread, queue, enabled>>
    BY <1>2 DEF Persist, writer
  <2>2. control.at \in {"persist", "persist first"} /\ control'.op = control.op
        /\ control'.at = Persisted
    BY <1>2, GotoFields DEF Persist
  <2>3. \/ control.op = "enable" /\ Persisted = "open"
        \/ control.op \in {"pause", "resume"} /\ Persisted = "mark"
        \/ control.op = "delete" /\ Persisted = "erase"
        \/ control.op = "disable" /\ control.at = "persist first" /\ Persisted = "mark"
        \/ control.op = "disable" /\ control.at = "persist" /\ Persisted = "settle"
    BY <2>2, Found, PersistLeads
  <2>4. Course' /\ Agreement'
    BY <2>1, <2>2, <2>3, Found DEF Course, Agreement, Gone, On, Marking, Stopping
  <2>5. SlotInv' /\ ThreadInv'
    BY <2>1, <2>2, <2>3, SlotKept, ThreadKept, Found DEF Holding
  <2> QED
    BY <2>4, <2>5 DEF Shape
<1>3. CASE PersistFails
  <2>1. UNCHANGED <<slot, act, handle, thread, queue>>
        /\ (enabled' <=> enabled \/ control.at = "persist first")
    BY <1>3 DEF PersistFails, writer
  <2>2. \/ control.op = "enable" /\ control.at = "persist"
           /\ control'.op = "enable" /\ control'.at = "stop"
        \/ control.op # "enable" /\ control'.op = "none" /\ control'.at = "idle"
           /\ control.at \in {"persist", "persist first"}
    <3>1. control.at \in {"persist", "persist first"}
          /\ (control.op = "enable" => control.at = "persist")
      BY <1>3, Found DEF PersistFails, Course, Marking, Stopping
    <3> QED
      BY <1>3, <3>1, AtFields DEF PersistFails, PersistFailed, Resting
  <2>3. Course' /\ Agreement'
    BY <2>1, <2>2, Found DEF Course, Agreement, Gone, On, Marking, Stopping
  <2>4. SlotInv' /\ ThreadInv'
    BY <2>1, <2>2, SlotKept, ThreadKept, Found DEF Holding
  <2> QED
    BY <2>3, <2>4 DEF Shape
<1>4. CASE TakeSlot
  <2>1. /\ UNCHANGED <<act, thread, queue, enabled>> /\ slot = Nobody /\ slot' = Control
        /\ (handle' <=> handle /\ control.at # "stop")
    BY <1>4 DEF TakeSlot, switches
  <2>2. /\ control'.op = control.op
        /\ \/ control.at = "mark" /\ control'.at = "marking"
           \/ control.at = "clone" /\ control'.at = "cloned"
           \/ control.at = "stop" /\ control'.at = "stopping"
           \/ control.at = "snapshot" /\ control'.at = IF handle THEN "ask" ELSE "offline"
    BY <1>4, GotoFields DEF TakeSlot
  <2>3. Course' /\ Agreement'
    BY <2>1, <2>2, Found DEF Course, Agreement, Gone, On, Marking, Stopping
  <2>4. SlotInv'
    BY <2>1, <2>2, SlotMoved, Found DEF Holding
  <2>5. ThreadInv'
    BY <2>1, <2>2, Found DEF ThreadInv, IsShutdown, Agreement, Gone
  <2> QED
    BY <2>3, <2>4, <2>5 DEF Shape
<1>5. CASE SendMarker
  <2>1. /\ UNCHANGED <<act, handle, thread, enabled>> /\ slot' = Nobody /\ control.at = "marking"
        /\ queue' = Append(queue, Event(Marker(control.op), Nobody, 0, next))
    BY <1>5 DEF SendMarker, switches
  <2>2. control'.op = control.op /\ control'.at = "clone"
    BY <1>5, GotoFields DEF SendMarker
  <2>3. control.op \in AllOperations /\ handle
    BY <2>1, Found DEF Course, Agreement, Gone, Marking, Stopping, AllOperations
  <2>4. Course' /\ Agreement'
    BY <2>1, <2>2, <2>3, Found DEF Course, Agreement, Gone, On, Marking, Stopping,
       AllOperations
  <2>5. SlotInv'
    BY <1>0, <2>1, <2>2, SlotMoved, Found DEF Holding
  <2>6. ThreadInv'
    <3> DEFINE m == Event(Marker(control.op), Nobody, 0, next)
    <3>1. Marker(control.op) \in Kinds /\ Marker(control.op) # "Shutdown"
      BY <2>3 DEF Marker, Kinds, AllOperations
    <3>2. m \in Messages /\ ~IsShutdown(m)
      BY <3>1, MessageType DEF StoreTypeOK, IsShutdown, Event
    <3>3. control.at \notin {"stopping", "join"} /\ control'.at \notin {"stopping", "join"}
      BY <2>1, <2>2
    <3> HIDE DEF m
    <3> QED
      BY <2>1, <2>3, <3>2, <3>3, ThreadSent, Found DEF m
  <2> QED
    BY <2>4, <2>5, <2>6 DEF Shape
<1>6. CASE CloneSender
  <2>1. /\ UNCHANGED <<act, handle, thread, queue, enabled>> /\ slot' = Nobody
        /\ control.at = "cloned"
    BY <1>6 DEF CloneSender, switches, writer
  <2>2. control'.op = control.op /\ control'.at = "flush"
    BY <1>6, GotoFields DEF CloneSender
  <2>3. Course' /\ Agreement'
    BY <2>1, <2>2, Found DEF Course, Agreement, Gone, On, Marking, Stopping
  <2>4. SlotInv'
    BY <1>0, <2>1, <2>2, SlotMoved, Found DEF Holding
  <2>5. ThreadInv'
    BY <2>1, <2>2, ThreadKept, Found
  <2> QED
    BY <2>3, <2>4, <2>5 DEF Shape
<1>7. CASE Ask
  <2>1. UNCHANGED <<slot, act, handle, thread, enabled>>
    BY <1>7 DEF Ask, switches
  <2>2. /\ control'.op = control.op
        /\ \/ control.at = "flush" /\ control'.at = "flushing"
           \/ control.at = "ask" /\ control'.at = "reading"
    <3>1. CASE control.at = "flush"
      BY <1>7, <3>1, GotoFields DEF Ask
    <3>2. CASE control.at # "flush"
      BY <1>7, <3>2, GotoFields DEF Ask
    <3> QED
      BY <3>1, <3>2
  <2>3. handle
    BY <2>2, Found DEF Course, Agreement, Gone, Marking, Stopping
  <2>4. Course' /\ Agreement'
    BY <2>1, <2>2, Found DEF Course, Agreement, Gone, On, Marking, Stopping
  <2>5. SlotInv'
    BY <2>1, <2>2, SlotKept, Found DEF Holding
  <2>6. ThreadInv'
    <3>1. PICK what \in {"Flush", "ReadSnapshot"} : queue' = Append(queue, Request(what, awaiting'))
      BY <1>7 DEF Ask
    <3> DEFINE m == Request(what, awaiting')
    <3>2. awaiting' \in Nat
      BY <1>7 DEF Ask, ControlTypeOK
    <3>3. m \in Messages /\ ~IsShutdown(m)
      BY <3>2, RequestType DEF IsShutdown, Request, Event
    <3>4. control.at \notin {"stopping", "join"} /\ control'.at \notin {"stopping", "join"}
      BY <2>2
    <3>5. queue' = Append(queue, m)
      BY <3>1
    <3> HIDE DEF m
    <3> QED
      BY <2>1, <2>3, <3>3, <3>4, <3>5, ThreadSent, Found
  <2> QED
    BY <2>4, <2>5, <2>6 DEF Shape
<1>8. CASE Flushed
  <2>1. UNCHANGED <<slot, act, handle, thread, queue, enabled>> /\ control.at = "flushing"
    BY <1>8 DEF Flushed, writer
  <2>2. control.op \in {"disable", "delete", "flush", "query", "pause", "resume"}
    BY <2>1, Found DEF Course, Marking, Stopping
  <2>3. \/ /\ control.op \in {"disable", "delete"}
           /\ control'.op = control.op /\ control'.at = "stop"
        \/ /\ control.op \in {"flush", "query"}
           /\ control'.op = "none" /\ control'.at = "idle"
        \/ /\ control.op = "pause" /\ control'.op = "pause"
           /\ control'.at \in {"undo", "settle"}
        \/ /\ control.op = "resume" /\ control'.op = "resume"
           /\ control'.at \in {"undo", "open"}
    BY <1>8, <2>2, AtFields DEF Flushed, Resting
  <2>4. Course' /\ Agreement'
    BY <2>1, <2>3, Found DEF Course, Agreement, Gone, On, Marking, Stopping
  <2>5. SlotInv' /\ ThreadInv'
    BY <2>1, <2>3, SlotKept, ThreadKept, Found DEF Holding
  <2> QED
    BY <2>4, <2>5 DEF Shape
<1>9. CASE Undo
  <2>1. UNCHANGED <<slot, act, handle, thread, queue, enabled>> /\ control.at = "undo"
    BY <1>9 DEF Undo, writer, switches
  <2>2. control'.op = "none" /\ control'.at = "idle"
    BY <1>9, ReturnFields DEF Undo
  <2>3. Course' /\ Agreement'
    BY <2>1, <2>2, Found DEF Course, Agreement, Gone, On, Marking, Stopping
  <2>4. SlotInv' /\ ThreadInv'
    BY <2>1, <2>2, SlotKept, ThreadKept, Found DEF Holding
  <2> QED
    BY <2>3, <2>4 DEF Shape
<1>10. CASE Open
  <2>1. /\ UNCHANGED <<slot, act, handle, thread, queue>> /\ control.at = "open"
        /\ (enabled' <=> enabled \/ control.op = "enable")
    BY <1>10 DEF Open, OpenGate, writer
  <2>2. control'.op = control.op /\ control'.at = "settle"
    BY <1>10, GotoFields DEF Open
  <2>3. Course' /\ Agreement'
    BY <2>1, <2>2, Found DEF Course, Agreement, Gone, On, Marking, Stopping
  <2>4. SlotInv' /\ ThreadInv'
    BY <2>1, <2>2, SlotKept, ThreadKept, Found DEF Holding
  <2> QED
    BY <2>3, <2>4 DEF Shape
<1>11. CASE Settle
  <2>1. UNCHANGED <<slot, act, handle, thread, queue, enabled>> /\ control.at = "settle"
    BY <1>11 DEF Settle, writer
  <2>2. control'.op = "none" /\ control'.at = "idle"
    BY <1>11, ReturnFields DEF Settle
  <2>3. Course' /\ Agreement'
    BY <2>1, <2>2, Found DEF Course, Agreement, Gone, On, Marking, Stopping
  <2>4. SlotInv' /\ ThreadInv'
    BY <2>1, <2>2, SlotKept, ThreadKept, Found DEF Holding
  <2> QED
    BY <2>3, <2>4 DEF Shape
<1>12. CASE SendShutdown
  <2>1. /\ UNCHANGED <<slot, act, handle, thread, enabled>> /\ control.at = "stopping"
        /\ queue' = Append(queue, Request("Shutdown", 0))
    BY <1>12 DEF SendShutdown, switches
  <2>2. control'.op = control.op /\ control'.at = "join"
    BY <1>12, GotoFields DEF SendShutdown
  <2>3. Course' /\ Agreement'
    BY <2>1, <2>2, Found DEF Course, Agreement, Gone, On, Marking, Stopping
  <2>4. SlotInv'
    BY <2>1, <2>2, SlotKept, Found DEF Holding
  <2>5. ThreadInv'
    <3> DEFINE m == Request("Shutdown", 0)
    <3>1. m \in Messages /\ IsShutdown(m) /\ queue \in Seq(Messages)
      BY RequestType DEF IsShutdown, Request, Event, WriterTypeOK
    <3>2. thread # "none" /\ ~handle /\ \A i \in 1..Len(queue) : ~IsShutdown(queue[i])
      BY <2>1, Found DEF ThreadInv, Agreement, Gone
    <3> HIDE DEF m
    <3>3. /\ Len(queue') = Len(queue) + 1 /\ queue'[Len(queue) + 1] = m
          /\ \A i \in 1..Len(queue) : queue'[i] = queue[i]
          /\ Len(queue) \in Nat
      BY <2>1, <3>1 DEF m
    <3>4. queue' # <<>>
      <4>1. Len(queue') # 0
        BY <3>3
      <4> QED
        BY <4>1, NonEmpty
    <3>5. ASSUME NEW i \in 1..Len(queue'), IsShutdown(queue'[i])
          PROVE  i = Len(queue')
      <4>1. i \in 1..Len(queue) \/ i = Len(queue')
        BY <3>3
      <4> QED
        BY <4>1, <3>2, <3>3, <3>5
    <3>6. IsShutdown(queue'[Len(queue')])
      BY <3>1, <3>3
    <3> QED
      BY <2>1, <2>2, <3>2, <3>4, <3>5, <3>6 DEF ThreadInv
  <2> QED
    BY <2>3, <2>4, <2>5 DEF Shape
<1>13. CASE Join
  <2>1. /\ UNCHANGED <<act, handle, thread, queue, enabled>> /\ slot' = Nobody
        /\ control.at = "join" /\ thread = "none"
    BY <1>13 DEF Join, writer
  <2>2. ~handle /\ queue = <<>> /\ control.op \in {"enable", "disable", "delete"}
    BY <2>1, Found DEF ThreadInv, Course, Agreement, Gone, Marking, Stopping
  <2>3. \/ control.op = "enable" /\ control'.op = "none" /\ control'.at = "idle"
        \/ control.op = "disable" /\ control'.op = "disable" /\ control'.at = "settle"
        \/ control.op = "delete" /\ control'.op = "delete" /\ control'.at = "persist"
    BY <1>13, <2>2, AtFields DEF Join, Resting
  <2>4. Course' /\ Agreement'
    BY <2>1, <2>3, Found DEF Course, Agreement, Gone, On, Marking, Stopping
  <2>5. SlotInv'
    BY <1>0, <2>1, <2>3, SlotMoved, Found DEF Holding
  <2>6. ThreadInv'
    BY <2>1, <2>2, <2>3, ThreadFresh
  <2> QED
    BY <2>4, <2>5, <2>6 DEF Shape
<1>14. CASE Erase
  <2>1. UNCHANGED <<slot, act, handle, thread, queue, enabled>> /\ control.at = "erase"
    BY <1>14 DEF Erase, writer
  <2>2. control'.op = "none" /\ control'.at = "idle"
    BY <1>14, ReturnFields DEF Erase
  <2>3. Course' /\ Agreement'
    BY <2>1, <2>2, Found DEF Course, Agreement, Gone, On, Marking, Stopping
  <2>4. SlotInv' /\ ThreadInv'
    BY <2>1, <2>2, SlotKept, ThreadKept, Found DEF Holding
  <2> QED
    BY <2>3, <2>4 DEF Shape
<1>15. CASE SnapshotRead
  <2>1. /\ UNCHANGED <<act, handle, thread, queue, enabled>> /\ slot' = Nobody
        /\ control.at = "reading"
    BY <1>15 DEF SnapshotRead, writer, switches
  <2>2. \/ control'.op = control.op /\ control'.at = "mark"
        \/ control'.op = "none" /\ control'.at = "idle"
    BY <1>15, GotoFields, ReturnFields DEF SnapshotRead
  <2>3. Course' /\ Agreement'
    BY <2>1, <2>2, Found DEF Course, Agreement, Gone, On, Marking, Stopping
  <2>4. SlotInv'
    BY <1>0, <2>1, <2>2, SlotMoved, Found DEF Holding
  <2>5. ThreadInv'
    BY <2>1, <2>2, ThreadKept, Found
  <2> QED
    BY <2>3, <2>4, <2>5 DEF Shape
<1>16. CASE QueryOffline
  <2>1. /\ UNCHANGED <<act, handle, thread, queue, enabled>> /\ slot' = Nobody
        /\ control.at = "offline"
    BY <1>16 DEF QueryOffline, writer, switches
  <2>2. control'.op = "none" /\ control'.at = "idle"
    BY <1>16, ReturnFields DEF QueryOffline
  <2>3. Course' /\ Agreement'
    BY <2>1, <2>2, Found DEF Course, Agreement, Gone, On, Marking, Stopping
  <2>4. SlotInv'
    BY <1>0, <2>1, <2>2, SlotMoved, Found DEF Holding
  <2>5. ThreadInv'
    BY <2>1, <2>2, ThreadKept, Found
  <2> QED
    BY <2>3, <2>4, <2>5 DEF Shape
<1> QED
  BY <1>1, <1>2, <1>3, <1>4, <1>5, <1>6, <1>7, <1>8, <1>9, <1>10, <1>11, <1>12, <1>13,
     <1>14, <1>15, <1>16 DEF RunOperation

LEMMA RestartShape ==
    ASSUME ActTypeOK, Shape, Restart
    PROVE  Shape'
<1>1. control'.op = "none" /\ control'.at = "idle" /\ slot' = Nobody /\ queue' = <<>>
  BY DEF Restart, Resting, At
<1>2. (handle' <=> enabled') /\ (handle' <=> thread' # "none")
  BY DEF Restart
<1>3. \A a \in Actions : act'[a].at \notin {"report", "send"}
  BY DEF Restart, Call
<1>4. \A a \in Actions : a # Nobody
  BY ActionAssumption
<1>5. Nobody # Control
  BY DEF Nobody, Control
<1>6. Course' /\ Agreement' /\ ThreadInv'
  BY <1>1, <1>2, ThreadFresh DEF Course, Agreement
<1>7. SlotInv'
  BY <1>1, <1>3, <1>4, <1>5, ActionAssumption DEF SlotInv, Holding
<1> QED
  BY <1>6, <1>7 DEF Shape

-----------------------------------------------------------------------------
(* Numbers.                                                                  *)

\* The numbers of stored and queued events.
LEMMA Numbers ==
    ASSUME StoreTypeOK, WriterTypeOK
    PROVE  /\ Len(log) \in Nat /\ Len(queue) \in Nat /\ next \in Nat
           /\ \A i \in 1..Len(log) : log[i] \in Messages /\ log[i].seq \in Nat
           /\ \A i \in 1..Len(queue) : queue[i] \in Messages /\ queue[i].seq \in Nat
<1>1. log \in Seq(Messages) /\ queue \in Seq(Messages) /\ next \in Nat
  BY DEF StoreTypeOK, WriterTypeOK
<1>2. \A m \in Messages : m.seq \in Nat
  BY DEF Messages
<1>3. /\ Len(log) \in Nat /\ \A i \in 1..Len(log) : log[i] \in Messages
      /\ Len(queue) \in Nat /\ \A i \in 1..Len(queue) : queue[i] \in Messages
  BY <1>1
<1> QED
  BY <1>1, <1>2, <1>3

LEMMA LengthOfLog == StoreTypeOK => Len(log) \in Nat
BY DEF StoreTypeOK

LEMMA LengthOfQueue == WriterTypeOK => Len(queue) \in Nat
BY DEF WriterTypeOK

LEMMA LastIsHighest ==
    ASSUME StoreTypeOK, WriterTypeOK, SeqInv
    PROVE  LastSeq \in Nat /\ \A i \in 1..Len(log) : log[i].seq < LastSeq + 1
<1>1. LastSeq \in Nat
  BY LastType
<1>2. ASSUME NEW i \in 1..Len(log)
      PROVE  log[i].seq < LastSeq + 1
  <2>1. log # <<>> /\ LastSeq = log[Len(log)].seq /\ Len(log) \in 1..Len(log)
    <3>1. Len(log) # 0
      BY Numbers
    <3>2. log # <<>>
      BY <3>1, NonEmpty
    <3> QED
      BY <3>2, Numbers DEF LastSeq
  <2>2. CASE i = Len(log)
    BY <2>1, <2>2, Numbers
  <2>3. CASE i < Len(log)
    BY <2>1, <2>3, Numbers DEF SeqInv
  <2> QED
    BY <2>2, <2>3, Numbers
<1> QED
  BY <1>1, <1>2

\* Numbers are only passed over.
LEMMA SeqKept ==
    ASSUME StoreTypeOK, WriterTypeOK, SeqInv, UNCHANGED <<log, queue>>,
           next' = next \/ next' = next + 1, thread' # "none" => thread # "none"
    PROVE  SeqInv'
<1>1. next \in Nat /\ next' \in Nat /\ next <= next'
  BY Numbers
<1>2. \A i \in 1..Len(log) : log[i].seq < next => log[i].seq < next'
  BY <1>1, Numbers
<1>3. \A i \in 1..Len(queue) : queue[i].seq < next => queue[i].seq < next'
  BY <1>1, Numbers
<1> QED
  BY <1>2, <1>3 DEF SeqInv, IsEvent

\* A message joins the queue, with the next number if it is an event.
LEMMA SeqSent ==
    ASSUME StoreTypeOK, WriterTypeOK, SeqInv, UNCHANGED <<log, thread>>, thread # "none",
           NEW m \in Messages, queue' = Append(queue, m),
           (m.seq = next /\ next' = next + 1) \/ (~IsEvent(m) /\ next' = next)
    PROVE  SeqInv'
<1>1. next \in Nat /\ next' \in Nat /\ next <= next'
  BY Numbers
<1>2. /\ Len(queue') = Len(queue) + 1 /\ queue'[Len(queue) + 1] = m
      /\ \A i \in 1..Len(queue) : queue'[i] = queue[i]
  BY DEF WriterTypeOK
<1>3. \A i \in 1..Len(log) : log[i].seq < next /\ log[i].seq < next'
  BY <1>1, Numbers DEF SeqInv
<1>4. \A i \in 1..Len(queue) : IsEvent(queue[i]) => queue[i].seq < next /\ queue[i].seq < next'
  BY <1>1, Numbers DEF SeqInv
<1>5. ASSUME NEW j \in 1..Len(queue'), IsEvent(queue'[j])
      PROVE  /\ queue'[j].seq < next'
             /\ \A i \in 1..Len(log) : log[i].seq < queue'[j].seq
             /\ \A i \in 1..Len(queue') :
                    i < j /\ IsEvent(queue'[i]) => queue'[i].seq < queue'[j].seq
  <2>1. CASE j \in 1..Len(queue)
    <3>1. queue'[j] = queue[j]
      BY <1>2, <2>1
    <3>2. \A i \in 1..Len(queue') : i < j => i \in 1..Len(queue) /\ queue'[i] = queue[i]
      BY <1>2, <2>1, Numbers
    <3> QED
      BY <1>4, <1>5, <2>1, <3>1, <3>2 DEF SeqInv
  <2>2. CASE j = Len(queue) + 1
    <3>1. queue'[j] = m /\ m.seq = next /\ next' = next + 1
      BY <1>2, <1>5, <2>2
    <3>2. \A i \in 1..Len(queue') : i < j => i \in 1..Len(queue) /\ queue'[i] = queue[i]
      BY <1>2, <2>2, Numbers
    <3> QED
      BY <1>1, <1>3, <1>4, <3>1, <3>2
  <2>3. j \in 1..Len(queue) \/ j = Len(queue) + 1
    BY <1>2, LengthOfQueue
  <2> QED
    BY <2>1, <2>2, <2>3
<1> QED
  BY <1>3, <1>5 DEF SeqInv, IsEvent

\* The writer takes a message and leaves it.
LEMMA SeqReceived ==
    ASSUME StoreTypeOK, WriterTypeOK, SeqInv, UNCHANGED <<log, next>>, queue # <<>>,
           thread' # "none" => thread # "none", queue' = Tail(queue)
    PROVE  SeqInv'
<1>1. /\ Len(queue') = Len(queue) - 1
      /\ \A i \in 1..Len(queue') : i + 1 \in 1..Len(queue) /\ queue'[i] = queue[i + 1]
  BY DEF WriterTypeOK
<1>2. ASSUME NEW j \in 1..Len(queue'), IsEvent(queue'[j])
      PROVE  /\ queue'[j].seq < next
             /\ \A i \in 1..Len(log) : log[i].seq < queue'[j].seq
             /\ \A i \in 1..Len(queue') :
                    i < j /\ IsEvent(queue'[i]) => queue'[i].seq < queue'[j].seq
  <2>1. j + 1 \in 1..Len(queue) /\ queue'[j] = queue[j + 1]
    BY <1>1
  <2>2. ASSUME NEW i \in 1..Len(queue'), i < j, IsEvent(queue'[i])
        PROVE  queue'[i].seq < queue'[j].seq
    <3>1. i + 1 \in 1..Len(queue) /\ queue'[i] = queue[i + 1] /\ i + 1 < j + 1
      BY <1>1, <2>2
    <3> QED
      BY <1>2, <2>1, <2>2, <3>1 DEF SeqInv
  <2> QED
    BY <1>2, <2>1, <2>2 DEF SeqInv
<1> QED
  BY <1>2 DEF SeqInv, IsEvent

\* The writer takes an event and appends it to the log.
LEMMA SeqAppended ==
    ASSUME StoreTypeOK, WriterTypeOK, SeqInv, UNCHANGED <<next, thread>>, thread # "none",
           queue # <<>>, IsEvent(Head(queue)), queue' = Tail(queue),
           log' = Append(log, Head(queue))
    PROVE  SeqInv'
<1>1. /\ Len(queue') = Len(queue) - 1 /\ Len(queue) > 0 /\ Len(queue) \in Nat
      /\ \A i \in 1..Len(queue') : i + 1 \in 1..Len(queue) /\ queue'[i] = queue[i + 1]
      /\ Head(queue) = queue[1] /\ 1 \in 1..Len(queue)
  BY DEF WriterTypeOK
<1>2. /\ Len(log') = Len(log) + 1 /\ log'[Len(log) + 1] = queue[1]
      /\ \A i \in 1..Len(log) : log'[i] = log[i]
  BY <1>1 DEF StoreTypeOK
<1>3. queue[1].seq < next /\ \A i \in 1..Len(log) : log[i].seq < queue[1].seq
  BY <1>1 DEF SeqInv
<1>4. ASSUME NEW i \in 1..Len(log'), NEW j \in 1..Len(log'), i < j
      PROVE  log'[i].seq < log'[j].seq
  <2>1. i \in 1..Len(log) /\ (j \in 1..Len(log) \/ j = Len(log) + 1)
    BY <1>2, <1>4, LengthOfLog
  <2> QED
    BY <1>2, <1>3, <1>4, <2>1 DEF SeqInv
<1>5. ASSUME NEW i \in 1..Len(log')
      PROVE  log'[i].seq < next
  <2>1. i \in 1..Len(log) \/ i = Len(log) + 1
    BY <1>2, Numbers
  <2> QED
    BY <1>2, <1>3, <2>1 DEF SeqInv
<1>6. ASSUME NEW j \in 1..Len(queue'), IsEvent(queue'[j])
      PROVE  /\ queue'[j].seq < next
             /\ \A i \in 1..Len(log') : log'[i].seq < queue'[j].seq
             /\ \A i \in 1..Len(queue') :
                    i < j /\ IsEvent(queue'[i]) => queue'[i].seq < queue'[j].seq
  <2>1. j + 1 \in 1..Len(queue) /\ queue'[j] = queue[j + 1] /\ 1 < j + 1
    BY <1>1
  <2>2. ASSUME NEW i \in 1..Len(log')
        PROVE  log'[i].seq < queue'[j].seq
    <3>1. i \in 1..Len(log) \/ i = Len(log) + 1
      BY <1>2, Numbers
    <3>2. queue[1].seq < queue[j + 1].seq
      BY <1>1, <1>6, <2>1 DEF SeqInv
    <3> QED
      BY <1>2, <1>6, <2>1, <3>1, <3>2 DEF SeqInv
  <2>3. ASSUME NEW i \in 1..Len(queue'), i < j, IsEvent(queue'[i])
        PROVE  queue'[i].seq < queue'[j].seq
    <3>1. i + 1 \in 1..Len(queue) /\ queue'[i] = queue[i + 1] /\ i + 1 < j + 1
      BY <1>1, <2>3
    <3> QED
      BY <1>6, <2>1, <2>3, <3>1 DEF SeqInv
  <2> QED
    BY <1>6, <2>1, <2>2, <2>3 DEF SeqInv
<1> QED
  BY <1>4, <1>5, <1>6 DEF SeqInv, IsEvent

\* With nothing queued, an event is appended above the last one, or none is.
LEMMA SeqExtended ==
    ASSUME StoreTypeOK, WriterTypeOK, SeqInv, queue' = <<>>,
           NEW m \in Messages, m.seq > LastSeq,
           \/ log' = log /\ (thread' # "none" => next' > LastSeq)
           \/ log' = Append(log, m) /\ (thread' # "none" => next' > m.seq),
           next' \in Nat
    PROVE  SeqInv'
<1>1. Len(queue') = 0
  BY EmptyType
<1>2. LastSeq \in Nat /\ m.seq \in Nat
      /\ \A i \in 1..Len(log) : log[i].seq < LastSeq + 1 /\ log[i].seq \in Nat
  BY LastIsHighest, Numbers DEF Messages
<1>3. CASE log' = log /\ (thread' # "none" => next' > LastSeq)
  BY <1>1, <1>2, <1>3 DEF SeqInv
<1>4. CASE log' = Append(log, m) /\ (thread' # "none" => next' > m.seq)
  <2>1. /\ Len(log') = Len(log) + 1 /\ log'[Len(log) + 1] = m
        /\ \A i \in 1..Len(log) : log'[i] = log[i]
    BY <1>4 DEF StoreTypeOK
  <2>2. ASSUME NEW i \in 1..Len(log'), NEW j \in 1..Len(log'), i < j
        PROVE  log'[i].seq < log'[j].seq
    <3>1. i \in 1..Len(log) /\ (j \in 1..Len(log) \/ j = Len(log) + 1)
      BY <2>1, <2>2, LengthOfLog
    <3> QED
      BY <1>2, <2>1, <2>2, <3>1 DEF SeqInv
  <2>3. ASSUME thread' # "none", NEW i \in 1..Len(log')
        PROVE  log'[i].seq < next'
    <3>1. i \in 1..Len(log) \/ i = Len(log) + 1
      BY <2>1, Numbers
    <3> QED
      BY <1>2, <1>4, <2>1, <2>3, <3>1
  <2> QED
    BY <1>1, <2>2, <2>3 DEF SeqInv
<1> QED
  BY <1>3, <1>4

LEMMA CallSeq ==
    ASSUME StoreTypeOK, WriterTypeOK, ActTypeOK, Shape, SeqInv,
           NEW a \in Actions, ToolCall(a) \/ OfferEvent(a)
    PROVE  SeqInv'
<1>1. UNCHANGED <<log, thread>>
  BY DEF ToolCall, OfferEvent, BeginAction, PassGate, FinishAction, TryLock, ReportDrops,
     TrySend, store, writer
<1>2. CASE ToolCall(a) \/ TryLock(a)
  <2>1. UNCHANGED <<next, queue>>
    BY <1>2 DEF ToolCall, BeginAction, PassGate, FinishAction, TryLock, writer, counters
  <2> QED
    BY <1>1, <2>1, SeqKept
<1>3. ASSUME act[a].at \in {"report", "send"}
      PROVE  thread # "none"
  BY <1>3 DEF Shape, SlotInv, ThreadInv
<1>4. CASE ReportDrops(a)
  <2> DEFINE m == Event("drops", Nobody, unreported, next)
  <2>1. m \in Messages /\ m.seq = next
    BY MessageType DEF Kinds, StoreTypeOK, Event
  <2>2. CASE UNCHANGED queue
    BY <1>1, <1>4, <2>2, SeqKept DEF ReportDrops
  <2>3. CASE queue' = Append(queue, m) /\ next' = next + 1
    <3> HIDE DEF m
    <3> QED
      BY <1>1, <1>3, <1>4, <2>1, <2>3, SeqSent DEF ReportDrops
  <2> QED
    BY <1>4, <2>2, <2>3 DEF ReportDrops
<1>5. CASE TrySend(a)
  <2> DEFINE m == Event(act[a].event, a, 0, next)
  <2>1. m \in Messages /\ m.seq = next
    BY CallKinds, MessageType DEF StoreTypeOK, Event
  <2>2. CASE UNCHANGED queue
    BY <1>1, <1>5, <2>2, SeqKept DEF TrySend
  <2>3. CASE queue' = Append(queue, m) /\ next' = next + 1
    <3> HIDE DEF m
    <3> QED
      BY <1>1, <1>3, <1>5, <2>1, <2>3, SeqSent DEF TrySend
  <2> QED
    BY <1>5, <2>2, <2>3 DEF TrySend
<1> QED
  BY <1>2, <1>4, <1>5 DEF OfferEvent

LEMMA WriterSeq ==
    ASSUME StoreTypeOK, WriterTypeOK, SeqInv, WriterLoop \/ MaintenanceFails
    PROVE  SeqInv'
<1>1. CASE AppendEvent
  BY <1>1, SeqAppended DEF AppendEvent, counters
<1>2. CASE AppendFails
  BY <1>2, SeqReceived DEF AppendFails, Fail, store
<1>3. CASE DiscardEvent
  BY <1>3, SeqReceived DEF DiscardEvent, store
<1>4. CASE AnswerRequest
  BY <1>4, SeqReceived DEF AnswerRequest, store, counters
<1>5. CASE ExitThread
  BY <1>5, SeqReceived DEF ExitThread, store, counters
<1>6. CASE MaintenanceFails
  BY <1>6, SeqKept DEF MaintenanceFails, Fail, store, counters
<1> QED
  BY <1>1, <1>2, <1>3, <1>4, <1>5, <1>6 DEF WriterLoop

LEMMA StartSeq ==
    ASSUME StoreTypeOK, WriterTypeOK, SeqInv, StartOperation
    PROVE  SeqInv'
<1>1. UNCHANGED <<log, next, queue, thread>>
  BY DEF StartOperation, Enable, Disable, DeleteAll, Pause, Resume, Flush, Query, Adjust,
     Begin, store, counters, writer
<1> QED
  BY <1>1, SeqKept

LEMMA RunSeq ==
    ASSUME StoreTypeOK, WriterTypeOK, ControlTypeOK, Shape, SeqInv, RunOperation
    PROVE  SeqInv'
<1>1. CASE StartWriter
  <2>1. thread = "none" /\ queue = <<>> /\ queue' = <<>>
    BY <1>1 DEF StartWriter, Shape, ThreadInv, Agreement, Gone
  <2> DEFINE m == Event("enable", Nobody, 0, FirstSequence)
  <2>2. m \in Messages /\ m.seq = LastSeq + 1 /\ m.seq > LastSeq /\ LastSeq \in Nat
    BY LastType, MessageType DEF FirstSequence, Event, Kinds, AllOperations
  <2>3. CASE log' = Append(log, m) /\ next' = FirstSequence + 1
    <3>1. next' \in Nat /\ next' > m.seq
      BY <2>2, <2>3 DEF FirstSequence
    <3> HIDE DEF m
    <3> QED
      BY <2>1, <2>2, <2>3, <3>1, SeqExtended
  <2>4. CASE UNCHANGED <<log, next, thread>>
    BY <2>1, <2>4, SeqKept
  <2> QED
    BY <1>1, <2>3, <2>4 DEF StartWriter
<1>2. CASE SendMarker
  <2> DEFINE m == Event(Marker(control.op), Nobody, 0, next)
  <2>1. control.op \in AllOperations
    BY <1>2 DEF SendMarker, Shape, Course, Marking, Stopping, AllOperations
  <2>2. Marker(control.op) \in Kinds
    BY <2>1 DEF Marker, Kinds, AllOperations
  <2>3. m \in Messages /\ m.seq = next
    BY <2>2, MessageType DEF StoreTypeOK, Event
  <2>4. thread # "none"
    BY <1>2 DEF SendMarker, Shape, ThreadInv, Agreement, Gone
  <2>5. UNCHANGED <<log, thread>> /\ queue' = Append(queue, m) /\ next' = next + 1
    BY <1>2 DEF SendMarker, store
  <2> HIDE DEF m
  <2> QED
    BY <2>3, <2>4, <2>5, SeqSent
<1>3. CASE Ask \/ SendShutdown
  <2>1. PICK what \in {"Flush", "ReadSnapshot", "Shutdown"}, n \in Nat :
            queue' = Append(queue, Request(what, n))
    BY <1>3 DEF Ask, SendShutdown, ControlTypeOK
  <2> DEFINE m == Request(what, n)
  <2>2. m \in Messages /\ ~IsEvent(m)
    BY RequestType DEF IsEvent, Request, Event
  <2>3. thread # "none"
    BY <1>3 DEF Ask, SendShutdown, Shape, ThreadInv, Agreement, Gone, Course, Marking,
       Stopping
  <2>4. UNCHANGED <<log, thread, next>> /\ queue' = Append(queue, m)
    BY <1>3, <2>1 DEF Ask, SendShutdown, store, counters
  <2> HIDE DEF m
  <2> QED
    BY <2>2, <2>3, <2>4, SeqSent
<1>4. CASE Erase
  <2>1. queue' = <<>> /\ thread' = "none"
    BY <1>4 DEF Erase, writer, Shape, ThreadInv, Agreement, Gone
  <2>2. CASE log' = <<>>
    <3>1. Len(log') = 0 /\ Len(queue') = 0
      BY <2>1, <2>2, EmptyType
    <3> QED
      BY <2>1, <3>1 DEF SeqInv
  <2>3. CASE UNCHANGED <<log, next>>
    BY <1>4, <2>3, SeqKept DEF Erase, writer
  <2> QED
    BY <1>4, <2>2, <2>3 DEF Erase
<1>5. CASE QueryOffline
  <2>1. queue' = <<>> /\ thread' = "none" /\ UNCHANGED <<queue, thread>>
    BY <1>5 DEF QueryOffline, writer, Shape, ThreadInv, Agreement, Gone
  <2> DEFINE m == Event("access", Nobody, 0, NextOffline)
  <2>2. NextOffline \in Nat /\ NextOffline > LastSeq
    BY LastType DEF NextOffline, StoreTypeOK
  <2>3. m \in Messages /\ m.seq > LastSeq
    BY <2>2, MessageType DEF Event, Kinds
  <2>4. next' \in Nat /\ (log' = log \/ log' = Append(log, m))
    BY <1>5, <2>2 DEF QueryOffline, StoreTypeOK
  <2> HIDE DEF m
  <2> QED
    BY <2>1, <2>3, <2>4, SeqExtended
<1>6. CASE Persist \/ PersistFails \/ TakeSlot \/ CloneSender \/ Flushed \/ Undo \/ Open
           \/ Settle \/ Join \/ SnapshotRead
  <2>1. UNCHANGED <<log, next, queue, thread>>
    BY <1>6 DEF Persist, PersistFails, TakeSlot, CloneSender, Flushed, Undo, Open, Settle,
       Join, SnapshotRead, store, counters, writer
  <2> QED
    BY <2>1, SeqKept
<1> QED
  BY <1>1, <1>2, <1>3, <1>4, <1>5, <1>6 DEF RunOperation

LEMMA RestartSeq ==
    ASSUME StoreTypeOK, WriterTypeOK, SeqInv, Restart
    PROVE  SeqInv'
<1> DEFINE m == Event("enable", Nobody, 0, FirstSequence)
<1>1. LastSeq \in Nat /\ m \in Messages /\ m.seq > LastSeq
  BY LastType, MessageType DEF FirstSequence, Event, Kinds, AllOperations
<1>2. queue' = <<>> /\ log' = log
  BY DEF Restart, store
<1>3. next' \in Nat /\ (thread' # "none" => next' > LastSeq)
  BY <1>1 DEF Restart, FirstSequence
<1> HIDE DEF m
<1> QED
  BY <1>1, <1>2, <1>3, SeqExtended

-----------------------------------------------------------------------------
(* Health.                                                                   *)

LEMMA StepHealth ==
    ASSUME UNCHANGED <<durable, enabled, control>>, health' = health \/ health' = "failed",
           HealthInv
    PROVE  HealthInv'
BY DEF HealthInv

LEMMA CallHealth ==
    ASSUME HealthInv, NEW a \in Actions, ToolCall(a) \/ OfferEvent(a)
    PROVE  HealthInv'
<1>1. UNCHANGED <<durable, enabled, control, health>>
  BY DEF ToolCall, OfferEvent, BeginAction, PassGate, FinishAction, TryLock, ReportDrops,
     TrySend, store, switches
<1> QED
  BY <1>1, StepHealth

LEMMA WriterHealth ==
    ASSUME HealthInv, WriterLoop \/ MaintenanceFails
    PROVE  HealthInv'
<1>1. UNCHANGED <<durable, enabled, control>> /\ (health' = health \/ health' = "failed")
  BY DEF WriterLoop, AppendEvent, AppendFails, Fail, DiscardEvent, AnswerRequest,
     ExitThread,
     MaintenanceFails, store, switches
<1> QED
  BY <1>1, StepHealth

LEMMA StartedHealth ==
    ASSUME HealthInv, NEW op, NEW where, Begin(op, where), enabled' => enabled,
           where \in {"start writer", "persist first", "persist", "mark", "snapshot"},
           op = "disable" => where \in {"persist first", "persist"},
           where = "persist first" => enabled
    PROVE  HealthInv'
<1>1. UNCHANGED <<durable, health>>
  BY DEF Begin, store
<1>2. /\ control.op = "none" /\ control.at = "idle"
      /\ control'.op = op /\ control'.at = where
  BY BeginFields
<1> QED
  BY <1>1, <1>2 DEF HealthInv, Marking, Stopping

LEMMA StartHealth ==
    ASSUME HealthInv, StartOperation
    PROVE  HealthInv'
<1>1. CASE Enable
  BY <1>1, StartedHealth DEF Enable
<1>2. CASE Disable
  <2>1. CASE enabled
    BY <1>2, <2>1, StartedHealth DEF Disable
  <2>2. CASE ~enabled
    BY <1>2, <2>2, StartedHealth DEF Disable
  <2> QED
    BY <2>1, <2>2
<1>3. CASE DeleteAll
  <2>1. CASE enabled
    BY <1>3, <2>1, StartedHealth DEF DeleteAll
  <2>2. CASE ~enabled
    BY <1>3, <2>2, StartedHealth DEF DeleteAll
  <2> QED
    BY <2>1, <2>2
<1>4. CASE Pause
  BY <1>4, StartedHealth DEF Pause, Adjust
<1>5. CASE Resume
  BY <1>5, StartedHealth DEF Resume, Adjust
<1>6. CASE Flush
  BY <1>6, StartedHealth DEF Flush, Adjust
<1>7. CASE Query
  BY <1>7, StartedHealth DEF Query
<1> QED
  BY <1>1, <1>2, <1>3, <1>4, <1>5, <1>6, <1>7 DEF StartOperation

LEMMA RunHealth ==
    ASSUME HealthInv, Shape, RunOperation
    PROVE  HealthInv'
<1>1. CASE StartWriter
  <2>1. UNCHANGED <<durable, enabled, health>> /\ control.at = "start writer"
    BY <1>1 DEF StartWriter, switches
  <2>2. control.op = "enable"
    BY <2>1, Found DEF Course, Marking, Stopping
  <2>3. \/ control'.op = "enable" /\ control'.at = "persist"
        \/ control'.op = "none" /\ control'.at = "idle"
    BY <1>1, <2>2, GotoFields, ReturnFields DEF StartWriter
  <2> QED
    BY <2>1, <2>2, <2>3 DEF HealthInv
<1>2. CASE Persist
  <2>1. UNCHANGED <<enabled, health>> /\ control'.op = control.op /\ control'.at = Persisted
        /\ control.at \in {"persist", "persist first"}
        /\ durable' = Wanted(control.op)
    BY <1>2, GotoFields DEF Persist
  <2>2. \/ control.op = "enable" /\ Persisted = "open"
        \/ control.op \in {"pause", "resume"} /\ enabled /\ Persisted = "mark"
        \/ control.op \in {"disable", "delete"} /\ Persisted \in {"mark", "settle", "erase"}
    BY <2>1, Found, PersistLeads DEF Agreement, On
  <2>3. control.op \in {"disable", "delete"} => ~durable'.enabled
    BY <2>1 DEF Wanted, State
  <2> QED
    BY <2>1, <2>2, <2>3, Found DEF HealthInv, Course, Agreement, On, Marking, Stopping
<1>3. CASE PersistFails
  <2>1. UNCHANGED <<durable, health>> /\ control.at \in {"persist", "persist first"}
        /\ (enabled' <=> enabled \/ control.at = "persist first")
    BY <1>3 DEF PersistFails, store
  <2>2. \/ control'.op = "enable" /\ control'.at = "stop" /\ control.op = "enable"
        \/ control'.op = "none" /\ control'.at = "idle" /\ control.op # "enable"
    BY <1>3, AtFields DEF PersistFails, PersistFailed, Resting
  <2> QED
    BY <2>1, <2>2 DEF HealthInv, Marking, Stopping
<1>4. CASE TakeSlot \/ SendMarker \/ CloneSender \/ Ask \/ SendShutdown
  <2>1. UNCHANGED <<durable, enabled, health>>
    BY <1>4 DEF TakeSlot, SendMarker, CloneSender, Ask, SendShutdown, store, switches
  <2>2. /\ control'.op = control.op
        /\ \/ control.at \in Marking /\ control'.at \in Marking
           \/ control.at \in Stopping /\ control'.at \in Stopping
           \/ control.at \in {"snapshot", "ask"} /\ control'.at \in {"ask", "offline", "reading"}
    <3>1. CASE TakeSlot
      BY <3>1, GotoFields DEF TakeSlot, Marking, Stopping
    <3>2. CASE Ask
      <4>1. CASE control.at = "flush"
        BY <3>2, <4>1, GotoFields DEF Ask, Marking
      <4>2. CASE control.at # "flush"
        BY <3>2, <4>2, GotoFields DEF Ask
      <4> QED
        BY <4>1, <4>2
    <3>3. CASE SendMarker \/ CloneSender \/ SendShutdown
      BY <3>3, GotoFields DEF SendMarker, CloneSender, SendShutdown, Marking, Stopping
    <3> QED
      BY <1>4, <3>1, <3>2, <3>3
  <2> QED
    BY <2>1, <2>2 DEF HealthInv, Marking, Stopping
<1>5. CASE Flushed
  <2>1. UNCHANGED <<durable, enabled, health>> /\ control.at = "flushing"
    BY <1>5 DEF Flushed, store
  <2>2. control.op \in {"disable", "delete", "flush", "query", "pause", "resume"}
    BY <2>1, Found DEF Course, Marking, Stopping
  <2>3. \/ /\ control.op \in {"disable", "delete"}
           /\ control'.op = control.op /\ control'.at = "stop"
        \/ control.op \in {"flush", "query"} /\ control'.op = "none" /\ control'.at = "idle"
        \/ /\ control.op \in {"pause", "resume"} /\ control'.op = control.op
           /\ control'.at \in {"undo", "settle", "open"}
    BY <1>5, <2>2, AtFields DEF Flushed, Resting
  <2> QED
    BY <2>1, <2>3, Found DEF HealthInv, Marking, Stopping
<1>6. CASE Undo
  <2>1. UNCHANGED <<enabled, health>> /\ control.at = "undo"
    BY <1>6 DEF Undo, switches
  <2>2. enabled /\ control'.op = "none" /\ control'.at = "idle" /\ control.op # "enable"
    BY <1>6, <2>1, ReturnFields, Found DEF Undo, Course, Agreement, On, Marking, Stopping
  <2> QED
    BY <2>1, <2>2 DEF HealthInv
<1>7. CASE Open
  <2>1. /\ UNCHANGED <<durable, health>> /\ control.at = "open"
        /\ (enabled' <=> enabled \/ control.op = "enable")
    BY <1>7 DEF Open, OpenGate, store
  <2>2. control.op \in {"enable", "resume"} /\ (control.op = "resume" => enabled)
    BY <2>1, Found DEF Course, Agreement, On, Marking, Stopping
  <2>3. control'.op = control.op /\ control'.at = "settle"
    BY <1>7, GotoFields DEF Open
  <2> QED
    BY <2>1, <2>2, <2>3 DEF HealthInv
<1>8. CASE Settle
  <2>1. UNCHANGED <<durable, enabled>> /\ control.at = "settle"
    BY <1>8 DEF Settle, store
  <2>2. control'.op = "none" /\ control'.at = "idle"
    BY <1>8, ReturnFields DEF Settle
  <2>3. CASE control.op = "disable"
    <3>1. ~enabled /\ ~durable.enabled
      BY <2>1, <2>3, Found DEF HealthInv, Agreement, On
    <3> QED
      BY <2>1, <2>2, <3>1 DEF HealthInv
  <2>4. CASE control.op # "disable"
    <3>1. health' # "disabled"
      BY <1>8, <2>4 DEF Settle
    <3> QED
      BY <2>2, <3>1 DEF HealthInv
  <2> QED
    BY <2>3, <2>4
<1>9. CASE Join
  <2>1. UNCHANGED <<durable, enabled>> /\ control.at = "join"
        /\ health' = IF control.op = "enable" THEN "failed" ELSE health
    BY <1>9 DEF Join, store
  <2>2. control.op \in {"enable", "disable", "delete"}
    BY <2>1, Found DEF Course, Marking, Stopping
  <2>3. \/ control.op = "enable" /\ control'.op = "none" /\ control'.at = "idle"
        \/ control.op = "disable" /\ control'.op = "disable" /\ control'.at = "settle"
        \/ control.op = "delete" /\ control'.op = "delete" /\ control'.at = "persist"
    BY <1>9, <2>2, AtFields DEF Join, Resting
  <2> QED
    BY <2>1, <2>3 DEF HealthInv, Marking, Stopping
<1>10. CASE Erase
  <2>1. UNCHANGED <<durable, enabled>> /\ control.at = "erase"
    BY <1>10 DEF Erase
  <2>2. ~enabled /\ ~durable.enabled
    BY <2>1, Found DEF HealthInv, Course, Agreement, On, Marking, Stopping
  <2>3. control'.op = "none" /\ control'.at = "idle"
    BY <1>10, ReturnFields DEF Erase
  <2> QED
    BY <2>1, <2>2, <2>3 DEF HealthInv
<1>11. CASE SnapshotRead \/ QueryOffline
  <2>1. UNCHANGED <<durable, enabled, health>> /\ control.at \in {"reading", "offline"}
    BY <1>11 DEF SnapshotRead, QueryOffline, store, switches
  <2>2. control.op = "query"
    BY <2>1, Found DEF Course, Marking, Stopping
  <2>3. \/ control'.op = "query" /\ control'.at = "mark"
        \/ control'.op = "none" /\ control'.at = "idle"
    BY <1>11, <2>2, GotoFields, ReturnFields DEF SnapshotRead, QueryOffline
  <2> QED
    BY <2>1, <2>2, <2>3 DEF HealthInv, Marking, Stopping
<1> QED
  BY <1>1, <1>2, <1>3, <1>4, <1>5, <1>6, <1>7, <1>8, <1>9, <1>10, <1>11 DEF RunOperation

LEMMA RestartHealth ==
    ASSUME Restart
    PROVE  HealthInv'
<1>1. control'.op = "none" /\ control'.at = "idle" /\ durable' = durable
  BY DEF Restart, Resting, At, store
<1>2. health' = "disabled" => ~durable.enabled /\ ~enabled'
  <2>1. PICK starts \in {durable.enabled, FALSE} :
            /\ enabled' = starts
            /\ health' = CASE ~durable.enabled -> "disabled"
                           [] ~starts          -> "failed"
                           [] OTHER            -> IF durable.paused THEN "paused" ELSE "ready"
    BY DEF Restart
  <2>2. CASE durable.enabled
    <3>1. CASE starts
      BY <2>1, <2>2, <3>1
    <3>2. CASE ~starts
      BY <2>1, <2>2, <3>2
    <3> QED
      BY <3>1, <3>2
  <2>3. CASE ~durable.enabled
    BY <2>1, <2>3
  <2> QED
    BY <2>2, <2>3
<1> QED
  BY <1>1, <1>2 DEF HealthInv

-----------------------------------------------------------------------------
(* The invariant and the theorems.                                           *)

HistoryInv == Shape /\ SeqInv /\ HealthInv

\* Every step keeps the types and the invariant together.
LEMMA StepInv ==
    ASSUME TypeOK, HistoryInv, [Next]_vars
    PROVE  TypeOK' /\ HistoryInv'
<1>1. /\ StoreTypeOK /\ SwitchTypeOK /\ WriterTypeOK /\ ControlTypeOK /\ ActTypeOK
      /\ Shape /\ SeqInv /\ HealthInv /\ Course
  BY DEF TypeOK, HistoryInv, Shape
<1>2. ASSUME NEW a \in Actions, ToolCall(a) \/ OfferEvent(a)
      PROVE  TypeOK' /\ HistoryInv'
  BY <1>1, <1>2, CallType, CallShape, CallSeq, CallHealth DEF HistoryInv
<1>3. CASE WriterLoop \/ MaintenanceFails
  BY <1>1, <1>3, WriterType, WriterShape, WriterSeq, WriterHealth DEF HistoryInv
<1>4. CASE StartOperation
  BY <1>1, <1>4, StartType, StartShape, StartSeq, StartHealth DEF HistoryInv
<1>5. CASE RunOperation
  BY <1>1, <1>5, RunType, RunShape, RunSeq, RunHealth DEF HistoryInv
<1>6. CASE Restart
  BY <1>1, <1>6, RestartType, RestartShape, RestartSeq, RestartHealth DEF HistoryInv
<1>7. CASE UNCHANGED vars
  <2>1. UNCHANGED <<durable, log, enabled, paused, health, next, dropped, unreported, slot,
                    handle, thread, queue, control, awaiting, answer, act, operations,
                    restarts, turnedOff, broken>>
    BY <1>7 DEF vars, store, switches, counters, writer, request, bounds, past
  <2>2. TypeOK'
    BY <2>1 DEF TypeOK, StoreTypeOK, SwitchTypeOK, WriterTypeOK, ControlTypeOK, ActTypeOK
  <2>3. Shape'
    BY <2>1, <1>1 DEF Shape, Course, Agreement, Gone, On, SlotInv, ThreadInv
  <2>4. SeqInv'
    BY <2>1, <1>1, SeqKept
  <2>5. HealthInv'
    BY <2>1, <1>1, StepHealth
  <2> QED
    BY <2>2, <2>3, <2>4, <2>5 DEF HistoryInv
<1> QED
  BY <1>2, <1>3, <1>4, <1>5, <1>6, <1>7 DEF Next

LEMMA InitInv == Init => TypeOK /\ HistoryInv
<1> SUFFICES ASSUME Init PROVE TypeOK /\ HistoryInv
  OBVIOUS
<1>1. control.op = "none" /\ control.at = "idle" /\ control \in Controls
  BY RestingType DEF Init, Resting, At
<1>2. TypeOK
  <2>1. StoreTypeOK
    BY StateType, EmptyType DEF Init, StoreTypeOK
  <2>2. WriterTypeOK
    <3>1. queue \in Seq(Messages) /\ Len(queue) = 0
      BY EmptyType DEF Init
    <3>2. Capacity \in Nat
      BY BoundAssumption
    <3>3. slot = Nobody /\ handle = FALSE /\ thread = "none"
      BY DEF Init
    <3>4. Len(queue) <= Capacity
      BY <3>1, <3>2
    <3>5. slot \in Actions \cup {Nobody, Control}
      BY <3>3
    <3>6. handle \in BOOLEAN /\ thread \in {"none", "running", "failed"}
      BY <3>3
    <3> QED
      BY <3>1, <3>4, <3>5, <3>6, Zenon DEF WriterTypeOK
  <2>3. SwitchTypeOK /\ ControlTypeOK
    <3>1. 0 \in 0..MaxOperations /\ 0 \in 0..MaxRestarts
      BY BoundAssumption
    <3> QED
      BY <1>1, <3>1 DEF Init, SwitchTypeOK, ControlTypeOK
  <2>4. ActTypeOK
    BY DEF Init, ActTypeOK, Call, Calls
  <2> QED
    BY <2>1, <2>2, <2>3, <2>4 DEF TypeOK
<1>3. Shape
  <2>1. Nobody # Control /\ Nobody \notin Actions
    BY ActionAssumption DEF Nobody, Control
  <2>2. SlotInv
    BY <1>1, <2>1 DEF Init, Call, SlotInv, Holding
  <2>3. Len(queue) = 0
    BY EmptyType DEF Init
  <2>4. Course /\ Agreement /\ ThreadInv
    BY <1>1, <2>3 DEF Init, Course, Agreement, ThreadInv
  <2> QED
    BY <2>2, <2>4 DEF Shape
<1>4. SeqInv
  <2>1. Len(log) = 0 /\ Len(queue) = 0
    BY EmptyType DEF Init
  <2> QED
    BY <2>1 DEF SeqInv
<1>5. HealthInv
  BY <1>1 DEF Init, State, HealthInv
<1> QED
  BY <1>2, <1>3, <1>4, <1>5 DEF HistoryInv

LEMMA Invariant == Spec => [](TypeOK /\ HistoryInv)
<1>1. TypeOK /\ HistoryInv /\ [Next]_vars => (TypeOK /\ HistoryInv)'
  BY StepInv
<1> QED
  BY InitInv, <1>1, PTL DEF Spec

\* Every variable keeps its type and the writer's channel its capacity, whatever
\* tool calls, lifecycle operations, failures and restarts do (history.rs).
THEOREM TypeCorrect == Spec => []TypeOK
BY Invariant, PTL

\* However many writers, restarts, offline queries and deletions there are, the
\* store numbers its events strictly upwards: read_all (history.rs), which every
\* query and every enable goes through, never refuses it.
THEOREM NumbersIncrease == Spec => []SequencesIncrease
<1>1. TypeOK /\ HistoryInv => SequencesIncrease
  <2> SUFFICES ASSUME TypeOK, HistoryInv
               PROVE  \A i, j \in DOMAIN log : i < j => log[i].seq < log[j].seq
    BY DEF SequencesIncrease
  <2>1. DOMAIN log = 1..Len(log)
    BY DEF TypeOK, StoreTypeOK
  <2> QED
    BY <2>1 DEF HistoryInv, SeqInv
<1> QED
  BY <1>1, Invariant, PTL

LEMMA WriterIsSwitched == TypeOK /\ HistoryInv => WriterFollowsEnablement
<1> SUFFICES ASSUME TypeOK, HistoryInv, control = Resting
             PROVE  /\ handle = enabled /\ (thread # "none") = enabled
                    /\ ~enabled => queue = <<>>
  BY DEF WriterFollowsEnablement
<1>1. control.at = "idle"
  BY DEF Resting, At
<1>2. handle <=> enabled
  BY <1>1 DEF HistoryInv, Shape, Agreement
<1>3. (thread # "none" <=> handle) /\ (~handle => queue = <<>>)
  BY <1>1 DEF HistoryInv, Shape, ThreadInv
<1>4. handle \in BOOLEAN /\ enabled \in BOOLEAN
  BY DEF TypeOK, WriterTypeOK, SwitchTypeOK
<1>5. handle = enabled
  BY <1>2, <1>4
<1>6. (thread # "none") = enabled
  BY <1>2, <1>3, <1>4
<1> QED
  BY <1>2, <1>3, <1>5, <1>6

LEMMA WaitsEnd == TypeOK /\ HistoryInv => WaitsAreServed
<1> SUFFICES ASSUME TypeOK, HistoryInv PROVE WaitsAreServed
  OBVIOUS
<1>1. SlotInv /\ ThreadInv
  BY DEF HistoryInv, Shape
<1>2. queue # <<>> => thread # "none"
  BY <1>1 DEF ThreadInv
<1>3. control.at = "join" /\ thread # "none" =>
         queue # <<>> /\ queue[Len(queue)].what = "Shutdown"
  BY <1>1 DEF ThreadInv, IsShutdown
<1>4. slot = Control => control # Resting
  BY <1>1 DEF SlotInv, Holding, Resting, At
<1>5. slot \in Actions => act[slot].at \in {"report", "send"}
  BY <1>1 DEF SlotInv
<1> QED
  BY <1>2, <1>3, <1>4, <1>5 DEF WaitsAreServed

\* Between lifecycle operations a writer thread runs exactly if recording is on,
\* and with recording off nothing is left for it to write: disable, delete and a
\* failed enable (history.rs) have stopped it and waited for it. And at
\* any time nothing waits in the channel, at a join or for the slot that nobody
\* serves.
THEOREM WriterServes == Spec => []WriterIsThere
BY WriterIsSwitched, WaitsEnd, Invariant, PTL DEF WriterIsThere

\* A user told that recording is disabled does not find it on after a restart:
\* whichever way an operation ended (history.rs), the state file says off.
THEOREM DisabledIsDurable == Spec => []DisabledSurvivesRestart
<1>1. TypeOK /\ HistoryInv => DisabledSurvivesRestart
  <2> SUFFICES ASSUME HistoryInv, control = Resting, health = "disabled"
               PROVE  ~enabled /\ ~durable.enabled
    BY DEF DisabledSurvivesRestart
  <2>1. control.op = "none"
    BY DEF Resting, At
  <2> QED
    BY <2>1 DEF HistoryInv, HealthInv
<1> QED
  BY <1>1, Invariant, PTL
=============================================================================
