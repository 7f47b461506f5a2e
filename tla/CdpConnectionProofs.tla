------------------------ MODULE CdpConnectionProofs ------------------------
(* Theorems about CdpConnection, for any number of commands and events.      *)
EXTENDS CdpConnection, TLAPS

-----------------------------------------------------------------------------
(* Types.                                                                    *)

LEMMA ReaderType ==
    /\ \A at \in {"read", "clear pending", "clear subscribers", "gone"} :
           Reader(at, Nobody, 0) \in ReaderStates
    /\ \A t \in Tasks : Reader("resolve", t, 0) \in ReaderStates
    /\ \A e \in 0..MaxEvents : Reader("deliver", Nobody, e) \in ReaderStates
BY EventAssumption DEF Reader, ReaderStates

LEMMA TypeInit == Init => TypeOK
<1> USE EventAssumption DEF Init
<1>1. Init => CallerTypeOK
  BY DEF CallerTypeOK, Outstanding
<1>2. Init => DemuxTypeOK
  <2>1. Init => queue \in [Tasks -> Seq(0..MaxEvents)]
    OBVIOUS
  <2> QED
    BY <2>1 DEF DemuxTypeOK
<1>3. Init => ReaderTypeOK
  BY ReaderType DEF ReaderTypeOK
<1>4. Init => BrowserTypeOK
  BY DEF BrowserTypeOK
<1> QED
  BY <1>1, <1>2, <1>3, <1>4 DEF TypeOK

\* What a task does keeps the types.
LEMMA TypeTask ==
    ASSUME TypeOK, NEW t \in Tasks,
           Subscribe(t) \/ BeginCall(t) \/ Continue(t) \/ Cancel(t) \/ Finish(t)
    PROVE  TypeOK'
<1> USE TaskAssumption, EventAssumption
    DEF TypeOK, Goto, Settle, callers, demux, browser
<1>1. CASE Subscribe(t)
  <2>1. CallerTypeOK'
    BY <1>1 DEF Subscribe, CallerTypeOK, BrowserTypeOK, Outstanding
  <2>2. DemuxTypeOK' /\ ReaderTypeOK'
    BY <1>1 DEF Subscribe, DemuxTypeOK, ReaderTypeOK
  <2>3. BrowserTypeOK'
    BY <1>1 DEF Subscribe, BrowserTypeOK
  <2> QED
    BY <2>1, <2>2, <2>3
<1>2. CASE BeginCall(t)
  <2>1. CallerTypeOK'
    BY <1>2 DEF BeginCall, CallerTypeOK, BrowserTypeOK, Outstanding
  <2>2. DemuxTypeOK' /\ ReaderTypeOK'
    BY <1>2 DEF BeginCall, DemuxTypeOK, ReaderTypeOK
  <2>3. BrowserTypeOK'
    BY <1>2 DEF BeginCall, BrowserTypeOK
  <2> QED
    BY <2>1, <2>2, <2>3
<1>3. CASE Register(t)
  <2>1. CallerTypeOK'
    BY <1>3 DEF Register, CallerTypeOK, BrowserTypeOK, Outstanding
  <2>2. DemuxTypeOK' /\ ReaderTypeOK'
    BY <1>3 DEF Register, DemuxTypeOK, ReaderTypeOK
  <2>3. BrowserTypeOK'
    BY <1>3 DEF Register, BrowserTypeOK
  <2> QED
    BY <2>1, <2>2, <2>3
<1>4. CASE Recheck(t)
  <2>1. CallerTypeOK'
    BY <1>4 DEF Recheck, CallerTypeOK, BrowserTypeOK, Outstanding
  <2>2. DemuxTypeOK' /\ ReaderTypeOK'
    BY <1>4 DEF Recheck, DemuxTypeOK, ReaderTypeOK
  <2>3. BrowserTypeOK'
    BY <1>4 DEF Recheck, BrowserTypeOK
  <2> QED
    BY <2>1, <2>2, <2>3
<1>5. CASE TakeWriter(t)
  <2>1. CallerTypeOK'
    BY <1>5 DEF TakeWriter, CallerTypeOK, BrowserTypeOK, Outstanding
  <2>2. DemuxTypeOK' /\ ReaderTypeOK'
    BY <1>5 DEF TakeWriter, DemuxTypeOK, ReaderTypeOK
  <2>3. BrowserTypeOK'
    BY <1>5 DEF TakeWriter, BrowserTypeOK
  <2> QED
    BY <2>1, <2>2, <2>3
<1>6. CASE Write(t)
  <2>1. CallerTypeOK'
    BY <1>6 DEF Write, CallerTypeOK, BrowserTypeOK, Outstanding
  <2>2. DemuxTypeOK' /\ ReaderTypeOK'
    BY <1>6 DEF Write, DemuxTypeOK, ReaderTypeOK
  <2>3. BrowserTypeOK'
    BY <1>6 DEF Write, BrowserTypeOK
  <2> QED
    BY <2>1, <2>2, <2>3
<1>7. CASE Await(t)
  <2>1. CallerTypeOK'
    BY <1>7 DEF Await, CallerTypeOK, BrowserTypeOK, Outstanding
  <2>2. DemuxTypeOK' /\ ReaderTypeOK'
    BY <1>7 DEF Await, DemuxTypeOK, ReaderTypeOK
  <2>3. BrowserTypeOK'
    BY <1>7 DEF Await, BrowserTypeOK
  <2> QED
    BY <2>1, <2>2, <2>3
<1>8. CASE Timeout(t)
  <2>1. CallerTypeOK'
    BY <1>8 DEF Timeout, CallerTypeOK, BrowserTypeOK, Outstanding
  <2>2. DemuxTypeOK' /\ ReaderTypeOK'
    BY <1>8 DEF Timeout, DemuxTypeOK, ReaderTypeOK
  <2>3. BrowserTypeOK'
    BY <1>8 DEF Timeout, BrowserTypeOK
  <2> QED
    BY <2>1, <2>2, <2>3
<1>9. CASE Abandon(t)
  <2>1. CallerTypeOK'
    BY <1>9 DEF Abandon, CallerTypeOK, BrowserTypeOK, Outstanding
  <2>2. DemuxTypeOK' /\ ReaderTypeOK'
    BY <1>9 DEF Abandon, DemuxTypeOK, ReaderTypeOK
  <2>3. BrowserTypeOK'
    BY <1>9 DEF Abandon, BrowserTypeOK
  <2> QED
    BY <2>1, <2>2, <2>3
<1>10. CASE Cancel(t)
  <2>1. CallerTypeOK'
    BY <1>10 DEF Cancel, CallerTypeOK, BrowserTypeOK, Outstanding
  <2>2. DemuxTypeOK' /\ ReaderTypeOK'
    BY <1>10 DEF Cancel, DemuxTypeOK, ReaderTypeOK
  <2>3. BrowserTypeOK'
    BY <1>10 DEF Cancel, BrowserTypeOK
  <2> QED
    BY <2>1, <2>2, <2>3
<1>11. CASE Finish(t)
  <2>1. CallerTypeOK'
    BY <1>11 DEF Finish, CallerTypeOK, BrowserTypeOK, Outstanding
  <2>2. DemuxTypeOK' /\ ReaderTypeOK'
    BY <1>11 DEF Finish, DemuxTypeOK, ReaderTypeOK
  <2>3. BrowserTypeOK'
    BY <1>11 DEF Finish, BrowserTypeOK
  <2> QED
    BY <2>1, <2>2, <2>3
<1> QED
  BY <1>1, <1>2, <1>3, <1>4, <1>5, <1>6, <1>7, <1>8, <1>9, <1>10, <1>11 DEF Continue

\* So does the reader.
LEMMA TypeReader == ASSUME TypeOK, ReadLoop PROVE TypeOK'
<1> USE TaskAssumption, EventAssumption
    DEF TypeOK, callers, demux, browser
<1>1. CASE ReadReply
  <2>0. Head(wire) \in Frame /\ Tail(wire) \in Seq(Frame)
    BY <1>1 DEF ReadReply, BrowserTypeOK
  <2>1. CallerTypeOK'
    BY <1>1 DEF ReadReply, CallerTypeOK, DemuxTypeOK,
         ReaderTypeOK
  <2>2. DemuxTypeOK'
    BY <1>1, <2>0 DEF ReadReply, DemuxTypeOK
  <2>3. ReaderTypeOK'
    BY <1>1, <2>0, ReaderType DEF ReadReply, ReaderTypeOK, Frame
  <2>4. BrowserTypeOK'
    BY <1>1, <2>0 DEF ReadReply, BrowserTypeOK
  <2> QED
    BY <2>1, <2>2, <2>3, <2>4
<1>2. CASE Resolve
  <2>1. CallerTypeOK'
    BY <1>2 DEF Resolve, CallerTypeOK, DemuxTypeOK,
         ReaderTypeOK
  <2>2. DemuxTypeOK'
    BY <1>2 DEF Resolve, DemuxTypeOK
  <2>3. ReaderTypeOK'
    BY <1>2, ReaderType DEF Resolve, ReaderTypeOK, Frame
  <2>4. BrowserTypeOK'
    BY <1>2 DEF Resolve, BrowserTypeOK
  <2> QED
    BY <2>1, <2>2, <2>3, <2>4
<1>3. CASE ReadEvent
  <2>0. Head(wire) \in Frame /\ Tail(wire) \in Seq(Frame)
    BY <1>3 DEF ReadEvent, BrowserTypeOK
  <2>1. CallerTypeOK'
    BY <1>3 DEF ReadEvent, CallerTypeOK, DemuxTypeOK,
         ReaderTypeOK
  <2>2. DemuxTypeOK'
    BY <1>3, <2>0 DEF ReadEvent, DemuxTypeOK
  <2>3. ReaderTypeOK'
    BY <1>3, <2>0, ReaderType DEF ReadEvent, ReaderTypeOK, Frame
  <2>4. BrowserTypeOK'
    BY <1>3, <2>0 DEF ReadEvent, BrowserTypeOK
  <2> QED
    BY <2>1, <2>2, <2>3, <2>4
<1>4. CASE Deliver
  <2>0. reader.event \in 0..MaxEvents
    BY DEF ReaderTypeOK, ReaderStates
  <2>1. CallerTypeOK'
    BY <1>4 DEF Deliver, CallerTypeOK, DemuxTypeOK,
         ReaderTypeOK
  <2>2. DemuxTypeOK'
    <3>1. Recipients \subseteq subscribers
      BY DEF Recipients
    <3>2. subscribers' \subseteq Listeners /\ pending' \subseteq Tasks /\ closed' \in BOOLEAN
      BY <1>4, <3>1 DEF Deliver, DemuxTypeOK
    <3>3. ASSUME NEW t \in Tasks
          PROVE  Append(queue[t], reader.event) \in Seq(0..MaxEvents)
      BY <2>0 DEF DemuxTypeOK
    <3>4. queue' \in [Tasks -> Seq(0..MaxEvents)]
      BY <1>4, <3>3 DEF Deliver, DemuxTypeOK
    <3> QED
      BY <3>2, <3>4 DEF DemuxTypeOK
  <2>3. ReaderTypeOK'
    BY <1>4, <2>0, ReaderType DEF Deliver, ReaderTypeOK, Frame
  <2>4. BrowserTypeOK'
    BY <1>4, <2>0 DEF Deliver, BrowserTypeOK
  <2> QED
    BY <2>1, <2>2, <2>3, <2>4
<1>5. CASE SetClosed
  <2>1. CallerTypeOK'
    BY <1>5 DEF SetClosed, CallerTypeOK, DemuxTypeOK,
         ReaderTypeOK
  <2>2. DemuxTypeOK'
    BY <1>5 DEF SetClosed, DemuxTypeOK
  <2>3. ReaderTypeOK'
    BY <1>5, ReaderType DEF SetClosed, ReaderTypeOK, Frame
  <2>4. BrowserTypeOK'
    BY <1>5 DEF SetClosed, BrowserTypeOK
  <2> QED
    BY <2>1, <2>2, <2>3, <2>4
<1>6. CASE ClearPending
  <2>1. CallerTypeOK'
    BY <1>6 DEF ClearPending, CallerTypeOK, DemuxTypeOK,
         ReaderTypeOK
  <2>2. DemuxTypeOK'
    BY <1>6 DEF ClearPending, DemuxTypeOK
  <2>3. ReaderTypeOK'
    BY <1>6, ReaderType DEF ClearPending, ReaderTypeOK, Frame
  <2>4. BrowserTypeOK'
    BY <1>6 DEF ClearPending, BrowserTypeOK
  <2> QED
    BY <2>1, <2>2, <2>3, <2>4
<1>7. CASE ClearSubscribers
  <2>1. CallerTypeOK'
    BY <1>7 DEF ClearSubscribers, CallerTypeOK, DemuxTypeOK,
         ReaderTypeOK
  <2>2. DemuxTypeOK'
    BY <1>7 DEF ClearSubscribers, DemuxTypeOK
  <2>3. ReaderTypeOK'
    BY <1>7, ReaderType DEF ClearSubscribers, ReaderTypeOK, Frame
  <2>4. BrowserTypeOK'
    BY <1>7 DEF ClearSubscribers, BrowserTypeOK
  <2> QED
    BY <2>1, <2>2, <2>3, <2>4
<1> QED
  BY <1>1, <1>2, <1>3, <1>4, <1>5, <1>6, <1>7 DEF ReadLoop

\* And the browser, which changes nothing of the driver.
LEMMA TypeBrowser == ASSUME TypeOK, Browser PROVE TypeOK'
<1> USE TaskAssumption, EventAssumption
    DEF TypeOK, callers, demux, browser
<1>1. CallerTypeOK' /\ DemuxTypeOK' /\ ReaderTypeOK'
  BY DEF Browser, BrowserReply, BrowserEvent, SocketEnds, CallerTypeOK, DemuxTypeOK,
         ReaderTypeOK
<1>2. ASSUME NEW t \in Tasks, BrowserReply(t) PROVE BrowserTypeOK'
  BY <1>2 DEF BrowserReply, BrowserTypeOK, Frame
<1>3. CASE BrowserEvent
  BY <1>1, <1>3 DEF BrowserEvent, BrowserTypeOK, Frame
<1>4. CASE SocketEnds
  BY <1>1, <1>4 DEF SocketEnds, BrowserTypeOK
<1> QED
  BY <1>1, <1>2, <1>3, <1>4 DEF Browser

LEMMA TypeNext == TypeOK /\ [Next]_vars => TypeOK'
<1> SUFFICES ASSUME TypeOK, [Next]_vars PROVE TypeOK'
  OBVIOUS
<1>1. CASE UNCHANGED vars
  BY <1>1 DEF TypeOK, CallerTypeOK, DemuxTypeOK, ReaderTypeOK,
            BrowserTypeOK, vars, callers, demux, browser
<1>2. CASE Next
  BY <1>2, TypeTask, TypeReader, TypeBrowser DEF Next
<1> QED
  BY <1>1, <1>2

\* Every variable of a connection keeps to its type: the tables of Demux, the
\* calls and the frames on the wire (cdp_ws.rs).
THEOREM TypeCorrect == Spec => []TypeOK
<1>1. TypeOK /\ [Next]_vars => TypeOK'
  BY TypeNext
<1> QED
  BY <1>1, TypeInit, PTL DEF Spec

-----------------------------------------------------------------------------
(* The inductive invariant: what ties the tables to the places of the tasks  *)
(* and of the reader.                                                        *)

Unregistered == {"new", "listening", "register"}

\* The reader raises the flag before it clears a table.
FlagFirst == reader.at \in {"clear pending", "clear subscribers", "gone"} => closed

\* The sender of a reply is in one place: the table or the reader's hand.
InHand ==
    reader.at = "resolve" =>
        reader.task \in Tasks /\ reader.task \notin pending
                              /\ task[reader.task] \notin Unregistered

\* Until it registers, a command has left no trace; an answer ends an entry.
Fresh(t)    == task[t] \in Unregistered =>
                   t \notin pending /\ answer[t] = "empty" /\ outcome[t] = "none"
Answered(t) == answer[t] # "empty" => t \notin pending

\* WaiterHasSender, from registration on: before it sends, a call either has a
\* sender or is about to see the flag.
HasSender(t) ==
    task[t] \in Outstanding \cup {"recheck"} /\ answer[t] = "empty" =>
        \/ t \in pending /\ reader.at \notin {"clear subscribers", "gone"}
        \/ reader.at = "resolve" /\ reader.task = t
        \/ task[t] = "recheck" /\ closed

Entry(t) == t \in pending => \/ task[t] \in Outstanding \cup {"recheck", "abandon"}
                             \/ outcome[t] = "cancelled"

\* A subscription that came after the last clear comes with the flag raised:
\* its task gets no further than the first look at it.
Late(t) == reader.at = "gone" /\ t \in subscribers =>
               \/ task[t] = "listening"
               \/ task[t] \in {"returned", "over"} /\ outcome[t] = "closed"

TaskInv(t) == Fresh(t) /\ Answered(t) /\ HasSender(t) /\ Entry(t) /\ Late(t)

DemuxInv == TypeOK /\ FlagFirst /\ InHand /\ \A t \in Tasks : TaskInv(t)

LEMMA InvInit == Init => DemuxInv
<1> SUFFICES ASSUME Init PROVE DemuxInv
  OBVIOUS
<1>1. reader.at = "read"
  BY DEF Init, Reader
<1> QED
  BY <1>1, TypeInit DEF Init, DemuxInv, FlagFirst, InHand, TaskInv, Fresh, Answered,
     HasSender, Entry, Late, Outstanding

\* What a task does changes its own entry and nobody else's.
LEMMA InvTask ==
    ASSUME DemuxInv, NEW t \in Tasks,
           Subscribe(t) \/ BeginCall(t) \/ Continue(t) \/ Cancel(t) \/ Finish(t)
    PROVE  FlagFirst' /\ InHand' /\ \A u \in Tasks : TaskInv(u)'
<1>0. CallerTypeOK /\ FlagFirst /\ InHand /\ \A u \in Tasks : TaskInv(u)
  BY DEF DemuxInv, TypeOK
<1> USE DEF Goto, Settle, callers, demux, browser
<1>1. CASE Subscribe(t)
  <2>1. FlagFirst' /\ InHand'
    BY <1>0, <1>1 DEF Subscribe, FlagFirst, InHand, TaskInv, Fresh, Entry, CallerTypeOK,
       Unregistered, Outstanding
  <2>2. ASSUME NEW u \in Tasks PROVE TaskInv(u)'
    BY <1>0, <1>1 DEF Subscribe, FlagFirst, InHand, TaskInv, Fresh, Answered, HasSender,
       Entry, Late, CallerTypeOK, Unregistered, Outstanding
  <2> QED
    BY <2>1, <2>2
<1>2. CASE BeginCall(t)
  <2>1. FlagFirst' /\ InHand'
    BY <1>0, <1>2 DEF BeginCall, FlagFirst, InHand, TaskInv, Fresh, Entry, CallerTypeOK,
       Unregistered, Outstanding
  <2>2. ASSUME NEW u \in Tasks PROVE TaskInv(u)'
    <3>1. CASE closed
      <4>1. task' = [task EXCEPT ![t] = "returned"] /\ outcome' = [outcome EXCEPT ![t] = "closed"]
        BY <1>2, <3>1 DEF BeginCall
      <4> QED
        BY <1>0, <1>2, <3>1, <4>1 DEF BeginCall, TaskInv, Fresh, Answered, HasSender,
           Entry, Late, CallerTypeOK, Unregistered, Outstanding
    <3>2. CASE ~closed
      <4>1. task' = [task EXCEPT ![t] = "register"] /\ outcome' = outcome
        BY <1>2, <3>2 DEF BeginCall
      <4> QED
        BY <1>0, <1>2, <3>2, <4>1 DEF BeginCall, FlagFirst, TaskInv, Fresh, Answered, HasSender,
           Entry, Late, CallerTypeOK, Unregistered, Outstanding
    <3> QED
      BY <3>1, <3>2
  <2> QED
    BY <2>1, <2>2
<1>3. CASE Register(t)
  <2>1. FlagFirst' /\ InHand'
    BY <1>0, <1>3 DEF Register, FlagFirst, InHand, TaskInv, Fresh, Entry, CallerTypeOK,
       Unregistered, Outstanding
  <2>2. ASSUME NEW u \in Tasks PROVE TaskInv(u)'
    BY <1>0, <1>3 DEF Register, FlagFirst, InHand, TaskInv, Fresh, Answered, HasSender,
       Entry, Late, CallerTypeOK, Unregistered, Outstanding
  <2> QED
    BY <2>1, <2>2
<1>4. CASE Recheck(t)
  <2>1. FlagFirst' /\ InHand'
    BY <1>0, <1>4 DEF Recheck, FlagFirst, InHand, TaskInv, Fresh, Entry, CallerTypeOK,
       Unregistered, Outstanding
  <2>2. ASSUME NEW u \in Tasks PROVE TaskInv(u)'
    <3>1. CASE closed
      <4>1. task' = [task EXCEPT ![t] = "abandon"] /\ outcome' = [outcome EXCEPT ![t] = "closed"]
        BY <1>4, <3>1 DEF Recheck
      <4> QED
        BY <1>0, <1>4, <3>1, <4>1 DEF Recheck, TaskInv, Fresh, Answered, HasSender,
           Entry, Late, CallerTypeOK, Unregistered, Outstanding
    <3>2. CASE ~closed
      <4>1. task' = [task EXCEPT ![t] = "send"] /\ outcome' = outcome
        BY <1>4, <3>2 DEF Recheck
      <4> QED
        BY <1>0, <1>4, <3>2, <4>1 DEF Recheck, FlagFirst, TaskInv, Fresh, Answered, HasSender,
           Entry, Late, CallerTypeOK, Unregistered, Outstanding
    <3> QED
      BY <3>1, <3>2
  <2> QED
    BY <2>1, <2>2
<1>5. CASE TakeWriter(t)
  <2>1. FlagFirst' /\ InHand'
    BY <1>0, <1>5 DEF TakeWriter, FlagFirst, InHand, TaskInv, Fresh, Entry, CallerTypeOK,
       Unregistered, Outstanding
  <2>2. ASSUME NEW u \in Tasks PROVE TaskInv(u)'
    BY <1>0, <1>5 DEF TakeWriter, FlagFirst, InHand, TaskInv, Fresh, Answered, HasSender,
       Entry, Late, CallerTypeOK, Unregistered, Outstanding
  <2> QED
    BY <2>1, <2>2
<1>6. CASE Write(t)
  <2>1. FlagFirst' /\ InHand'
    BY <1>0, <1>6 DEF Write, FlagFirst, InHand, TaskInv, Fresh, Entry, CallerTypeOK,
       Unregistered, Outstanding
  <2>2. ASSUME NEW u \in Tasks PROVE TaskInv(u)'
    BY <1>0, <1>6 DEF Write, FlagFirst, InHand, TaskInv, Fresh, Answered, HasSender,
       Entry, Late, CallerTypeOK, Unregistered, Outstanding
  <2> QED
    BY <2>1, <2>2
<1>7. CASE Await(t)
  <2>1. FlagFirst' /\ InHand'
    BY <1>0, <1>7 DEF Await, FlagFirst, InHand, TaskInv, Fresh, Entry, CallerTypeOK,
       Unregistered, Outstanding
  <2>2. ASSUME NEW u \in Tasks PROVE TaskInv(u)'
    BY <1>0, <1>7 DEF Await, FlagFirst, InHand, TaskInv, Fresh, Answered, HasSender,
       Entry, Late, CallerTypeOK, Unregistered, Outstanding
  <2> QED
    BY <2>1, <2>2
<1>8. CASE Timeout(t)
  <2>1. FlagFirst' /\ InHand'
    BY <1>0, <1>8 DEF Timeout, FlagFirst, InHand, TaskInv, Fresh, Entry, CallerTypeOK,
       Unregistered, Outstanding
  <2>2. ASSUME NEW u \in Tasks PROVE TaskInv(u)'
    BY <1>0, <1>8 DEF Timeout, FlagFirst, InHand, TaskInv, Fresh, Answered, HasSender,
       Entry, Late, CallerTypeOK, Unregistered, Outstanding
  <2> QED
    BY <2>1, <2>2
<1>9. CASE Abandon(t)
  <2>1. FlagFirst' /\ InHand'
    BY <1>0, <1>9 DEF Abandon, FlagFirst, InHand, TaskInv, Fresh, Entry, CallerTypeOK,
       Unregistered, Outstanding
  <2>2. ASSUME NEW u \in Tasks PROVE TaskInv(u)'
    BY <1>0, <1>9 DEF Abandon, FlagFirst, InHand, TaskInv, Fresh, Answered, HasSender,
       Entry, Late, CallerTypeOK, Unregistered, Outstanding
  <2> QED
    BY <2>1, <2>2
<1>10. CASE Cancel(t)
  <2>1. FlagFirst' /\ InHand'
    BY <1>0, <1>10 DEF Cancel, FlagFirst, InHand, TaskInv, Fresh, Entry, CallerTypeOK,
       Unregistered, Outstanding
  <2>2. ASSUME NEW u \in Tasks PROVE TaskInv(u)'
    BY <1>0, <1>10 DEF Cancel, FlagFirst, InHand, TaskInv, Fresh, Answered, HasSender,
       Entry, Late, CallerTypeOK, Unregistered, Outstanding
  <2> QED
    BY <2>1, <2>2
<1>11. CASE Finish(t)
  <2>1. FlagFirst' /\ InHand'
    BY <1>0, <1>11 DEF Finish, FlagFirst, InHand, TaskInv, Fresh, Entry, CallerTypeOK,
       Unregistered, Outstanding
  <2>2. ASSUME NEW u \in Tasks PROVE TaskInv(u)'
    BY <1>0, <1>11 DEF Finish, FlagFirst, InHand, TaskInv, Fresh, Answered, HasSender,
       Entry, Late, CallerTypeOK, Unregistered, Outstanding
  <2> QED
    BY <2>1, <2>2
<1> QED
  BY <1>1, <1>2, <1>3, <1>4, <1>5, <1>6, <1>7, <1>8, <1>9, <1>10, <1>11 DEF Continue

\* The reader moves a sender from the table to its hand, and clears what is left.
LEMMA InvReader ==
    ASSUME DemuxInv, ReadLoop
    PROVE  FlagFirst' /\ InHand' /\ \A u \in Tasks : TaskInv(u)'
<1>0. CallerTypeOK /\ pending \subseteq Tasks /\ FlagFirst /\ InHand /\ \A u \in Tasks : TaskInv(u)
  BY DEF DemuxInv, TypeOK, DemuxTypeOK
<1> USE DEF Reader, callers, demux, browser
<1>1. CASE ReadReply
  <2>1. FlagFirst' /\ InHand'
    BY <1>0, <1>1 DEF ReadReply, FlagFirst, InHand, TaskInv, Fresh, Unregistered
  <2>2. ASSUME NEW u \in Tasks PROVE TaskInv(u)'
    BY <1>0, <1>1 DEF ReadReply, FlagFirst, InHand, TaskInv, Fresh, Answered, HasSender,
       Entry, Late, CallerTypeOK, Unregistered, Outstanding
  <2> QED
    BY <2>1, <2>2
<1>2. CASE Resolve
  <2>1. FlagFirst' /\ InHand'
    BY <1>0, <1>2 DEF Resolve, FlagFirst, InHand, TaskInv, Fresh, Unregistered
  <2>2. ASSUME NEW u \in Tasks PROVE TaskInv(u)'
    BY <1>0, <1>2 DEF Resolve, FlagFirst, InHand, TaskInv, Fresh, Answered, HasSender,
       Entry, Late, CallerTypeOK, Unregistered, Outstanding
  <2> QED
    BY <2>1, <2>2
<1>3. CASE ReadEvent
  <2>1. FlagFirst' /\ InHand'
    BY <1>0, <1>3 DEF ReadEvent, FlagFirst, InHand, TaskInv, Fresh, Unregistered
  <2>2. ASSUME NEW u \in Tasks PROVE TaskInv(u)'
    BY <1>0, <1>3 DEF ReadEvent, FlagFirst, InHand, TaskInv, Fresh, Answered, HasSender,
       Entry, Late, CallerTypeOK, Unregistered, Outstanding
  <2> QED
    BY <2>1, <2>2
<1>4. CASE Deliver
  <2>1. FlagFirst' /\ InHand'
    BY <1>0, <1>4 DEF Deliver, FlagFirst, InHand, TaskInv, Fresh, Unregistered, Recipients
  <2>2. ASSUME NEW u \in Tasks PROVE TaskInv(u)'
    BY <1>0, <1>4 DEF Deliver, FlagFirst, InHand, TaskInv, Fresh, Answered, HasSender,
       Entry, Late, CallerTypeOK, Unregistered, Outstanding, Recipients
  <2> QED
    BY <2>1, <2>2
<1>5. CASE SetClosed
  <2>1. FlagFirst' /\ InHand'
    BY <1>0, <1>5 DEF SetClosed, FlagFirst, InHand, TaskInv, Fresh, Unregistered
  <2>2. ASSUME NEW u \in Tasks PROVE TaskInv(u)'
    BY <1>0, <1>5 DEF SetClosed, FlagFirst, InHand, TaskInv, Fresh, Answered, HasSender,
       Entry, Late, CallerTypeOK, Unregistered, Outstanding
  <2> QED
    BY <2>1, <2>2
<1>6. CASE ClearPending
  <2>1. FlagFirst' /\ InHand'
    BY <1>0, <1>6 DEF ClearPending, FlagFirst, InHand, TaskInv, Fresh, Unregistered
  <2>2. ASSUME NEW u \in Tasks PROVE TaskInv(u)'
    BY <1>0, <1>6 DEF ClearPending, FlagFirst, InHand, TaskInv, Fresh, Answered, HasSender,
       Entry, Late, CallerTypeOK, Unregistered, Outstanding
  <2> QED
    BY <2>1, <2>2
<1>7. CASE ClearSubscribers
  <2>1. FlagFirst' /\ InHand'
    BY <1>0, <1>7 DEF ClearSubscribers, FlagFirst, InHand, TaskInv, Fresh, Unregistered
  <2>2. ASSUME NEW u \in Tasks PROVE TaskInv(u)'
    BY <1>0, <1>7 DEF ClearSubscribers, FlagFirst, InHand, TaskInv, Fresh, Answered, HasSender,
       Entry, Late, CallerTypeOK, Unregistered, Outstanding
  <2> QED
    BY <2>1, <2>2
<1> QED
  BY <1>1, <1>2, <1>3, <1>4, <1>5, <1>6, <1>7 DEF ReadLoop

LEMMA InvNext == DemuxInv /\ [Next]_vars => DemuxInv'
<1> SUFFICES ASSUME DemuxInv, [Next]_vars PROVE DemuxInv'
  OBVIOUS
<1>1. TypeOK'
  BY TypeNext DEF DemuxInv
<1>2. CASE UNCHANGED vars \/ Browser
  <2>1. UNCHANGED <<callers, demux>>
    BY <1>2 DEF vars, Browser, BrowserReply, BrowserEvent, SocketEnds
  <2> QED
    BY <1>1, <2>1 DEF DemuxInv, FlagFirst, InHand, TaskInv, Fresh, Answered, HasSender,
       Entry, Late, callers, demux
<1>3. CASE \E t \in Tasks : Subscribe(t) \/ BeginCall(t) \/ Continue(t) \/ Cancel(t) \/ Finish(t)
  BY <1>1, <1>3, InvTask DEF DemuxInv
<1>4. CASE ReadLoop
  BY <1>1, <1>4, InvReader DEF DemuxInv
<1> QED
  BY <1>2, <1>3, <1>4 DEF Next

\* The inductive invariant of the demultiplexer: the types, and of every call which
\* entry, reply or error is still on its way to it (cdp_ws.rs, call and demux).
THEOREM DemuxCorrect == Spec => []DemuxInv
BY InvInit, InvNext, PTL DEF Spec

\* A mutex: only a task that took the send half writes, and every way out of the
\* write gives it back.
LEMMA SendHalfNext ==
    ASSUME TypeOK, WriterHoldsSendHalf, [Next]_vars
    PROVE  WriterHoldsSendHalf'
<1> SUFFICES ASSUME NEW u \in Tasks PROVE (writer' = u) <=> (task'[u] = "writing")
  BY DEF WriterHoldsSendHalf
<1>0. /\ task \in [Tasks -> Outstanding \cup {"new", "listening", "register",
                                              "recheck", "abandon", "returned", "over"}]
      /\ \A t \in Tasks : writer = t <=> task[t] = "writing"
      /\ Nobody \notin Tasks
  BY TaskAssumption DEF TypeOK, CallerTypeOK, WriterHoldsSendHalf, Nobody
<1>1. ASSUME NEW t \in Tasks,
             Subscribe(t) \/ BeginCall(t) \/ Continue(t) \/ Cancel(t) \/ Finish(t)
      PROVE  (writer' = u) <=> (task'[u] = "writing")
  <2>1. CASE TakeWriter(t)
    BY <1>0, <2>1 DEF TakeWriter, Goto
  <2>2. CASE Write(t) \/ Cancel(t)
    <3>1. PICK at \in {"waiting", "abandon", "over"} : task' = [task EXCEPT ![t] = at]
      BY <2>2 DEF Write, Cancel, Goto, Settle
    <3>2. writer' = IF writer = t THEN Nobody ELSE writer
      BY <1>0, <2>2 DEF Write, Cancel
    <3> QED
      BY <1>0, <3>1, <3>2
  <2>3. CASE \/ Subscribe(t) \/ BeginCall(t) \/ Register(t) \/ Recheck(t) \/ Await(t)
             \/ Timeout(t) \/ Abandon(t) \/ Finish(t)
    <3>1. PICK at : task' = [task EXCEPT ![t] = at] /\ at # "writing" /\ task[t] # "writing"
      BY <2>3 DEF Subscribe, BeginCall, Register, Recheck, Await, Timeout, Abandon, Finish, Goto, Settle
    <3>2. writer' = writer
      BY <2>3 DEF Subscribe, BeginCall, Register, Recheck, Await, Timeout, Abandon, Finish
    <3> QED
      BY <1>0, <3>1, <3>2
  <2> QED
    BY <1>1, <2>1, <2>2, <2>3 DEF Continue
<1>2. CASE ReadLoop \/ Browser \/ UNCHANGED vars
  BY <1>0, <1>2 DEF ReadLoop, ReadReply, Resolve, ReadEvent, Deliver, SetClosed, ClearPending,
     ClearSubscribers, Browser, BrowserReply, BrowserEvent, SocketEnds, vars, callers
<1> QED
  BY <1>1, <1>2 DEF Next

\* No call waits for a reply that nobody can deliver (cdp_ws.rs, call and
\* Demux::close): the second look at the flag catches what the reader's clear
\* has missed.  A call that returned left no entry behind.  And whoever has the
\* send half is writing, and so gives it back.
THEOREM EntriesMatch == Spec => []EntriesMatchCalls
<1>1. DemuxInv => WaiterHasSender
  BY DEF DemuxInv, TaskInv, HasSender, WaiterHasSender, Outstanding
<1>2. DemuxInv => ReturnedCallHasNoEntry
  BY DEF DemuxInv, TypeOK, DemuxTypeOK, TaskInv, Entry, ReturnedCallHasNoEntry
<1>3. Init => WriterHoldsSendHalf
  <2> SUFFICES ASSUME Init, NEW t \in Tasks PROVE (writer = t) <=> (task[t] = "writing")
    BY DEF WriterHoldsSendHalf
  <2>1. writer # t
    BY TaskAssumption DEF Init, Nobody
  <2>2. task[t] # "writing"
    BY DEF Init
  <2> QED
    BY <2>1, <2>2
<1>4. TypeOK /\ WriterHoldsSendHalf /\ [Next]_vars => WriterHoldsSendHalf'
  BY SendHalfNext
<1> QED
  BY <1>1, <1>2, <1>3, <1>4, TypeCorrect, DemuxCorrect, PTL DEF Spec, EntriesMatchCalls

\* Whoever still listens after the reader's last clear is told of the close by its
\* own command.
THEOREM StreamEnds == Spec => []StreamEndsWithSocket
<1>1. DemuxInv => StreamEndsWithSocket
  BY TaskAssumption
     DEF DemuxInv, TypeOK, DemuxTypeOK, TaskInv, Late, StreamEndsWithSocket
<1> QED
  BY <1>1, DemuxCorrect, PTL

-----------------------------------------------------------------------------
(* Events before replies.  Of d events everything is known: they have been   *)
(* delivered, and whoever subscribes has those that came after it.           *)

Early == {"new", "listening", "register", "recheck", "send", "writing"}

\* How far the reader has read: it may hold the next event.
Read(d) == IF reader.at = "deliver" THEN d + 1 ELSE d
InReader(d) == reader.at = "deliver" => reader.event = d + 1 /\ d + 1 \in 0..emitted

\* The events that the reader has not read are on the wire, in order, and a
\* reply goes before every event that the browser sent after it.
AllOnWire(r) ==
    \A e \in r + 1..emitted : \E i \in DOMAIN wire : wire[i].task = Nobody /\ wire[i].event = e
OnlyOnWire(r) ==
    \A i \in DOMAIN wire : wire[i].task = Nobody => wire[i].event \in r + 1..emitted
InOrder ==
    \A i, j \in DOMAIN wire : i < j /\ wire[j].task = Nobody =>
        IF wire[i].task = Nobody THEN wire[i].event < wire[j].event
                                 ELSE replied[wire[i].task] < wire[j].event

\* The queue of a task has no gap and begins with its subscription or earlier;
\* while the task is subscribed it ends with the last event delivered.
Queued(t) ==
    /\ task[t] = "new" => queue[t] = <<>> /\ t \notin subscribers
    /\ \A i \in 1..Len(queue[t]) : queue[t][i] = queue[t][1] + (i - 1)
    /\ queue[t] # <<>> => queue[t][1] <= since[t] + 1
Follows(t, d) ==
    t \in subscribers =>
        IF queue[t] = <<>> THEN d <= since[t] ELSE queue[t][1] + Len(queue[t]) = d + 1

Stream(d) == /\ InReader(d) /\ AllOnWire(Read(d)) /\ OnlyOnWire(Read(d)) /\ InOrder
             /\ \A t \in Listeners : Follows(t, d)

Subscribed(t) ==
    task[t] \notin {"new", "over"} /\ reader.at \in {"read", "resolve", "deliver"} => t \in subscribers

\* A command is answered once: until it is, there is no trace of a reply.
Resolving(t) == reader.at = "resolve" /\ reader.task = t
Silent(t) == /\ \A i \in DOMAIN wire : wire[i].task # t
             /\ ~Resolving(t) /\ answer[t] # "reply" /\ outcome[t] # "reply"
AnsweredOnce(t) == /\ task[t] \in Early => t \notin asked
                   /\ task[t] \in Early \/ t \in asked => Silent(t)
                   /\ replied[t] <= emitted

\* A reply that has been read, and that somebody waits for, has its events queued.
Covered(t) == \A e \in since[t] + 1..replied[t] : \E i \in DOMAIN queue[t] : queue[t][i] = e
RepliesCovered(t) ==
    \/ outcome[t] = "reply"
    \/ task[t] # "over" /\ (answer[t] = "reply" \/ Resolving(t))
    => Covered(t)

StreamInv ==
    /\ DemuxInv
    /\ \E d \in 0..emitted : Stream(d)
    /\ \A t \in Tasks : AnsweredOnce(t)
    /\ \A t \in Listeners : Queued(t) /\ Subscribed(t) /\ RepliesCovered(t)

LEMMA StreamInit == Init => StreamInv
<1> SUFFICES ASSUME Init PROVE StreamInv
  OBVIOUS
<1>1. reader.at = "read"
  BY DEF Init, Reader
<1>2. DOMAIN wire = {} /\ emitted = 0
  BY DEF Init
<1>3. Stream(0)
  BY <1>1, <1>2 DEF Init, Stream, InReader, AllOnWire, OnlyOnWire, InOrder, Follows, Read
<1>4. ASSUME NEW t \in Tasks PROVE AnsweredOnce(t)
  BY <1>1, <1>2, <1>4 DEF Init, AnsweredOnce, Silent, Resolving, Early
<1>5. ASSUME NEW t \in Listeners PROVE Queued(t) /\ Subscribed(t) /\ RepliesCovered(t)
  BY <1>1, <1>5, TaskAssumption DEF Init, Queued, Subscribed, RepliesCovered, Resolving
<1> QED
  BY <1>2, <1>3, <1>4, <1>5, InvInit DEF StreamInv

\* What StreamInv says, with the types the steps below need.
LEMMA StreamFacts ==
    ASSUME StreamInv
    PROVE  /\ TypeOK /\ Listeners \subseteq Tasks
           /\ CallerTypeOK /\ BrowserTypeOK /\ ReaderTypeOK
           /\ pending \subseteq Tasks /\ subscribers \subseteq Listeners
           /\ \A t \in Tasks : queue[t] \in Seq(0..MaxEvents)
           /\ queue \in [Tasks -> Seq(0..MaxEvents)]
           /\ emitted \in Nat /\ \A t \in Tasks : since[t] \in Nat /\ replied[t] \in Nat
           /\ InHand /\ \A t \in Tasks : TaskInv(t) /\ AnsweredOnce(t)
           /\ \A t \in Listeners : Queued(t) /\ Subscribed(t) /\ RepliesCovered(t)
           /\ Nobody \notin Tasks
<1>1. TypeOK /\ InHand /\ \A t \in Tasks : TaskInv(t) /\ AnsweredOnce(t)
  BY DEF StreamInv, DemuxInv
<1>2. CallerTypeOK /\ BrowserTypeOK /\ ReaderTypeOK
  BY <1>1 DEF TypeOK
<1>3. pending \subseteq Tasks /\ subscribers \subseteq Listeners /\ queue \in [Tasks -> Seq(0..MaxEvents)]
  BY <1>1 DEF TypeOK, DemuxTypeOK
<1>4. emitted \in Nat /\ \A t \in Tasks : since[t] \in Nat /\ replied[t] \in Nat
  <2>1. emitted \in 0..MaxEvents /\ 0..MaxEvents \subseteq Nat
    BY <1>2, EventAssumption DEF BrowserTypeOK
  <2>2. ASSUME NEW t \in Tasks PROVE since[t] \in 0..MaxEvents /\ replied[t] \in 0..MaxEvents
    BY <1>2, <2>2 DEF CallerTypeOK, BrowserTypeOK
  <2> QED
    BY <2>1, <2>2
<1>5. Listeners \subseteq Tasks /\ Nobody \notin Tasks
  BY TaskAssumption DEF Nobody
<1>6. \A t \in Listeners : Queued(t) /\ Subscribed(t) /\ RepliesCovered(t)
  BY DEF StreamInv
<1> QED
  BY <1>1, <1>2, <1>3, <1>4, <1>5, <1>6

TaskStep(t) == Subscribe(t) \/ BeginCall(t) \/ Continue(t) \/ Cancel(t) \/ Finish(t)

\* A step of a task leaves the stream and every other task alone.
LEMMA TaskFrame ==
    ASSUME TypeOK, NEW t \in Tasks, TaskStep(t)
    PROVE  /\ UNCHANGED <<wire, emitted, replied, queue, reader, answer>>
           /\ \A u \in Tasks \ {t} :
                  /\ task'[u] = task[u] /\ outcome'[u] = outcome[u] /\ since'[u] = since[u]
                  /\ u \in asked' <=> u \in asked
                  /\ u \in subscribers' <=> u \in subscribers
<1> USE DEF TypeOK, CallerTypeOK, Goto, Settle, callers, demux, browser
<1>1. CASE Subscribe(t) \/ BeginCall(t) \/ Cancel(t) \/ Finish(t)
  BY <1>1 DEF Subscribe, BeginCall, Cancel, Finish
<1>2. CASE Continue(t)
  <2>1. CASE Register(t) \/ Recheck(t) \/ TakeWriter(t) \/ Write(t)
    BY <2>1 DEF Register, Recheck, TakeWriter, Write
  <2>2. CASE Await(t) \/ Timeout(t) \/ Abandon(t)
    BY <2>2 DEF Await, Timeout, Abandon
  <2> QED
    BY <1>2, <2>1, <2>2 DEF Continue
<1> QED
  BY <1>1, <1>2 DEF TaskStep

\* A task that begins to listen: what it has not been sent yet lies ahead.
LEMMA StreamSubscribe ==
    ASSUME StreamInv, NEW t \in Tasks, Subscribe(t)
    PROVE  /\ AnsweredOnce(t)'
           /\ Queued(t)' /\ Subscribed(t)' /\ RepliesCovered(t)'
           /\ \A d \in 0..emitted : Follows(t, d)'
<1>1. /\ CallerTypeOK /\ queue[t] = <<>> /\ AnsweredOnce(t) /\ TaskInv(t) /\ InHand
      /\ t \in Listeners
  BY StreamFacts DEF Queued, Subscribe
<1>2. \A d \in 0..emitted : d <= emitted
  BY StreamFacts
<1> USE <1>1, TaskFrame, StreamFacts
    DEF Subscribe, TaskStep, Goto, CallerTypeOK
<1>3. AnsweredOnce(t)'
  BY DEF AnsweredOnce, Silent, Resolving, Early, browser
<1>4. queue'[t] = <<>> /\ task'[t] = "listening" /\ since'[t] = emitted /\ t \in subscribers'
  OBVIOUS
<1>5. Queued(t)' /\ Subscribed(t)'
  BY <1>4 DEF Queued, Subscribed
<1>6. RepliesCovered(t)'
  BY DEF RepliesCovered, TaskInv, Fresh, InHand, Unregistered, Resolving
<1>7. ASSUME NEW d \in 0..emitted PROVE Follows(t, d)'
  BY <1>7, <1>4, <1>2 DEF Follows
<1> QED
  BY <1>3, <1>5, <1>6, <1>7

\* What a call does keeps its queue and its subscription, and a call returns
\* "reply" only if it has been given one.
LEMMA StreamCall ==
    ASSUME StreamInv, NEW t \in Tasks,
           BeginCall(t) \/ Continue(t) \/ Cancel(t) \/ Finish(t)
    PROVE  /\ since' = since /\ subscribers' = subscribers
           /\ task'[t] # "new" /\ (t \in Listeners => task[t] # "new")
           /\ task[t] = "over" => task'[t] = "over"
           /\ outcome'[t] = "reply" =>
                  outcome[t] = "reply" \/ (task[t] = "waiting" /\ answer[t] = "reply")
           /\ AnsweredOnce(t)'
<1>0. CallerTypeOK /\ AnsweredOnce(t) /\ asked \subseteq Tasks
  BY StreamFacts DEF BrowserTypeOK
<1>f. UNCHANGED <<wire, emitted, replied, reader, answer>>
  BY StreamFacts, TaskFrame DEF TaskStep
<1> USE <1>0, <1>f DEF Goto, Settle, callers, demux, browser, CallerTypeOK, AnsweredOnce, Silent,
    Resolving, Early, Outstanding
<1>1. CASE BeginCall(t)
  BY <1>1 DEF BeginCall
<1>2. CASE Register(t) \/ Recheck(t)
  BY <1>2 DEF Register, Recheck
<1>3. CASE TakeWriter(t)
  BY <1>3 DEF TakeWriter
<1>4. CASE Write(t)
  BY <1>4 DEF Write
<1>5. CASE Await(t)
  BY <1>5 DEF Await
<1>6. CASE Timeout(t) \/ Abandon(t)
  BY <1>6 DEF Timeout, Abandon
<1>7. CASE Cancel(t)
  BY <1>7 DEF Cancel
<1>8. CASE Finish(t)
  BY <1>8 DEF Finish
<1> QED
  BY <1>1, <1>2, <1>3, <1>4, <1>5, <1>6, <1>7, <1>8 DEF Continue

\* The parts of StreamInv beside DemuxInv.
StreamParts ==
    /\ \E d \in 0..emitted : Stream(d)
    /\ \A t \in Tasks : AnsweredOnce(t)
    /\ \A t \in Listeners : Queued(t) /\ Subscribed(t) /\ RepliesCovered(t)

LEMMA StreamTask ==
    ASSUME StreamInv, NEW t \in Tasks, TaskStep(t)
    PROVE  StreamParts'
<1>f. /\ UNCHANGED <<wire, emitted, replied, queue, reader, answer>>
      /\ \A u \in Tasks \ {t} :
             /\ task'[u] = task[u] /\ outcome'[u] = outcome[u] /\ since'[u] = since[u]
             /\ u \in asked' <=> u \in asked
             /\ u \in subscribers' <=> u \in subscribers
  BY StreamFacts, TaskFrame
<1>a. ASSUME NEW u \in Tasks \ {t} PROVE AnsweredOnce(u)'
  BY <1>f, <1>a, StreamFacts DEF AnsweredOnce, Silent, Resolving
<1>b. ASSUME NEW u \in Listeners \ {t} PROVE Queued(u)' /\ Subscribed(u)' /\ RepliesCovered(u)'
  <2>1. /\ task'[u] = task[u] /\ outcome'[u] = outcome[u] /\ since'[u] = since[u]
        /\ u \in subscribers' <=> u \in subscribers
    BY <1>b, <1>f, StreamFacts
  <2>2. Queued(u) /\ Subscribed(u) /\ RepliesCovered(u)
    BY <1>b, StreamFacts
  <2> QED
    BY <1>f, <2>1, <2>2 DEF Queued, Subscribed, RepliesCovered, Resolving, Covered
<1>c. AnsweredOnce(t)'
  BY StreamSubscribe, StreamCall DEF TaskStep
<1>d. ASSUME t \in Listeners PROVE Queued(t)' /\ Subscribed(t)' /\ RepliesCovered(t)'
  <2>1. CASE Subscribe(t)
    BY <2>1, StreamSubscribe
  <2>2. CASE ~Subscribe(t)
    <3>1. /\ since' = since /\ subscribers' = subscribers
          /\ task'[t] # "new" /\ task[t] # "new"
          /\ task[t] = "over" => task'[t] = "over"
          /\ outcome'[t] = "reply" =>
                 outcome[t] = "reply" \/ (task[t] = "waiting" /\ answer[t] = "reply")
      BY <1>d, <2>2, StreamCall DEF TaskStep
    <3>2. Queued(t) /\ Subscribed(t) /\ RepliesCovered(t)
      BY <1>d, StreamFacts
    <3> QED
      BY <1>f, <3>1, <3>2 DEF Queued, Subscribed, RepliesCovered, Resolving, Covered
  <2> QED
    BY <2>1, <2>2
<1>e. PICK d \in 0..emitted : Stream(d)
  BY DEF StreamInv
<1>g. ASSUME NEW u \in Listeners PROVE Follows(u, d)'
  <2>1. CASE u = t /\ Subscribe(t)
    BY <2>1, <1>e, StreamSubscribe
  <2>2. CASE u # t \/ ~Subscribe(t)
    <3>1. since'[u] = since[u] /\ (u \in subscribers' <=> u \in subscribers)
      BY <1>f, <2>2, StreamCall, StreamFacts DEF TaskStep
    <3> QED
      BY <1>f, <1>e, <3>1 DEF Follows, Stream
  <2> QED
    BY <2>1, <2>2
<1>h. Stream(d)'
  BY <1>e, <1>f, <1>g DEF Stream, InReader, Read, AllOnWire, OnlyOnWire, InOrder
<1>i. d \in 0..emitted'
  BY <1>e, <1>f
<1> QED
  BY <1>a, <1>b, <1>c, <1>d, <1>h, <1>i DEF StreamParts

LEMMA WireAppend ==
    ASSUME NEW w \in Seq(Frame), NEW f \in Frame
    PROVE  /\ DOMAIN Append(w, f) = DOMAIN w \cup {Len(w) + 1}
           /\ Append(w, f)[Len(w) + 1] = f
           /\ \A i \in DOMAIN w : i \in 1..Len(w) /\ Append(w, f)[i] = w[i]
OBVIOUS

LEMMA WireTail ==
    ASSUME NEW w \in Seq(Frame), w # <<>>
    PROVE  /\ Head(w) = w[1] /\ 1 \in DOMAIN w
           /\ \A i \in DOMAIN Tail(w) : i \in Nat /\ i + 1 \in DOMAIN w /\ Tail(w)[i] = w[i + 1]
           /\ \A i \in DOMAIN w : i \in Nat /\ (i # 1 => i - 1 \in DOMAIN Tail(w) /\ Tail(w)[i - 1] = w[i])
OBVIOUS

\* A reply takes its place behind every event sent so far.
LEMMA StreamReply ==
    ASSUME StreamInv, NEW t \in Tasks, BrowserReply(t)
    PROVE  StreamParts'
<1>f. /\ UNCHANGED <<task, outcome, answer, subscribers, queue, reader, emitted, since>>
      /\ asked' = asked \ {t} /\ t \in asked
      /\ wire' = Append(wire, [task |-> t, event |-> 0])
      /\ replied'[t] = emitted /\ \A u \in Tasks \ {t} : replied'[u] = replied[u]
  BY StreamFacts DEF BrowserReply, callers, demux, BrowserTypeOK
<1>w. /\ DOMAIN wire' = DOMAIN wire \cup {Len(wire) + 1}
      /\ wire'[Len(wire) + 1] = [task |-> t, event |-> 0]
      /\ \A i \in DOMAIN wire : i \in 1..Len(wire) /\ wire'[i] = wire[i]
  <2>1. [task |-> t, event |-> 0] \in Frame /\ wire \in Seq(Frame)
    BY StreamFacts, EventAssumption DEF Frame, BrowserTypeOK
  <2> QED
    BY <1>f, <2>1, WireAppend
<1>s. Silent(t) /\ task[t] \notin Early /\ t # Nobody
  BY <1>f, StreamFacts DEF AnsweredOnce
<1>a. ASSUME NEW u \in Tasks PROVE AnsweredOnce(u)'
  BY <1>f, <1>w, <1>s, <1>a, StreamFacts DEF AnsweredOnce, Silent, Resolving
<1>b. ASSUME NEW u \in Listeners PROVE Queued(u)' /\ Subscribed(u)' /\ RepliesCovered(u)'
  <2>1. Queued(u)' /\ Subscribed(u)'
    BY <1>f, <1>b, StreamFacts DEF Queued, Subscribed
  <2>2. RepliesCovered(u)'
    <3>1. CASE u = t
      BY <1>f, <1>s, <3>1 DEF RepliesCovered, Silent, Resolving
    <3>2. CASE u # t
      <4>1. replied'[u] = replied[u]
        BY <1>f, <1>b, <3>2, StreamFacts
      <4>2. RepliesCovered(u)
        BY <1>b, StreamFacts
      <4> QED
        BY <1>f, <4>1, <4>2 DEF RepliesCovered, Covered, Resolving
    <3> QED
      BY <3>1, <3>2
  <2> QED
    BY <2>1, <2>2
<1>e. PICK d \in 0..emitted : Stream(d)
  BY DEF StreamInv
<1>1. AllOnWire(Read(d))'
  BY <1>e, <1>f, <1>w DEF Stream, AllOnWire, Read
<1>2. OnlyOnWire(Read(d))'
  BY <1>e, <1>f, <1>w, <1>s DEF Stream, OnlyOnWire, Read
<1>3. ASSUME NEW i \in DOMAIN wire', NEW j \in DOMAIN wire', i < j, wire'[j].task = Nobody
      PROVE  IF wire'[i].task = Nobody THEN wire'[i].event < wire'[j].event
                                       ELSE replied'[wire'[i].task] < wire'[j].event
  <2>1. j \in DOMAIN wire
    BY <1>w, <1>s, <1>3
  <2>2. i \in DOMAIN wire
    <3>1. wire \in Seq(Frame)
      BY StreamFacts DEF BrowserTypeOK
    <3> QED
      BY <1>w, <1>3, <2>1, <3>1
  <2>3. wire[i].task \in Tasks \cup {Nobody} /\ wire[i].task # t
    <3>1. wire[i] \in Frame
      BY <2>2, StreamFacts DEF BrowserTypeOK
    <3> QED
      BY <1>s, <2>2, <3>1 DEF Silent, Frame
  <2> QED
    BY <1>e, <1>f, <1>w, <1>3, <2>1, <2>2, <2>3 DEF Stream, InOrder
<1>4. InOrder'
  BY <1>3 DEF InOrder
<1>5. InReader(d)' /\ (\A u \in Listeners : Follows(u, d)') /\ d \in 0..emitted'
  BY <1>e, <1>f DEF Stream, InReader, Follows
<1>6. Stream(d)'
  BY <1>1, <1>2, <1>4, <1>5 DEF Stream
<1> QED
  BY <1>a, <1>b, <1>5, <1>6 DEF StreamParts

\* An event takes its place behind every reply.
LEMMA StreamEvent ==
    ASSUME StreamInv, BrowserEvent
    PROVE  StreamParts'
<1>f. /\ UNCHANGED <<task, outcome, answer, subscribers, queue, reader, asked, replied, since>>
      /\ emitted' = emitted + 1 /\ emitted' <= MaxEvents
      /\ wire' = Append(wire, [task |-> Nobody, event |-> emitted + 1])
  BY StreamFacts, EventAssumption DEF BrowserEvent, callers, demux
<1>w. /\ DOMAIN wire' = DOMAIN wire \cup {Len(wire) + 1}
      /\ wire'[Len(wire) + 1] = [task |-> Nobody, event |-> emitted + 1]
      /\ \A i \in DOMAIN wire : i \in 1..Len(wire) /\ wire'[i] = wire[i]
  <2>1. [task |-> Nobody, event |-> emitted + 1] \in Frame /\ wire \in Seq(Frame)
    BY <1>f, StreamFacts, EventAssumption DEF Frame, BrowserTypeOK
  <2> QED
    BY <1>f, <2>1, WireAppend
<1>a. ASSUME NEW u \in Tasks PROVE AnsweredOnce(u)'
  <2>1. u # Nobody /\ AnsweredOnce(u) /\ replied[u] \in Nat /\ emitted \in Nat
    BY <1>a, StreamFacts
  <2>2. Silent(u) => Silent(u)'
    BY <1>f, <1>w, <2>1 DEF Silent, Resolving
  <2> QED
    BY <1>f, <2>1, <2>2 DEF AnsweredOnce
<1>b. ASSUME NEW u \in Listeners PROVE Queued(u)' /\ Subscribed(u)' /\ RepliesCovered(u)'
  BY <1>f, <1>b, StreamFacts DEF Queued, Subscribed, RepliesCovered, Covered, Resolving
<1>e. PICK d \in 0..emitted : Stream(d)
  BY DEF StreamInv
<1>r. Read(d) \in 0..emitted /\ Read(d)' = Read(d) /\ emitted \in Nat
  BY <1>e, <1>f, StreamFacts DEF Stream, InReader, Read
<1>1. AllOnWire(Read(d))'
  <2>1. ASSUME NEW e \in Read(d) + 1..emitted + 1
        PROVE  \E i \in DOMAIN wire' : wire'[i].task = Nobody /\ wire'[i].event = e
    <3>1. CASE e = emitted + 1
      BY <1>w, <3>1
    <3>2. CASE e # emitted + 1
      <4>1. e \in Read(d) + 1..emitted
        BY <1>r, <2>1, <3>2
      <4> QED
        BY <1>e, <1>w, <4>1 DEF Stream, AllOnWire
    <3> QED
      BY <3>1, <3>2
  <2> QED
    BY <1>f, <1>r, <2>1 DEF AllOnWire
<1>2. OnlyOnWire(Read(d))'
  <2>1. ASSUME NEW i \in DOMAIN wire', wire'[i].task = Nobody
        PROVE  wire'[i].event \in Read(d) + 1..emitted + 1
    BY <1>e, <1>r, <1>w, <2>1 DEF Stream, OnlyOnWire
  <2> QED
    BY <1>f, <1>r, <2>1 DEF OnlyOnWire
<1>3. ASSUME NEW i \in DOMAIN wire', NEW j \in DOMAIN wire', i < j, wire'[j].task = Nobody
      PROVE  IF wire'[i].task = Nobody THEN wire'[i].event < wire'[j].event
                                       ELSE replied'[wire'[i].task] < wire'[j].event
  <2>0. wire \in Seq(Frame)
    BY StreamFacts DEF BrowserTypeOK
  <2>1. i \in DOMAIN wire
    BY <1>w, <1>3, <2>0
  <2>2. CASE j \in DOMAIN wire
    BY <1>e, <1>f, <1>w, <1>3, <2>1, <2>2 DEF Stream, InOrder
  <2>3. CASE j = Len(wire) + 1
    <3>1. wire'[j].event = emitted + 1 /\ wire'[i] = wire[i]
      BY <1>w, <2>1, <2>3
    <3>2. wire[i].task = Nobody => wire[i].event \in Read(d) + 1..emitted
      BY <1>e, <2>1 DEF Stream, OnlyOnWire
    <3>3. wire[i].task \in Tasks \cup {Nobody}
      <4>1. wire[i] \in Frame
        BY <2>0, <2>1
      <4> QED
        BY <4>1 DEF Frame
    <3>4. wire[i].task # Nobody => replied[wire[i].task] <= emitted /\ replied[wire[i].task] \in Nat
      BY <3>3, StreamFacts DEF AnsweredOnce
    <3> QED
      BY <1>f, <1>r, <3>1, <3>2, <3>4
  <2> QED
    BY <1>w, <1>3, <2>2, <2>3
<1>4. InOrder'
  BY <1>3 DEF InOrder
<1>5. InReader(d)' /\ (\A u \in Listeners : Follows(u, d)') /\ d \in 0..emitted'
  BY <1>e, <1>f, <1>r DEF Stream, InReader, Follows
<1>6. Stream(d)'
  BY <1>1, <1>2, <1>4, <1>5 DEF Stream
<1> QED
  BY <1>a, <1>b, <1>5, <1>6 DEF StreamParts

\* When a reply has been read, nothing that came before it is still to come.
LEMMA CoveredWhen ==
    ASSUME StreamInv, NEW t \in Listeners, t \in subscribers,
           NEW d \in Nat, Follows(t, d), replied[t] <= d
    PROVE  Covered(t)
<1>0. /\ Queued(t) /\ queue[t] \in Seq(0..MaxEvents)
      /\ since[t] \in Nat /\ replied[t] \in Nat
  BY StreamFacts
<1>1. CASE queue[t] = <<>>
  BY <1>0, <1>1 DEF Follows, Covered
<1>2. CASE queue[t] # <<>>
  <2>1. /\ 1 \in DOMAIN queue[t] /\ queue[t][1] \in Nat /\ Len(queue[t]) \in Nat
        /\ DOMAIN queue[t] = 1..Len(queue[t])
    BY <1>0, <1>2, EventAssumption
  <2>2. queue[t][1] + Len(queue[t]) = d + 1 /\ queue[t][1] <= since[t] + 1
    BY <1>0, <1>2 DEF Follows, Queued
  <2>3. ASSUME NEW e \in since[t] + 1..replied[t]
        PROVE  \E i \in DOMAIN queue[t] : queue[t][i] = e
    <3>1. e - queue[t][1] + 1 \in 1..Len(queue[t])
      BY <1>0, <2>1, <2>2, <2>3
    <3>2. queue[t][e - queue[t][1] + 1] = queue[t][1] + ((e - queue[t][1] + 1) - 1)
      BY <1>0, <3>1 DEF Queued
    <3> QED
      BY <1>0, <2>1, <2>3, <3>1, <3>2
  <2> QED
    BY <2>3 DEF Covered
<1> QED
  BY <1>1, <1>2

\* The reader takes a reply: what the browser sent before it has been delivered.
LEMMA StreamReadReply ==
    ASSUME StreamInv, ReadReply
    PROVE  StreamParts'
<1> DEFINE t == Head(wire).task
<1>f. /\ UNCHANGED <<task, outcome, answer, subscribers, queue, asked, emitted, replied, since>>
      /\ reader.at = "read" /\ wire # <<>> /\ t # Nobody /\ wire' = Tail(wire)
      /\ \/ reader'.at = "resolve" /\ reader'.task = t /\ t \in pending
         \/ reader'.at = "read"
  BY DEF ReadReply, Reader, callers
<1>s. wire \in Seq(Frame)
  BY StreamFacts DEF BrowserTypeOK
<1>w. /\ t = wire[1].task /\ 1 \in DOMAIN wire
      /\ \A i \in DOMAIN wire' : i \in Nat /\ i + 1 \in DOMAIN wire /\ wire'[i] = wire[i + 1]
      /\ \A i \in DOMAIN wire :
             i \in Nat /\ (i # 1 => i - 1 \in DOMAIN wire' /\ wire'[i - 1] = wire[i])
  BY <1>f, <1>s, WireTail
<1>t. t \in Tasks
  <2>1. wire[1] \in Frame
    BY <1>s, <1>w
  <2> QED
    BY <1>f, <1>w, <2>1 DEF Frame
<1>n. ~Silent(t)
  BY <1>w DEF Silent
<1>e. PICK d \in 0..emitted : Stream(d)
  BY DEF StreamInv
<1>r. Read(d) = d /\ Read(d)' = d
  BY <1>f DEF Read
<1>c. ASSUME t \in Listeners, reader'.at = "resolve", task[t] # "over" PROVE Covered(t)
  <2>1. t \in pending
    BY <1>f, <1>c
  <2>2. task[t] \notin {"new", "over"}
    BY <1>c, <1>t, <2>1, StreamFacts DEF TaskInv, Fresh, Unregistered
  <2>3. t \in subscribers
    BY <1>c, <1>f, <2>2, StreamFacts DEF Subscribed
  <2>4. replied[t] <= d
    <3> SUFFICES ASSUME replied[t] > d PROVE FALSE
      BY <1>t, StreamFacts
    <3>1. replied[t] \in d + 1..emitted
      BY <1>t, StreamFacts DEF AnsweredOnce
    <3>2. PICK i \in DOMAIN wire : wire[i].task = Nobody /\ wire[i].event = replied[t]
      BY <1>e, <1>r, <3>1 DEF Stream, AllOnWire
    <3>3. 1 < i
      BY <1>f, <1>s, <1>w, <3>2
    <3>4. replied[t] < wire[i].event
      BY <1>e, <1>f, <1>w, <3>2, <3>3 DEF Stream, InOrder
    <3> QED
      BY <1>t, <3>2, <3>4, StreamFacts
  <2> QED
    BY <1>c, <1>e, <2>3, <2>4, CoveredWhen DEF Stream
<1>a. ASSUME NEW u \in Tasks PROVE AnsweredOnce(u)'
  <2>1. Silent(u) => Silent(u)'
    BY <1>f, <1>w, <1>n DEF Silent, Resolving
  <2> QED
    BY <1>f, <2>1, StreamFacts DEF AnsweredOnce
<1>b. ASSUME NEW u \in Listeners PROVE Queued(u)' /\ Subscribed(u)' /\ RepliesCovered(u)'
  <2>1. Queued(u)' /\ Subscribed(u)'
    BY <1>f, <1>b, StreamFacts DEF Queued, Subscribed
  <2>2. RepliesCovered(u)'
    BY <1>b, <1>c, <1>f, StreamFacts DEF RepliesCovered, Covered, Resolving
  <2> QED
    BY <2>1, <2>2
<1>1. AllOnWire(d)'
  <2>1. ASSUME NEW e \in d + 1..emitted
        PROVE  \E i \in DOMAIN wire' : wire'[i].task = Nobody /\ wire'[i].event = e
    <3>1. PICK i \in DOMAIN wire : wire[i].task = Nobody /\ wire[i].event = e
      BY <1>e, <1>r DEF Stream, AllOnWire
    <3>2. i # 1
      BY <1>f, <1>w, <3>1
    <3> QED
      BY <1>w, <3>1, <3>2
  <2> QED
    BY <1>f, <2>1 DEF AllOnWire
<1>2. OnlyOnWire(d)'
  BY <1>e, <1>f, <1>r, <1>w DEF Stream, OnlyOnWire
<1>3. InOrder'
  BY <1>e, <1>f, <1>w DEF Stream, InOrder
<1>4. InReader(d)' /\ (\A u \in Listeners : Follows(u, d)') /\ d \in 0..emitted'
  BY <1>e, <1>f DEF Stream, InReader, Follows
<1>5. Stream(d)'
  BY <1>r, <1>1, <1>2, <1>3, <1>4 DEF Stream
<1> QED
  BY <1>a, <1>b, <1>4, <1>5 DEF StreamParts

\* The reader takes an event: it is the next one.
LEMMA StreamReadEvent ==
    ASSUME StreamInv, ReadEvent
    PROVE  StreamParts'
<1>f. /\ UNCHANGED <<task, outcome, answer, subscribers, queue, asked, emitted, replied, since>>
      /\ reader.at = "read" /\ wire # <<>> /\ Head(wire).task = Nobody /\ wire' = Tail(wire)
      /\ reader'.at = "deliver" /\ reader'.event = Head(wire).event
  BY DEF ReadEvent, Reader, callers
<1>s. wire \in Seq(Frame)
  BY StreamFacts DEF BrowserTypeOK
<1>w. /\ Head(wire) = wire[1] /\ 1 \in DOMAIN wire
      /\ \A i \in DOMAIN wire' : i \in Nat /\ i + 1 \in DOMAIN wire /\ wire'[i] = wire[i + 1]
      /\ \A i \in DOMAIN wire :
             i \in Nat /\ (i # 1 => i - 1 \in DOMAIN wire' /\ wire'[i - 1] = wire[i])
  BY <1>f, <1>s, WireTail
<1>e. PICK d \in 0..emitted : Stream(d)
  BY DEF StreamInv
<1>r. Read(d) = d /\ Read(d)' = d + 1 /\ emitted \in Nat
  BY <1>f, StreamFacts DEF Read
<1>h. wire[1].event \in d + 1..emitted
  BY <1>e, <1>f, <1>r, <1>w DEF Stream, OnlyOnWire
<1>l. ASSUME NEW j \in DOMAIN wire, j # 1, wire[j].task = Nobody
      PROVE  wire[1].event < wire[j].event
  <2>1. 1 < j
    BY <1>l, <1>s
  <2> QED
    BY <1>e, <1>f, <1>l, <1>w, <2>1 DEF Stream, InOrder
<1>n. wire[1].event = d + 1
  <2>1. d + 1 \in d + 1..emitted
    BY <1>e, <1>h, <1>r
  <2>2. PICK i \in DOMAIN wire : wire[i].task = Nobody /\ wire[i].event = d + 1
    BY <1>e, <1>r, <2>1 DEF Stream, AllOnWire
  <2>3. CASE i = 1
    BY <2>2, <2>3
  <2>4. CASE i # 1
    BY <1>e, <1>h, <1>l, <1>r, <2>2, <2>4
  <2> QED
    BY <2>3, <2>4
<1>a. ASSUME NEW u \in Tasks PROVE AnsweredOnce(u)'
  BY <1>a, <1>f, <1>w, StreamFacts DEF AnsweredOnce, Silent, Resolving
<1>b. ASSUME NEW u \in Listeners PROVE Queued(u)' /\ Subscribed(u)' /\ RepliesCovered(u)'
  BY <1>b, <1>f, StreamFacts DEF Queued, Subscribed, RepliesCovered, Covered, Resolving
<1>1. AllOnWire(d + 1)'
  <2>1. ASSUME NEW e \in d + 1 + 1..emitted
        PROVE  \E i \in DOMAIN wire' : wire'[i].task = Nobody /\ wire'[i].event = e
    <3>1. e \in d + 1..emitted /\ e # d + 1
      BY <1>e, <1>r
    <3>2. PICK i \in DOMAIN wire : wire[i].task = Nobody /\ wire[i].event = e
      BY <1>e, <1>r, <3>1 DEF Stream, AllOnWire
    <3>3. i # 1
      BY <1>n, <3>1, <3>2
    <3> QED
      BY <1>w, <3>2, <3>3
  <2> QED
    BY <1>f, <2>1 DEF AllOnWire
<1>2. OnlyOnWire(d + 1)'
  <2>1. ASSUME NEW i \in DOMAIN wire', wire'[i].task = Nobody
        PROVE  wire'[i].event \in d + 1 + 1..emitted
    <3>1. i + 1 \in DOMAIN wire /\ wire'[i] = wire[i + 1] /\ i \in Nat
      BY <1>w, <2>1
    <3>2. i + 1 # 1
      <4>1. DOMAIN wire' = 1..Len(wire')
        BY <1>f, <1>s
      <4> QED
        BY <2>1, <3>1, <4>1
    <3>3. wire[i + 1].event \in d + 1..emitted
      BY <1>e, <1>r, <2>1, <3>1 DEF Stream, OnlyOnWire
    <3>4. wire[1].event < wire[i + 1].event
      BY <1>l, <2>1, <3>1, <3>2
    <3> QED
      BY <1>e, <1>n, <1>r, <3>1, <3>3, <3>4
  <2> QED
    BY <1>f, <2>1 DEF OnlyOnWire
<1>3. InOrder'
  BY <1>e, <1>f, <1>w DEF Stream, InOrder
<1>4. InReader(d)' /\ (\A u \in Listeners : Follows(u, d)') /\ d \in 0..emitted'
  <2>1. d + 1 \in 0..emitted
    BY <1>e, <1>h, <1>r, <1>n
  <2> QED
    BY <1>e, <1>f, <1>n, <1>w, <2>1 DEF Stream, InReader, Follows
<1>5. Stream(d)'
  BY <1>r, <1>1, <1>2, <1>3, <1>4 DEF Stream
<1> QED
  BY <1>a, <1>b, <1>4, <1>5 DEF StreamParts

LEMMA QueueAppend ==
    ASSUME NEW q \in Seq(0..MaxEvents), NEW e \in Nat, q # <<>>
    PROVE  /\ Len(Append(q, e)) = Len(q) + 1 /\ Len(q) \in Nat
           /\ \A i \in 1..Len(q) : Append(q, e)[i] = q[i]
           /\ Append(q, e)[Len(q) + 1] = e
           /\ Append(q, e) # <<>> /\ Append(q, e)[1] = q[1] /\ q[1] \in Nat
           /\ DOMAIN q = 1..Len(q) /\ DOMAIN Append(q, e) = 1..Len(q) + 1
<1>1. q \in Seq(Nat)
  BY EventAssumption
<1> QED
  BY <1>1

\* It hands the event to whoever is subscribed.
LEMMA StreamDeliver ==
    ASSUME StreamInv, Deliver
    PROVE  StreamParts'
<1>f. /\ UNCHANGED <<task, outcome, answer, wire, asked, emitted, replied, since>>
      /\ reader.at = "deliver" /\ reader'.at = "read"
      /\ subscribers' = Recipients
      /\ queue' = [t \in Tasks |-> IF t \in Recipients THEN Append(queue[t], reader.event)
                                   ELSE queue[t]]
  BY DEF Deliver, Reader, callers, browser
<1>e. PICK d \in 0..emitted : Stream(d)
  BY DEF StreamInv
<1>r. Read(d) = d + 1 /\ Read(d + 1)' = d + 1 /\ reader.event = d + 1 /\ d + 1 \in 0..emitted
  BY <1>e, <1>f DEF Read, Stream, InReader
<1>a. ASSUME NEW u \in Tasks PROVE AnsweredOnce(u)'
  BY <1>a, <1>f, StreamFacts DEF AnsweredOnce, Silent, Resolving
<1>q. ASSUME NEW u \in Listeners PROVE Queued(u)' /\ Follows(u, d + 1)' /\ (Covered(u) => Covered(u)')
  <2>0. /\ u \in Tasks /\ queue[u] \in Seq(0..MaxEvents) /\ Queued(u) /\ Follows(u, d)
        /\ since[u] \in Nat /\ d \in Nat
    BY <1>e, <1>q, StreamFacts DEF Stream
  <2>1. CASE u \notin Recipients
    <3>1. queue'[u] = queue[u] /\ u \notin subscribers'
      BY <1>f, <2>0, <2>1
    <3> QED
      BY <1>f, <2>0, <3>1 DEF Queued, Follows, Covered
  <2>2. CASE u \in Recipients
    <3>1. queue'[u] = Append(queue[u], d + 1) /\ u \in subscribers /\ task[u] # "new"
      <4>1. task[u] # "new"
        BY <2>0, <2>2 DEF Recipients, Queued
      <4> QED
        BY <1>f, <1>r, <2>0, <2>2, <4>1 DEF Recipients
    <3>2. CASE queue[u] = <<>>
      <4>1. queue'[u] = <<d + 1>> /\ Len(queue'[u]) = 1 /\ queue'[u][1] = d + 1 /\ queue'[u] # <<>>
        BY <3>1, <3>2
      <4>2. d <= since[u] /\ since'[u] = since[u] /\ task'[u] # "new"
        BY <1>f, <2>0, <3>1, <3>2 DEF Follows
      <4>3. Queued(u)'
        BY <2>0, <4>1, <4>2 DEF Queued
      <4>4. Follows(u, d + 1)'
        BY <2>0, <4>1 DEF Follows
      <4>5. Covered(u) => Covered(u)'
        BY <1>f, <3>2 DEF Covered
      <4> QED
        BY <4>3, <4>4, <4>5
    <3>3. CASE queue[u] # <<>>
      <4>1. /\ Len(queue'[u]) = Len(queue[u]) + 1 /\ Len(queue[u]) \in Nat
            /\ \A i \in 1..Len(queue[u]) : queue'[u][i] = queue[u][i]
            /\ queue'[u][Len(queue[u]) + 1] = d + 1
            /\ queue'[u] # <<>> /\ queue'[u][1] = queue[u][1] /\ queue[u][1] \in Nat
            /\ DOMAIN queue[u] = 1..Len(queue[u]) /\ DOMAIN queue'[u] = 1..Len(queue[u]) + 1
        BY <1>r, <1>e, <2>0, <3>1, <3>3, StreamFacts, QueueAppend
      <4>2. queue[u][1] + Len(queue[u]) = d + 1
        BY <2>0, <3>1, <3>3 DEF Follows
      <4>3. Queued(u)'
        <5>1. \A i \in 1..Len(queue[u]) + 1 : queue'[u][i] = queue'[u][1] + (i - 1)
          <6>1. ASSUME NEW i \in 1..Len(queue[u]) PROVE queue'[u][i] = queue'[u][1] + (i - 1)
            BY <2>0, <4>1, <6>1 DEF Queued
          <6>2. queue'[u][Len(queue[u]) + 1] = queue'[u][1] + ((Len(queue[u]) + 1) - 1)
            BY <2>0, <4>1, <4>2
          <6> QED
            BY <4>1, <6>1, <6>2
        <5> QED
          BY <1>f, <2>0, <3>1, <3>3, <4>1, <5>1 DEF Queued
      <4>4. Follows(u, d + 1)'
        <5>1. queue'[u][1] + Len(queue'[u]) = d + 1 + 1
          BY <2>0, <4>1, <4>2
        <5> QED
          BY <4>1, <5>1 DEF Follows
      <4>5. Covered(u) => Covered(u)'
        <5> SUFFICES ASSUME Covered(u), NEW e \in since[u] + 1..replied[u]
                     PROVE  \E i \in DOMAIN queue'[u] : queue'[u][i] = e
          BY <1>f DEF Covered
        <5>1. PICK i \in 1..Len(queue[u]) : queue[u][i] = e
          BY <4>1 DEF Covered
        <5> QED
          BY <4>1, <5>1
      <4> QED
        BY <4>3, <4>4, <4>5
    <3> QED
      BY <3>2, <3>3
  <2> QED
    BY <2>1, <2>2
<1>b. ASSUME NEW u \in Listeners PROVE Subscribed(u)' /\ RepliesCovered(u)'
  BY <1>b, <1>f, <1>q, StreamFacts DEF Subscribed, RepliesCovered, Resolving, Recipients
<1>1. Stream(d + 1)'
  <2>1. AllOnWire(d + 1)' /\ OnlyOnWire(d + 1)' /\ InOrder'
    BY <1>e, <1>f, <1>r DEF Stream, AllOnWire, OnlyOnWire, InOrder
  <2>2. InReader(d + 1)'
    BY <1>f DEF InReader
  <2> QED
    BY <1>q, <1>r, <2>1, <2>2 DEF Stream
<1> QED
  BY <1>a, <1>b, <1>f, <1>q, <1>r, <1>1 DEF StreamParts

\* It hands over a reply, or closes.
LEMMA StreamResolveOrClose ==
    ASSUME StreamInv, Resolve \/ SetClosed \/ ClearPending \/ ClearSubscribers
    PROVE  StreamParts'
<1>f. /\ UNCHANGED <<task, outcome, queue, wire, asked, emitted, replied, since>>
      /\ reader.at # "deliver" /\ reader'.at \notin {"deliver", "resolve"}
      /\ reader.at = "resolve" => subscribers' = subscribers /\ reader'.at = "read"
      /\ reader.at # "resolve" => reader'.at \notin {"read", "resolve", "deliver"}
      /\ subscribers' \subseteq subscribers
      /\ \A u \in Tasks : answer'[u] = "reply" => answer[u] = "reply" \/ Resolving(u)
  <2>1. CASE Resolve
    BY <2>1, StreamFacts DEF Resolve, Reader, browser, CallerTypeOK, Resolving
  <2>2. CASE SetClosed
    BY <2>2 DEF SetClosed, Reader, browser, callers
  <2>3. CASE ClearPending
    BY <2>3 DEF ClearPending, Reader, browser
  <2>4. CASE ClearSubscribers
    BY <2>4 DEF ClearSubscribers, Reader, browser, callers
  <2> QED
    BY <2>1, <2>2, <2>3, <2>4
<1>a. ASSUME NEW u \in Tasks PROVE AnsweredOnce(u)'
  <2>1. Silent(u) => Silent(u)'
    BY <1>a, <1>f DEF Silent, Resolving
  <2> QED
    BY <1>a, <1>f, <2>1, StreamFacts DEF AnsweredOnce
<1>b. ASSUME NEW u \in Listeners PROVE Queued(u)' /\ Subscribed(u)' /\ RepliesCovered(u)'
  <2>1. Queued(u)' /\ Subscribed(u)'
    BY <1>b, <1>f, StreamFacts DEF Queued, Subscribed
  <2>2. u \in Tasks /\ RepliesCovered(u)
    BY <1>b, StreamFacts
  <2>3. RepliesCovered(u)'
    BY <1>f, <2>2 DEF RepliesCovered, Resolving, Covered
  <2> QED
    BY <2>1, <2>3
<1>e. PICK d \in 0..emitted : Stream(d)
  BY DEF StreamInv
<1>1. Stream(d)' /\ d \in 0..emitted'
  BY <1>e, <1>f DEF Stream, InReader, Read, AllOnWire, OnlyOnWire, InOrder, Follows
<1> QED
  BY <1>a, <1>b, <1>1 DEF StreamParts

LEMMA StreamNext == StreamInv /\ [Next]_vars => StreamInv'
<1> SUFFICES ASSUME StreamInv, [Next]_vars PROVE StreamInv'
  OBVIOUS
<1>1. DemuxInv'
  BY InvNext DEF StreamInv
<1>2. CASE UNCHANGED vars \/ SocketEnds
  <2>1. UNCHANGED <<callers, demux, wire, asked, emitted, replied, since>>
    BY <1>2 DEF vars, browser, SocketEnds
  <2>2. ASSUME NEW u \in Tasks PROVE AnsweredOnce(u)'
    BY <2>1, <2>2, StreamFacts DEF AnsweredOnce, Silent, Resolving, callers, demux
  <2>3. ASSUME NEW u \in Listeners PROVE Queued(u)' /\ Subscribed(u)' /\ RepliesCovered(u)'
    BY <2>1, <2>3, StreamFacts
       DEF Queued, Subscribed, RepliesCovered, Covered, Resolving, callers, demux
  <2>4. PICK d \in 0..emitted : Stream(d)
    BY DEF StreamInv
  <2>5. Stream(d)' /\ d \in 0..emitted'
    BY <2>1, <2>4 DEF Stream, InReader, Read, AllOnWire, OnlyOnWire, InOrder, Follows, demux
  <2> QED
    BY <1>1, <2>2, <2>3, <2>5 DEF StreamInv
<1>3. CASE Next /\ ~SocketEnds
  <2>1. StreamParts'
    BY <1>3, StreamTask, StreamReply, StreamEvent, StreamReadReply, StreamReadEvent,
       StreamDeliver, StreamResolveOrClose
       DEF Next, TaskStep, ReadLoop, Browser
  <2> QED
    BY <1>1, <2>1 DEF StreamInv, StreamParts
<1> QED
  BY <1>2, <1>3

\* When a call returns its reply, every event the browser sent before that reply
\* is already in the queue of a task that had subscribed, in order: one reader
\* takes frames from one socket, and delivers before it reads on (cdp_ws.rs).
THEOREM EventsFirst == Spec => []EventsPrecedeReply
<1>1. ASSUME StreamInv PROVE EventsPrecedeReply
  <2>1. ASSUME NEW t \in Listeners, NEW i \in 1..Len(queue[t]) - 1
        PROVE  queue[t][i + 1] = queue[t][i] + 1
    <3>1. queue[t] \in Seq(0..MaxEvents) /\ Queued(t)
      BY <1>1, StreamFacts
    <3>2. i \in 1..Len(queue[t]) /\ i + 1 \in 1..Len(queue[t]) /\ queue[t][1] \in Nat
      BY <3>1, EventAssumption
    <3>3. queue[t][i] = queue[t][1] + (i - 1) /\ queue[t][i + 1] = queue[t][1] + ((i + 1) - 1)
      BY <3>1, <3>2 DEF Queued
    <3> QED
      BY <3>2, <3>3
  <2>2. ASSUME NEW t \in Listeners, outcome[t] = "reply" PROVE Covered(t)
    BY <1>1, <2>2, StreamFacts DEF RepliesCovered
  <2> QED
    BY <2>1, <2>2 DEF EventsPrecedeReply, Covered
<1> QED
  BY <1>1, StreamInit, StreamNext, PTL DEF Spec

-----------------------------------------------------------------------------
(* A connection implements CommandExchange.                                  *)

\* What has been said of a command is true of it: an answer is the browser's, a
\* close is for good, what could not be sent was not asked, and before it is written
\* nothing has been said.
Truthful(t) ==
    /\ answer[t] = "reply" \/ outcome[t] = "reply" => t \in answered
    /\ answer[t] = "gone" \/ outcome[t] = "closed" => closed
    /\ outcome[t] = "send failed" => t \notin asked /\ t \notin answered
    /\ t \in asked => t \notin answered
    /\ task[t] \in Early => outcome[t] = "none" /\ t \notin asked /\ t \notin answered
    /\ task[t] = "waiting" => outcome[t] = "none"

\* So is what is on its way to somebody: a reply, or the news of the close.
ReaderTruthful ==
    /\ reader.at \in {"clear pending", "clear subscribers", "gone"} => closed
    /\ reader.at = "resolve" => reader.task \in answered
    /\ \A i \in DOMAIN wire : wire[i].task # Nobody => wire[i].task \in answered

ExchangeInv == TypeOK /\ ReaderTruthful /\ \A t \in Tasks : Truthful(t)

LEMMA ExchangeInvInit == Init => ExchangeInv
<1> SUFFICES ASSUME Init PROVE ExchangeInv
  OBVIOUS
<1>1. reader.at = "read" /\ DOMAIN wire = {}
  BY DEF Init, Reader
<1> QED
  BY <1>1, TypeInit DEF Init, ExchangeInv, ReaderTruthful, Truthful

\* A step of a task that settles nothing, or settles it truthfully.
LEMMA ExchangeMoved ==
    ASSUME ExchangeInv, NEW t \in Tasks, NEW at, NEW what,
           task' = [task EXCEPT ![t] = at], outcome' = [outcome EXCEPT ![t] = what],
           UNCHANGED <<answer, closed, reader, wire, answered>>,
           asked' \in {asked, asked \cup {t}}, t \in asked' => t \notin answered,
           what = "reply" => t \in answered, what = "closed" => closed,
           what = "send failed" => t \notin asked' /\ t \notin answered,
           at \in Early => task[t] \in Early /\ what = "none" /\ asked' = asked,
           at = "waiting" => what = "none"
    PROVE  ReaderTruthful' /\ \A u \in Tasks : Truthful(u)'
<1>1. ReaderTruthful'
  BY DEF ExchangeInv, ReaderTruthful
<1>2. ASSUME NEW u \in Tasks PROVE Truthful(u)'
  <2>1. Truthful(u)
    BY DEF ExchangeInv
  <2>2. CASE u = t
    <3>1. task'[u] = at /\ outcome'[u] = what
      BY <2>2 DEF ExchangeInv, TypeOK, CallerTypeOK
    <3> QED
      BY <2>1, <2>2, <3>1 DEF Truthful
  <2>3. CASE u # t
    <3>1. task'[u] = task[u] /\ outcome'[u] = outcome[u] /\ (u \in asked' <=> u \in asked)
      BY <2>3 DEF ExchangeInv, TypeOK, CallerTypeOK
    <3> QED
      BY <2>1, <3>1 DEF Truthful
  <2> QED
    BY <2>2, <2>3
<1> QED
  BY <1>1, <1>2

\* The same, and an outcome that is left alone.
LEMMA ExchangeGoes ==
    ASSUME ExchangeInv, NEW t \in Tasks, NEW at, task' = [task EXCEPT ![t] = at],
           UNCHANGED <<outcome, answer, closed, reader, wire, answered>>,
           asked' \in {asked, asked \cup {t}}, t \in asked' => t \notin answered,
           asked' = asked \/ outcome[t] = "none",
           at \in Early => task[t] \in Early /\ asked' = asked,
           at = "waiting" => task[t] = "writing"
    PROVE  ReaderTruthful' /\ \A u \in Tasks : Truthful(u)'
<1>1. outcome' = [outcome EXCEPT ![t] = outcome[t]]
  BY DEF ExchangeInv, TypeOK, CallerTypeOK
<1>2. Truthful(t)
  BY DEF ExchangeInv
<1> QED
  BY <1>1, <1>2, ExchangeMoved DEF Truthful, Early

LEMMA ExchangeTask ==
    ASSUME ExchangeInv, NEW t \in Tasks,
           Subscribe(t) \/ BeginCall(t) \/ Continue(t) \/ Cancel(t) \/ Finish(t)
    PROVE  ReaderTruthful' /\ \A u \in Tasks : Truthful(u)'
<1>0. Truthful(t) /\ ReaderTruthful
  BY DEF ExchangeInv
<1> USE DEF Goto, Settle, callers, demux, browser
<1>1. CASE Subscribe(t) \/ Register(t) \/ TakeWriter(t) \/ Abandon(t) \/ Finish(t)
  <2>1. PICK at : /\ task' = [task EXCEPT ![t] = at]
                  /\ at \in Early => task[t] \in Early
                  /\ at # "waiting"
    BY <1>1 DEF Subscribe, Register, TakeWriter, Abandon, Finish, Early
  <2>2. UNCHANGED <<outcome, answer, closed, reader, wire, asked, answered>>
    BY <1>1 DEF Subscribe, Register, TakeWriter, Abandon, Finish
  <2> QED
    BY <1>0, <2>1, <2>2, ExchangeGoes DEF Truthful
<1>2. CASE BeginCall(t) \/ Recheck(t)
  <2>1. task[t] \in Early /\ UNCHANGED <<answer, closed, reader, wire, asked, answered>>
    BY <1>2 DEF BeginCall, Recheck, Early
  <2>2. CASE closed
    <3>1. PICK at \in {"returned", "abandon"} :
              task' = [task EXCEPT ![t] = at] /\ outcome' = [outcome EXCEPT ![t] = "closed"]
      BY <1>2, <2>2 DEF BeginCall, Recheck
    <3>2. at \notin Early
      BY DEF Early
    <3> QED
      BY <1>0, <2>1, <2>2, <3>1, <3>2, ExchangeMoved DEF Truthful
  <2>3. CASE ~closed
    <3>1. PICK at \in {"register", "send"} : task' = [task EXCEPT ![t] = at] /\ outcome' = outcome
      BY <1>2, <2>3 DEF BeginCall, Recheck
    <3> QED
      BY <1>0, <2>1, <3>1, ExchangeGoes DEF Truthful
  <2> QED
    BY <2>2, <2>3
<1>3. CASE Write(t)
  <2>1. /\ task[t] \in Early /\ task[t] = "writing"
        /\ UNCHANGED <<answer, closed, reader, wire, answered>>
        /\ asked' \in {asked, asked \cup {t}}
    BY <1>3 DEF Write, Early
  <2>2. "waiting" \notin Early /\ "abandon" \notin Early
    BY DEF Early
  <2>3. CASE task' = [task EXCEPT ![t] = "waiting"] /\ outcome' = outcome
    BY <1>0, <2>1, <2>2, <2>3, ExchangeGoes DEF Truthful
  <2>4. CASE /\ task' = [task EXCEPT ![t] = "abandon"] /\ asked' = asked
             /\ outcome' = [outcome EXCEPT ![t] = "send failed"]
    BY <1>0, <2>1, <2>2, <2>4, ExchangeMoved DEF Truthful
  <2> QED
    BY <1>3, <2>3, <2>4 DEF Write
<1>4. CASE Await(t)
  <2>1. PICK what \in {"reply", "closed"} :
            /\ task' = [task EXCEPT ![t] = "returned"] /\ outcome' = [outcome EXCEPT ![t] = what]
            /\ what = "reply" => answer[t] = "reply"
            /\ what = "closed" => answer[t] = "gone"
    <3>1. answer[t] \in {"reply", "gone"}
      BY <1>4 DEF Await, ExchangeInv, TypeOK, CallerTypeOK
    <3> QED
      BY <1>4, <3>1 DEF Await
  <2>2. "returned" \notin Early /\ UNCHANGED <<answer, closed, reader, wire, asked, answered>>
    BY <1>4 DEF Await, Early
  <2> QED
    BY <1>0, <2>1, <2>2, ExchangeMoved DEF Truthful
<1>5. CASE Timeout(t)
  <2>1. "abandon" \notin Early /\ UNCHANGED <<answer, closed, reader, wire, asked, answered>>
    BY <1>5 DEF Timeout, Early
  <2> QED
    BY <1>0, <1>5, <2>1, ExchangeMoved DEF Truthful, Timeout
<1>6. CASE Cancel(t)
  <2>1. /\ "over" \notin Early /\ UNCHANGED <<answer, closed, reader, wire, answered>>
        /\ asked' \in {asked, asked \cup {t}}
        /\ asked' # asked => task[t] = "writing"
    BY <1>6 DEF Cancel, Early
  <2>2. t \in asked' => t \notin answered
    BY <1>0, <2>1 DEF Truthful, Early
  <2> QED
    BY <1>6, <2>1, <2>2, ExchangeMoved DEF Cancel
<1> QED
  BY <1>1, <1>2, <1>3, <1>4, <1>5, <1>6 DEF Continue

LEMMA ExchangeReader ==
    ASSUME ExchangeInv, ReadLoop
    PROVE  ReaderTruthful' /\ \A u \in Tasks : Truthful(u)'
<1>0. ReaderTruthful /\ wire \in Seq(Frame) /\ \A u \in Tasks : Truthful(u)
  BY DEF ExchangeInv, TypeOK, BrowserTypeOK
<1> USE DEF callers, demux, browser
<1>1. CASE ReadReply \/ ReadEvent
  <2>1. /\ wire # <<>> /\ wire' = Tail(wire)
        /\ UNCHANGED <<task, outcome, answer, closed, asked, answered>>
    BY <1>1 DEF ReadReply, ReadEvent
  <2>2. \A i \in DOMAIN wire' : i + 1 \in DOMAIN wire /\ wire'[i] = wire[i + 1]
    BY <1>0, <2>1
  <2>3. 1 \in DOMAIN wire /\ Head(wire) = wire[1]
    BY <1>0, <2>1
  <2>4. reader.at = "read" /\ reader'.at \in {"read", "resolve", "deliver"}
    BY <1>1 DEF ReadReply, ReadEvent, Reader
  <2>5. reader'.at = "resolve" => reader'.task = Head(wire).task /\ Head(wire).task # Nobody
    BY <1>1 DEF ReadReply, ReadEvent, Reader
  <2>6. ReaderTruthful'
    BY <1>0, <2>1, <2>2, <2>3, <2>4, <2>5 DEF ReaderTruthful
  <2> QED
    BY <1>0, <2>1, <2>6 DEF Truthful
<1>2. CASE Resolve
  <2>1. ReaderTruthful'
    BY <1>0, <1>2 DEF Resolve, Reader, ReaderTruthful
  <2>2. ASSUME NEW u \in Tasks PROVE Truthful(u)'
    <3>1. reader.task \in answered /\ (answer'[u] = answer[u] \/ (answer'[u] = "reply" /\ u = reader.task))
      BY <1>0, <1>2 DEF Resolve, ReaderTruthful, ExchangeInv, TypeOK, CallerTypeOK
    <3> QED
      BY <1>0, <1>2, <3>1 DEF Resolve, Truthful
  <2> QED
    BY <2>1, <2>2
<1>3. CASE Deliver
  <2>1. ReaderTruthful'
    BY <1>0, <1>3 DEF Deliver, Reader, ReaderTruthful
  <2> QED
    BY <1>0, <1>3, <2>1 DEF Deliver, Truthful
<1>4. CASE SetClosed \/ ClearSubscribers
  <2>1. ReaderTruthful'
    <3>1. CASE SetClosed
      BY <1>0, <3>1 DEF SetClosed, Reader, ReaderTruthful
    <3>2. CASE ClearSubscribers
      BY <1>0, <3>2 DEF ClearSubscribers, Reader, ReaderTruthful
    <3> QED
      BY <1>4, <3>1, <3>2
  <2>2. UNCHANGED <<task, outcome, answer, asked, answered>>
    BY <1>4 DEF SetClosed, ClearSubscribers
  <2>3. closed => closed'
    <3>1. CASE SetClosed
      BY <3>1 DEF SetClosed
    <3>2. CASE ClearSubscribers
      BY <3>2 DEF ClearSubscribers
    <3> QED
      BY <1>4, <3>1, <3>2
  <2>4. ASSUME NEW u \in Tasks PROVE Truthful(u)'
    BY <1>0, <2>2, <2>3 DEF Truthful
  <2> QED
    BY <2>1, <2>4
<1>5. CASE ClearPending
  <2>1. ReaderTruthful' /\ closed /\ closed'
    BY <1>0, <1>5 DEF ClearPending, Reader, ReaderTruthful
  <2>2. ASSUME NEW u \in Tasks PROVE Truthful(u)'
    <3>1. answer'[u] = answer[u] \/ answer'[u] = "gone"
      BY <1>5 DEF ClearPending
    <3> QED
      BY <1>0, <1>5, <2>1, <3>1 DEF ClearPending, Truthful
  <2> QED
    BY <2>1, <2>2
<1> QED
  BY <1>1, <1>2, <1>3, <1>4, <1>5 DEF ReadLoop

LEMMA ExchangeBrowser ==
    ASSUME ExchangeInv, Browser
    PROVE  ReaderTruthful' /\ \A u \in Tasks : Truthful(u)'
<1>0. ReaderTruthful /\ wire \in Seq(Frame) /\ \A u \in Tasks : Truthful(u)
  BY DEF ExchangeInv, TypeOK, BrowserTypeOK
<1> USE DEF callers, demux, browser
<1>1. ASSUME NEW t \in Tasks, BrowserReply(t)
      PROVE  ReaderTruthful' /\ \A u \in Tasks : Truthful(u)'
  <2>1. /\ answered' = answered \cup {t} /\ asked' = asked \ {t} /\ t \in asked
        /\ UNCHANGED <<task, outcome, answer, closed, reader>>
    BY <1>1 DEF BrowserReply
  <2>2. \A i \in DOMAIN wire' : wire'[i].task = t \/ (i \in DOMAIN wire /\ wire'[i] = wire[i])
    <3> DEFINE m == [task |-> t, event |-> 0]
    <3>1. m \in Frame /\ wire' = Append(wire, m)
      BY <1>1, EventAssumption DEF BrowserReply, Frame
    <3> QED
      BY <1>0, <3>1
  <2>3. ReaderTruthful'
    BY <1>0, <2>1, <2>2 DEF ReaderTruthful
  <2>4. ASSUME NEW u \in Tasks PROVE Truthful(u)'
    BY <1>0, <2>1 DEF Truthful
  <2> QED
    BY <2>3, <2>4
<1>2. CASE BrowserEvent
  <2>1. UNCHANGED <<task, outcome, answer, closed, reader, asked, answered, up>>
    BY <1>2 DEF BrowserEvent
  <2>2. \A i \in DOMAIN wire' : wire'[i].task = Nobody \/ (i \in DOMAIN wire /\ wire'[i] = wire[i])
    <3> DEFINE m == [task |-> Nobody, event |-> emitted']
    <3>1. m \in Frame /\ wire' = Append(wire, m)
      BY <1>2, EventAssumption DEF BrowserEvent, Frame, ExchangeInv, TypeOK, BrowserTypeOK
    <3> QED
      BY <1>0, <3>1
  <2>3. ReaderTruthful'
    BY <1>0, <2>1, <2>2 DEF ReaderTruthful
  <2> QED
    BY <1>0, <2>1, <2>3 DEF Truthful
<1>3. CASE SocketEnds
  <2>1. ReaderTruthful'
    BY <1>0, <1>3 DEF SocketEnds, ReaderTruthful
  <2> QED
    BY <1>0, <1>3, <2>1 DEF SocketEnds, Truthful
<1> QED
  BY <1>1, <1>2, <1>3 DEF Browser

LEMMA ExchangeNext == ExchangeInv /\ [Next]_vars => ExchangeInv'
<1> SUFFICES ASSUME ExchangeInv, [Next]_vars PROVE ExchangeInv'
  OBVIOUS
<1>1. TypeOK'
  BY TypeNext DEF ExchangeInv
<1>2. CASE UNCHANGED vars
  BY <1>1, <1>2 DEF ExchangeInv, ReaderTruthful, Truthful, vars, callers, demux, browser
<1>3. CASE Next
  BY <1>1, <1>3, ExchangeTask, ExchangeReader, ExchangeBrowser DEF Next, ExchangeInv
<1> QED
  BY <1>2, <1>3

StateMap == [t \in Tasks |-> State(t)]

LEMMA ExchangeInit == Init => Exchange!Init
BY DEF Init, Exchange!Init, State

\* A call returns.
LEMMA ExchangeSettles ==
    ASSUME TypeOK, NEW t \in Tasks, NEW at, NEW what, what # "none",
           task' = [task EXCEPT ![t] = at], outcome' = [outcome EXCEPT ![t] = what],
           UNCHANGED <<answered, closed>>
    PROVE  Exchange!To(t, what)
<1>1. StateMap' = [StateMap EXCEPT ![t] = what]
  <2>1. ASSUME NEW u \in Tasks, u # t PROVE State(u)' = State(u)
    BY <2>1 DEF State, TypeOK, CallerTypeOK
  <2>2. State(t)' = what
    BY DEF State, TypeOK, CallerTypeOK
  <2> QED
    BY <2>1, <2>2 DEF StateMap
<1> QED
  BY <1>1 DEF Exchange!To, StateMap

\* A call goes on; what it is to its caller may stay the same.
LEMMA ExchangeStays ==
    ASSUME TypeOK, NEW t \in Tasks, NEW at, task' = [task EXCEPT ![t] = at],
           outcome' = outcome,
           task[t] \in {"new", "listening"} <=> at \in {"new", "listening"}
    PROVE  StateMap' = StateMap
<1>1. ASSUME NEW u \in Tasks PROVE State(u)' = State(u)
  BY <1>1 DEF State, TypeOK, CallerTypeOK
<1> QED
  BY <1>1 DEF StateMap

LEMMA ExchangeTaskStep ==
    ASSUME ExchangeInv, NEW t \in Tasks,
           Subscribe(t) \/ BeginCall(t) \/ Continue(t) \/ Cancel(t) \/ Finish(t)
    PROVE  Exchange!Next \/ UNCHANGED <<StateMap, answered, closed>>
<1>0. TypeOK /\ Truthful(t) /\ ReaderTruthful /\ StateMap[t] = State(t)
  BY DEF ExchangeInv, StateMap
<1>1. UNCHANGED <<answered, closed>>
  BY DEF Subscribe, BeginCall, Continue, Register, Recheck, TakeWriter, Write, Await, Timeout,
     Abandon, Cancel, Finish, browser, demux
<1> USE DEF Goto, Settle
<1>2. CASE Subscribe(t) \/ Register(t) \/ TakeWriter(t) \/ Abandon(t) \/ Finish(t)
  <2>1. PICK at : /\ task' = [task EXCEPT ![t] = at] /\ outcome' = outcome
                  /\ task[t] \in {"new", "listening"} <=> at \in {"new", "listening"}
    BY <1>2 DEF Subscribe, Register, TakeWriter, Abandon, Finish
  <2> QED
    BY <1>0, <1>1, <2>1, ExchangeStays
<1>3. CASE BeginCall(t)
  <2>1. State(t) = "idle"
    BY <1>0, <1>3 DEF BeginCall, Truthful, State, Early
  <2>2. CASE closed
    <3>1. closed /\ Exchange!To(t, "closed")
      BY <1>0, <1>1, <1>3, <2>2, ExchangeSettles DEF BeginCall, ReaderTruthful
    <3>2. Exchange!Lose(t)
      BY <1>0, <2>1, <3>1 DEF Exchange!Lose, StateMap
    <3> QED
      BY <3>2 DEF Exchange!Next
  <2>3. CASE ~closed
    <3>1. task' = [task EXCEPT ![t] = "register"] /\ outcome' = outcome /\ outcome[t] = "none"
      BY <1>0, <1>3, <2>3 DEF BeginCall, Truthful, Early
    <3>2. StateMap' = [StateMap EXCEPT ![t] = "open"]
      <4>1. ASSUME NEW u \in Tasks, u # t PROVE State(u)' = State(u)
        BY <1>0, <3>1, <4>1 DEF State, TypeOK, CallerTypeOK
      <4>2. State(t)' = "open"
        BY <1>0, <3>1 DEF State, TypeOK, CallerTypeOK
      <4> QED
        BY <4>1, <4>2 DEF StateMap
    <3>3. Exchange!Issue(t)
      BY <1>0, <1>1, <2>1, <2>3, <3>2 DEF Exchange!Issue, Exchange!To, StateMap
    <3> QED
      BY <3>3 DEF Exchange!Next
  <2> QED
    BY <2>2, <2>3
<1>4. CASE Recheck(t)
  <2>1. State(t) = "open"
    BY <1>0, <1>4 DEF Recheck, Truthful, State, Early
  <2>2. CASE closed
    <3>1. closed /\ Exchange!To(t, "closed")
      BY <1>0, <1>1, <1>4, <2>2, ExchangeSettles DEF Recheck, ReaderTruthful
    <3>2. Exchange!Lose(t)
      BY <1>0, <2>1, <3>1 DEF Exchange!Lose, StateMap
    <3> QED
      BY <3>2 DEF Exchange!Next
  <2>3. CASE ~closed
    BY <1>0, <1>1, <1>4, <2>3, ExchangeStays DEF Recheck
  <2> QED
    BY <2>2, <2>3
<1>5. CASE Write(t)
  <2>1. State(t) = "open" /\ t \notin answered
    BY <1>0, <1>5 DEF Write, Truthful, State, Early
  <2>2. CASE task' = [task EXCEPT ![t] = "waiting"] /\ outcome' = outcome
    BY <1>0, <1>1, <1>5, <2>2, ExchangeStays DEF Write
  <2>3. CASE /\ task' = [task EXCEPT ![t] = "abandon"]
             /\ outcome' = [outcome EXCEPT ![t] = "send failed"]
    <3>1. Exchange!To(t, "send failed")
      BY <1>0, <1>1, <2>3, ExchangeSettles
    <3>2. Exchange!Unsent(t)
      BY <1>0, <2>1, <2>3, <3>1 DEF Exchange!Unsent, StateMap
    <3> QED
      BY <3>2 DEF Exchange!Next
  <2> QED
    BY <1>5, <2>2, <2>3 DEF Write
<1>6. CASE Await(t)
  <2>1. State(t) = "open"
    BY <1>0, <1>6 DEF Await, Truthful, State
  <2>2. CASE answer[t] = "reply"
    <3>1. t \in answered /\ Exchange!To(t, "reply")
      BY <1>0, <1>1, <1>6, <2>2, ExchangeSettles DEF Await, Truthful
    <3>2. Exchange!Result(t)
      BY <1>0, <2>1, <3>1 DEF Exchange!Result, StateMap
    <3> QED
      BY <3>2 DEF Exchange!Next
  <2>3. CASE answer[t] = "gone"
    <3>1. closed /\ Exchange!To(t, "closed")
      BY <1>0, <1>1, <1>6, <2>3, ExchangeSettles DEF Await, Truthful
    <3>2. Exchange!Lose(t)
      BY <1>0, <2>1, <3>1 DEF Exchange!Lose, StateMap
    <3> QED
      BY <3>2 DEF Exchange!Next
  <2> QED
    BY <1>0, <1>6, <2>2, <2>3 DEF Await, TypeOK, CallerTypeOK
<1>7. CASE Timeout(t) \/ Cancel(t)
  <2>1. State(t) = "open"
    BY <1>0, <1>7 DEF Timeout, Cancel, Truthful, State, Early
  <2>2. PICK what \in {"timeout", "cancelled"} : Exchange!To(t, what)
    BY <1>0, <1>1, <1>7, ExchangeSettles DEF Timeout, Cancel
  <2>3. Exchange!GiveUp(t)
    BY <1>0, <2>1, <2>2 DEF Exchange!GiveUp, StateMap
  <2> QED
    BY <2>3 DEF Exchange!Next
<1> QED
  BY <1>2, <1>3, <1>4, <1>5, <1>6, <1>7 DEF Continue

LEMMA ExchangeBrowserStep ==
    ASSUME ExchangeInv, Browser
    PROVE  Exchange!Next \/ UNCHANGED <<StateMap, answered, closed>>
<1>1. StateMap' = StateMap
  BY DEF Browser, BrowserReply, BrowserEvent, SocketEnds, callers, StateMap, State
<1>2. ASSUME NEW t \in Tasks, BrowserReply(t) PROVE Exchange!Answer(t)
  <2>1. t \in asked /\ Truthful(t)
    BY <1>2 DEF BrowserReply, ExchangeInv
  <2>2. t \notin answered /\ outcome[t] \in {"none", "timeout", "cancelled", "closed"} /\ task[t] \notin Early
    BY <2>1 DEF Truthful, ExchangeInv, TypeOK, CallerTypeOK
  <2>3. State(t) \in {"open", "timeout", "cancelled", "closed"}
    BY <2>2 DEF State, Early
  <2> QED
    BY <1>1, <1>2, <2>2, <2>3 DEF BrowserReply, Exchange!Answer, StateMap, demux
<1>3. CASE BrowserEvent \/ SocketEnds
  BY <1>1, <1>3 DEF BrowserEvent, SocketEnds, demux
<1> QED
  BY <1>2, <1>3 DEF Browser, Exchange!Next

LEMMA ExchangeStep ==
    ASSUME ExchangeInv, [Next]_vars
    PROVE  Exchange!Next \/ UNCHANGED <<StateMap, answered, closed>>
<1>1. CASE (ReadLoop /\ ~SetClosed) \/ UNCHANGED vars
  BY <1>1 DEF ReadLoop, ReadReply, Resolve, ReadEvent, Deliver, ClearPending,
     ClearSubscribers, vars, callers, demux, browser, StateMap, State
<1>2. CASE SetClosed
  <2>1. StateMap' = StateMap /\ answered' = answered /\ closed' = TRUE
    BY <1>2 DEF SetClosed, callers, browser, StateMap, State
  <2>2. closed \in BOOLEAN
    BY DEF ExchangeInv, TypeOK, DemuxTypeOK
  <2> QED
    BY <2>1, <2>2 DEF Exchange!Next, Exchange!Close, StateMap
<1> QED
  BY <1>1, <1>2, ExchangeTaskStep, ExchangeBrowserStep DEF Next

\* A command returns once, with the browser's answer to it or an error that is true:
\* a closed connection is closed for good, though the socket may be up, and an unsent
\* command is never answered (cdp_ws.rs 359-408),
\* for any number of commands whose replies, deadlines and the close race each other.
THEOREM Implements == Spec => ImplementsExchange
<1>1. ExchangeInv /\ [Next]_vars
          => [Exchange!Next]_<<[t \in Tasks |-> State(t)], answered, closed>>
  BY ExchangeStep DEF StateMap
<1> QED
  BY <1>1, ExchangeInit, ExchangeInvInit, ExchangeNext, PTL
     DEF Spec, ImplementsExchange, Exchange!Spec
=============================================================================
