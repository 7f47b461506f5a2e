--------------------------- MODULE CdpConnection ---------------------------
(* One browser-endpoint connection, cua-driver-core/src/browser/cdp_ws.rs:   *)
(* a reader task owns the receive half of the socket, hands replies to the   *)
(* calls that wait for them and fans events out to subscribers; calls share  *)
(* the send half.  The callers, the reader and the browser run concurrently; *)
(* one action is what one of them does under one lock, or between two awaits.*)
(*                                                                           *)
(* A task issues one command and is its own message id: next_id never repeats*)
(* within a connection.  The listeners are the tasks that subscribe first,   *)
(* as downloads and frame discovery do.  Dialog bookkeeping is left out.     *)
EXTENDS Naturals, Sequences

CONSTANTS
    Tasks,      \* commands, by message id
    Listeners,  \* tasks that subscribe to events before their command
    MaxEvents   \* bound: unsolicited events the browser sends

ASSUME TaskAssumption == Listeners \subseteq Tasks /\ "nobody" \notin Tasks
ASSUME EventAssumption == MaxEvents \in Nat

Nobody == "nobody"

VARIABLES
    task,        \* where each task is
    outcome,     \* what its call returned
    answer,      \* its oneshot channel: empty, a reply, or its sender dropped
    pending,     \* Demux.pending: commands whose sender the demultiplexer holds
    subscribers, \* Demux.subscribers: tasks whose event sender it holds
    queue,       \* the events each task has received
    closed,      \* Demux.closed
    reader,      \* read_loop: where it is, and the frame it holds
    writer,      \* the task that holds the send half
    wire,        \* frames on their way from the browser
    asked,       \* browser: commands it has not answered
    answered,    \* browser: commands it has answered
    emitted,     \* browser: events sent so far
    up,          \* the socket is open
    since,       \* history: events emitted when the task subscribed
    replied      \* history: events emitted when the browser answered

Reader(at, t, e) == [at |-> at, task |-> t, event |-> e]

callers == <<task, outcome, answer>>
demux   == <<pending, subscribers, queue, closed, reader>>
browser == <<wire, asked, answered, emitted, up, replied>>
vars    == <<callers, demux, writer, browser, since>>

Init ==
    /\ task    = [t \in Tasks |-> "new"]
    /\ outcome = [t \in Tasks |-> "none"]
    /\ answer  = [t \in Tasks |-> "empty"]
    /\ pending = {} /\ subscribers = {} /\ asked = {} /\ answered = {}
    /\ queue   = [t \in Tasks |-> <<>>]
    /\ closed  = FALSE
    /\ reader  = Reader("read", Nobody, 0)
    /\ writer  = Nobody
    /\ wire    = <<>>
    /\ emitted = 0
    /\ up      = TRUE
    /\ since   = [t \in Tasks |-> 0]
    /\ replied = [t \in Tasks |-> 0]

Goto(t, at)        == task' = [task EXCEPT ![t] = at]
Settle(t, at, what) == /\ Goto(t, at)
                       /\ outcome' = [outcome EXCEPT ![t] = what]

-----------------------------------------------------------------------------
(* A task: subscribe, then call.                                             *)

\* A subscription does not look at the closed flag.
Subscribe(t) ==
    /\ task[t] = "new" /\ t \in Listeners
    /\ Goto(t, "listening")
    /\ subscribers' = subscribers \cup {t}
    /\ since' = [since EXCEPT ![t] = emitted]
    /\ UNCHANGED <<outcome, answer, pending, queue, closed, reader, writer, browser>>

BeginCall(t) ==
    /\ task[t] = IF t \in Listeners THEN "listening" ELSE "new"
    /\ IF closed THEN Settle(t, "returned", "closed")
                 ELSE Goto(t, "register") /\ UNCHANGED outcome
    /\ UNCHANGED <<answer, demux, writer, browser, since>>

Register(t) ==
    /\ task[t] = "register"
    /\ Goto(t, "recheck")
    /\ pending' = pending \cup {t}
    /\ UNCHANGED <<outcome, answer, subscribers, queue, closed, reader, writer,
                   browser, since>>

\* Mutant of Recheck: the reader is trusted to clear what was registered.
RecheckNothing(t) ==
    /\ task[t] = "recheck"
    /\ Goto(t, "send")
    /\ UNCHANGED <<outcome, answer, demux, writer, browser, since>>

\* Close can race the first look at the flag.
Recheck(t) ==
    /\ task[t] = "recheck"
    /\ IF closed THEN Settle(t, "abandon", "closed")
                 ELSE Goto(t, "send") /\ UNCHANGED outcome
    /\ UNCHANGED <<answer, demux, writer, browser, since>>

TakeWriter(t) ==
    /\ task[t] = "send" /\ writer = Nobody
    /\ writer' = t
    /\ Goto(t, "writing")
    /\ UNCHANGED <<outcome, answer, demux, browser, since>>

\* A frame written to a socket that is down is lost.  A write that fails, on a socket
\* that is down, has been closed or refuses the message, has sent no frame.
Write(t) ==
    /\ task[t] = "writing"
    /\ writer' = Nobody
    /\ \/ /\ Goto(t, "waiting")
          /\ asked' = IF up THEN asked \cup {t} ELSE asked
          /\ UNCHANGED outcome
       \/ /\ Settle(t, "abandon", "send failed")
          /\ UNCHANGED asked
    /\ UNCHANGED <<answer, demux, wire, answered, emitted, up, replied, since>>

Await(t) ==
    /\ task[t] = "waiting" /\ answer[t] # "empty"
    /\ Settle(t, "returned", IF answer[t] = "reply" THEN "reply" ELSE "closed")
    /\ UNCHANGED <<answer, demux, writer, browser, since>>

\* Mutant of Timeout: the deadline is taken for the connection's, not the call's.
TimeoutOnceClosed(t) ==
    /\ task[t] = "waiting" /\ answer[t] = "empty" /\ closed
    /\ Settle(t, "abandon", "timeout")
    /\ UNCHANGED <<answer, demux, writer, browser, since>>

\* CALL_TIMEOUT elapses; an answer that is already there wins.
Timeout(t) ==
    /\ task[t] = "waiting" /\ answer[t] = "empty"
    /\ Settle(t, "abandon", "timeout")
    /\ UNCHANGED <<answer, demux, writer, browser, since>>

\* The entry of a call that gives up is removed, whether it closed, failed to
\* send or timed out.
Abandon(t) ==
    /\ task[t] = "abandon"
    /\ Goto(t, "returned")
    /\ pending' = pending \ {t}
    /\ UNCHANGED <<outcome, answer, subscribers, queue, closed, reader, writer,
                   browser, since>>

\* The future of a call is dropped at an await, by a deadline of its caller:
\* nothing removes its entry.  A frame that was being written may still go out.
Cancel(t) ==
    /\ task[t] \in {"send", "writing", "waiting"}
    /\ Settle(t, "over", "cancelled")
    /\ writer' = IF writer = t THEN Nobody ELSE writer
    /\ asked' \in {asked, IF task[t] = "writing" /\ up THEN asked \cup {t} ELSE asked}
    /\ UNCHANGED <<answer, demux, wire, answered, emitted, up, replied, since>>

\* The task ends and drops its event receiver.
Finish(t) ==
    /\ task[t] = "returned"
    /\ Goto(t, "over")
    /\ UNCHANGED <<outcome, answer, demux, writer, browser, since>>

-----------------------------------------------------------------------------
(* read_loop.                                                                *)

\* Mutant of ReadReply: replies are matched by their turn and not by their id.
ReadReplyInTurn ==
    /\ reader.at = "read" /\ wire # <<>> /\ Head(wire).task # Nobody
    /\ \E t \in pending :
          /\ reader' = Reader("resolve", t, 0)
          /\ pending' = pending \ {t}
    /\ wire' = Tail(wire)
    /\ UNCHANGED <<callers, subscribers, queue, closed, writer, asked, answered,
                   emitted, up, replied, since>>

\* The reply to a call that timed out, or that nobody made, is dropped.
ReadReply ==
    /\ reader.at = "read" /\ wire # <<>> /\ Head(wire).task # Nobody
    /\ LET t == Head(wire).task IN
       /\ reader' = IF t \in pending THEN Reader("resolve", t, 0)
                    ELSE Reader("read", Nobody, 0)
       /\ pending' = pending \ {t}
    /\ wire' = Tail(wire)
    /\ UNCHANGED <<callers, subscribers, queue, closed, writer, asked, answered,
                   emitted, up, replied, since>>

Resolve ==
    /\ reader.at = "resolve"
    /\ answer' = [answer EXCEPT ![reader.task] = "reply"]
    /\ reader' = Reader("read", Nobody, 0)
    /\ UNCHANGED <<task, outcome, pending, subscribers, queue, closed, writer,
                   browser, since>>

ReadEvent ==
    /\ reader.at = "read" /\ wire # <<>> /\ Head(wire).task = Nobody
    /\ reader' = Reader("deliver", Nobody, Head(wire).event)
    /\ wire' = Tail(wire)
    /\ UNCHANGED <<callers, pending, subscribers, queue, closed, writer, asked,
                   answered, emitted, up, replied, since>>

\* Mutant of Recipients: only a task whose command is under way is sent events.
RecipientsWaiting == {t \in subscribers : task[t] = "waiting"}

\* Mutant of Recipients: every task is sent every event.
RecipientsAll == {t \in Tasks : task[t] # "over"}

\* Sending to a dropped receiver fails and removes the subscriber.
Recipients == {t \in subscribers : task[t] # "over"}

Deliver ==
    /\ reader.at = "deliver"
    /\ subscribers' = Recipients
    /\ queue' = [t \in Tasks |-> IF t \in Recipients THEN Append(queue[t], reader.event)
                                 ELSE queue[t]]
    /\ reader' = Reader("read", Nobody, 0)
    /\ UNCHANGED <<callers, pending, closed, writer, browser, since>>

\* Mutant of SetClosed: the tables are cleared before the flag is raised.
ClearFirst ==
    /\ reader.at = "read"
    /\ reader' = Reader("clear pending", Nobody, 0)
    /\ UNCHANGED <<callers, pending, subscribers, queue, closed, writer, browser, since>>

\* The reader leaves its loop: the stream ended, the browser closed it, or a read
\* failed, which may also happen while the socket is up and frames are unread.
\* Demux::close then takes one lock after another.
SetClosed ==
    /\ reader.at = "read"
    /\ closed' = TRUE
    /\ reader' = Reader("clear pending", Nobody, 0)
    /\ UNCHANGED <<callers, pending, subscribers, queue, writer, browser, since>>

\* Dropping the senders wakes every pending caller with an error.
ClearPending ==
    /\ reader.at = "clear pending"
    /\ answer' = [t \in Tasks |-> IF t \in pending THEN "gone" ELSE answer[t]]
    /\ pending' = {}
    /\ reader' = Reader("clear subscribers", Nobody, 0)
    /\ UNCHANGED <<task, outcome, subscribers, queue, closed, writer, browser, since>>

\* Mutant of ClearSubscribers: event receivers are left to their own deadline.
KeepSubscribers ==
    /\ reader.at = "clear subscribers"
    /\ reader' = Reader("gone", Nobody, 0)
    /\ UNCHANGED <<callers, pending, subscribers, queue, closed, writer, browser, since>>

ClearSubscribers ==
    /\ reader.at = "clear subscribers"
    /\ subscribers' = {}
    /\ reader' = Reader("gone", Nobody, 0)
    /\ UNCHANGED <<callers, pending, queue, closed, writer, browser, since>>

-----------------------------------------------------------------------------
(* The browser end of the socket.                                            *)

BrowserReply(t) ==
    /\ up /\ t \in asked
    /\ asked' = asked \ {t} /\ answered' = answered \cup {t}
    /\ wire' = Append(wire, [task |-> t, event |-> 0])
    /\ replied' = [replied EXCEPT ![t] = emitted]
    /\ UNCHANGED <<callers, demux, writer, emitted, up, since>>

BrowserEvent ==
    /\ up /\ emitted < MaxEvents
    /\ emitted' = emitted + 1
    /\ wire' = Append(wire, [task |-> Nobody, event |-> emitted'])
    /\ UNCHANGED <<callers, demux, writer, asked, answered, up, replied, since>>

SocketEnds ==
    /\ up
    /\ up' = FALSE
    /\ UNCHANGED <<callers, demux, writer, wire, asked, answered, emitted, replied,
                   since>>

-----------------------------------------------------------------------------
\* What a call does once it has begun.
Continue(t) ==
    \/ Register(t) \/ Recheck(t) \/ TakeWriter(t) \/ Write(t)
    \/ Await(t) \/ Timeout(t) \/ Abandon(t)

ReadLoop == \/ ReadReply \/ Resolve \/ ReadEvent \/ Deliver
            \/ SetClosed \/ ClearPending \/ ClearSubscribers

Browser == (\E t \in Tasks : BrowserReply(t)) \/ BrowserEvent \/ SocketEnds

Next ==
    \/ \E t \in Tasks : Subscribe(t) \/ BeginCall(t) \/ Continue(t) \/ Cancel(t) \/ Finish(t)
    \/ ReadLoop
    \/ Browser

Spec == Init /\ [][Next]_vars

\* The reader goes on; it sees the end of a socket that is down, and owes no error.
ReaderGoesOn == \/ ReadReply \/ Resolve \/ ReadEvent \/ Deliver
                \/ (~up /\ SetClosed) \/ ClearPending \/ ClearSubscribers

\* The runtime polls every ready task, writes to the local socket complete,
\* and the clock advances.  The browser owes no answer, and nobody has to call.
FairSpec == Spec /\ (\A t \in Tasks : WF_vars(Continue(t))) /\ WF_vars(ReaderGoesOn)

-----------------------------------------------------------------------------
(* Properties.                                                               *)

\* A call that holds, or still has to look for, the receiver of its reply.
Outstanding == {"send", "writing", "waiting"}

Frame == [task : Tasks \cup {Nobody}, event : 0..MaxEvents]

CallerTypeOK ==
    /\ task \in [Tasks -> Outstanding \cup {"new", "listening", "register",
                                            "recheck", "abandon", "returned", "over"}]
    /\ outcome \in [Tasks -> {"none", "reply", "closed", "send failed", "timeout",
                              "cancelled"}]
    /\ answer \in [Tasks -> {"empty", "reply", "gone"}]
    /\ since \in [Tasks -> 0..MaxEvents]
    /\ writer \in Tasks \cup {Nobody}

DemuxTypeOK ==
    /\ pending \subseteq Tasks /\ subscribers \subseteq Listeners
    /\ queue \in [Tasks -> Seq(0..MaxEvents)]
    /\ closed \in BOOLEAN

ReaderStates ==
    [at : {"read", "resolve", "deliver", "clear pending", "clear subscribers", "gone"},
     task : Tasks \cup {Nobody}, event : 0..MaxEvents]

ReaderTypeOK == reader \in ReaderStates

BrowserTypeOK ==
    /\ wire \in Seq(Frame)
    /\ asked \subseteq Tasks /\ answered \subseteq Tasks
    /\ emitted \in 0..MaxEvents
    /\ up \in BOOLEAN
    /\ replied \in [Tasks -> 0..MaxEvents]

\* The values of every variable.
TypeOK == CallerTypeOK /\ DemuxTypeOK /\ ReaderTypeOK /\ BrowserTypeOK

\* No call waits for a reply that nobody can deliver any more: its sender is
\* with a reader that has yet to clear it, or in the reader's hand.  A call
\* that registers while the reader closes must find out by itself.
WaiterHasSender ==
    \A t \in Tasks :
        task[t] \in Outstanding /\ answer[t] = "empty" =>
            \/ t \in pending /\ reader.at \notin {"clear subscribers", "gone"}
            \/ reader.at = "resolve" /\ reader.task = t

\* Whatever a call returns it leaves no entry behind, also when a timeout
\* races the reply or a close; only a cancelled call does.
ReturnedCallHasNoEntry ==
    \A t \in pending : \/ task[t] \in Outstanding \cup {"recheck", "abandon"}
                       \/ outcome[t] = "cancelled"

\* The send half is with the call that writes, so that frames do not mix and a
\* call that is dropped or fails does not keep it from the others.
WriterHoldsSendHalf == \A t \in Tasks : writer = t <=> task[t] = "writing"

\* What the demultiplexer and the send half hold and the calls agree, both ways.
EntriesMatchCalls == WaiterHasSender /\ ReturnedCallHasNoEntry /\ WriterHoldsSendHalf

\* Every event the browser sent after a task subscribed and before it answered
\* the task's command is queued when the call returns, in order of arrival.
EventsPrecedeReply ==
    \A t \in Listeners :
        /\ \A i \in 1..Len(queue[t]) - 1 : queue[t][i + 1] = queue[t][i] + 1
        /\ outcome[t] = "reply" =>
               \A e \in since[t] + 1..replied[t] : \E i \in DOMAIN queue[t] : queue[t][i] = e

\* Nobody listens to a connection that is over without being told: a task whose
\* event sender is still there after the last clear, for it subscribed after that
\* (a subscription never looks at the closed flag), has its command to make, and
\* that is refused as closed.  The stream of every other task ended with the reader.
StreamEndsWithSocket ==
    reader.at = "gone" =>
        \A t \in subscribers : task[t] = "listening" \/ outcome[t] = "closed"

\* What a command is to its caller: not issued, under way, or what it returned.
State(t) == IF outcome[t] # "none" THEN outcome[t]
            ELSE IF task[t] \in {"new", "listening"} THEN "idle" ELSE "open"

Exchange == INSTANCE CommandExchange
                WITH Commands <- Tasks, state <- [t \in Tasks |-> State(t)]

\* Calls, reader and browser together keep what CommandExchange promises: a
\* command returns once, with its own answer or an error that is true of it, and
\* neither a late reply nor a close that races it changes that, with the socket up
\* or down.
ImplementsExchange == Exchange!Spec

\* Every call returns, although the browser may never answer and the task that
\* holds the send half may be dropped.
CallReturns ==
    \A t \in Tasks : task[t] = "register" ~> task[t] \in {"returned", "over"}
=============================================================================
