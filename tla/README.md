# Models and proofs of the cua-driver session runtime

The repository benchmarks a GUI-driving agent on shooter games (`fps_bench/`,
`bench/`, `tasks/`, Python) with a vendored Rust driver,
`src/cua-driver/rust/crates/`, that does the work: it takes tool calls of
several clients, runs them against the desktop or a browser, and keeps the
state that lets it refuse, route, record and clean up after them. That driver
is what is modelled here. Paths below are relative to the crates directory,
and `core/` is short for `cua-driver-core/src/`.

## 1. Inventory

| Component | State it keeps | Operations that change it | Hard behaviour |
|---|---|---|---|
| session lifecycle, `core/session.rs` | tombstones, live records (owner, in-flight count, pending end), last activity, cleanup progress; a mutex each | admit a call, drop its guard, start/revive, end (explicit, idle, transport close, revocation), retry cleanup hooks | every operation is a sequence of critical sections, so any two interleave between them; hooks fail or panic; the idle sweep races every call |
| capture policy, `core/capture_scope.rs` | the scope bound to each session | bind, escalate, clear, enforce | late bind against an end |
| session tools, `core/session_tools.rs` | none of its own | start, end, escalate, get state | drive the two above, with a check and a later act |
| dispatch, `core/tool.rs` | per-pid text admission, desktop mutex, suspended runtime scopes | authorize, wait for consent, admit the session, record, invoke, finish | many awaits between check and act; early returns that must undo |
| authorization, `core/authorization.rs`, `policy.rs`, `session_authorization.rs`, `session_manifest.rs` | policy set, grants, signed manifests | decide, narrow, redeem | pure decisions with a deny-wins order |
| consent, `core/consent.rs` | pending prompts, remembered grants | ask, answer, time out, revoke | a late answer against a timeout or the session's end; several calls that find a grant missing at once |
| element tokens, `core/element_token.rs`, `element_cache.rs` | snapshots per (scope, pid), an LRU lane and a wrapping counter; the cached tree | mint, register, resolve, invalidate | a token resolved against a tree that was replaced since; ids registered out of order; a worker that outlives the guard of its element |
| action history, `core/history.rs`, `cua-driver/src/history_runtime.rs` | pending actions, sequence numbers, bounded writer queue, sticky health | begin, finish, disable, delete, write | a full queue, a failed writer, a completion after disable or delete |
| recording, `core/recording*.rs`, `video*.rs` | active recording, turn counter | start, stop, turn | a turn that outlives its recording; a turn without its "before" in a directory used again; a call cancelled while its worker goes on |
| CDP connection, `core/browser/cdp_ws.rs`, `reconnect.rs` | pending replies, subscribers, closed flag; the pool of connections | call, event, close, reconnect, release | a reply against its timeout against a close; a release during a dial |
| browser state, `core/browser/{store,binding,grant,mutation,download}.rs` | bindings, grants, mutation generation | bind, approve, mutate, revoke | a stale binding used after navigation |
| browser engine, `core/browser/{engine,tools,pointer,prepare,semantic,platform}.rs` | none shared | one page action each | protocol I/O |
| public sessions of the SDK, `cua-driver/src/sdk_adapter.rs`, `cua-driver-sdk/src/{runtime,service_session}.rs` | public names and their ended markers, runtime registry, drain counters | create, end, roll back, shut down, maintain | the markers mirror the core's tombstones across an await; a shutdown with calls under way |
| worker protocol, `cua-driver-sdk/src/{worker,embedded,remote,abi}.rs` | request ids, child process | spawn, call, cancel, restart | a dead worker with calls outstanding |
| transports, `cua-driver/src/{serve,proxy,mcp_http,private_worker}.rs`, `core/{server,daemon,socket_io}.rs` | connections, their authenticated owner | accept, dispatch, close | a close with calls under way |
| expectation polling, `core/expectation.rs` | none | poll until a predicate or a deadline | a late match against the deadline |
| platforms, `platform-{linux,macos,windows}`, `cua-driver-uia` | OS handles | native input and inspection | OS behaviour |
| overlay and preview, `cursor-overlay`, `pip-preview` | render state | animate | a renderer thread |
| product shell, `cua-driver/src/{cli,doctor,updater,telemetry,...}.rs` | files | install, report | I/O |
| benchmark harness, `fps_bench/`, `bench/`, `scripts/`, `tasks/` | none | score a run | sequential |

How they interact. A transport authenticates a client and gives its calls an
owner key. `tool.rs` runs each call: it decides authorization, asks for consent,
then admits the call to its session with `begin_session_dispatch`, which
returns a guard that lives as long as the call. `start_session` and
`end_session` change the session itself; they take no guard. When a session ends, `session.rs` runs the registered hooks (cursor, recording,
browser state, capture policy), which is how the other components forget it. A
maintenance thread sweeps idle sessions; a closing transport ends the sessions
it owns; the operator and a runtime that shuts down end all of them.

What makes each correct, in a sentence. *Lifecycle*: an id is live or ended and
never both, belongs to one transport for good, is ended when it is due, and its
cleanup runs to completion once. *Policy*: nothing bound to a session survives
it. *Dispatch*: whatever an early return or a lost await leaves behind is
undone. *Tokens*: a token resolves to the element it was issued for or is
refused. *History*: the log never claims an outcome twice and never loses one
silently. *CDP*: every call returns once, with its own reply or an error that is true.
*Public sessions*: the markers agree with the core when nothing is under way.

## 2. Modules

| | Module | Subject | State |
|---|---|---|---|
| 1 | `SessionEpisode`, `SessionLifecycle` | what a session id promises; the tables that keep it | checked, its ownership and the refinement proved |
| 2 | `CommandExchange`, `CdpConnection` | what a command is promised; calls, replies, timeouts and close of one browser connection | checked, its safety and the refinement proved |
| 3 | `ActionHistory` | the bounded queue, its writer and the lifecycle operations | checked, its safety proved |
| 4 | `ProfileSockets` | attachments to the user's browser: grants and generations, the pool, the reconnect gate, what a session's end gives back | checked, proved |
| 5 | `Recording` | the live recording against turns, ends of sessions, the idle sweep and the shutdown of the runtime | checked, its safety proved |
| 6 | `ElementTokens` | snapshots and their lanes, the cached tree and the references to its elements | checked, proved |
| 7 | `ToolDispatch` | admission, consent, session guard, desktop lane and overlay of concurrent calls, with every early return and abort | checked, its safety proved |

`X` has its instances in `MCX` and its proofs, where it has any, in `XProofs`.
`SessionLifecycle` implements `SessionEpisode`, `CdpConnection` implements
`CommandExchange`. The modules meet at the ends of
sessions: `Recording`, `ProfileSockets` and `ToolDispatch` each contain a session
that ends, is swept and revives, reduced to what `SessionLifecycle` shows of it (a
tombstone, then the hooks, then perhaps a revival), and the part of the
component that the hook calls. Their full product is beyond TLC; the reduced
sessions allow every order of tombstone, hook and revival that the detailed
one does, except the two gaps of section 11, which are about sessions alone.

What would come next: `PublicSessions`, the ended markers of the embedder's
adapter over `SessionEpisode`; the bindings of `browser/store.rs` and
`binding.rs` against navigation; the pure decisions of `policy.rs` and
`background_input.rs` as operators against a reference definition.

## 3. SessionLifecycle

### State and code

| Variable | Code | Abstraction |
|---|---|---|
| `ended[s]` | `SESSION_ACTIVITY.ended_sessions` | the tombstone and the owner it names; `"unowned"` when the session had no record |
| `recOwner`, `inFlight`, `pendingEnd` | `LIFECYCLE_RECORDS` | a record is present when `recOwner` is not `"none"` |
| `activity[s]` | the last-use instant | absent, within the idle TTL (`fresh`), past it (`stale`) |
| `cleanup[s]` | `SESSION_CLEANUP_PROGRESS` | hooks completed, whether a retry runs |
| `policy[s]` | `capture_scope::scopes` | the scope's name; `"unlocked"` is an escalated `"auto"` |
| `th[t]` | the stack of a thread | where it is between two critical sections, and its locals |

One action is one critical section. Nested locks are one action (`MarkEnded`,
`ClaimSession`, `BeginDispatch`: a record lock inside the tombstone lock;
`BindPolicy`, `UnlockDesktop`: the tombstone read inside the scopes lock). What
the code does after releasing a lock is another action, so every place where
the code reads, unlocks and acts is a place where other threads step in.

* A call: `BeginDispatch`, `TouchActivity`, then `DropGuard`, which takes a
  pending end if it is the last.
* An explicit end: `EndSession`, `OwnsRecord`, `OwnsTombstone` (the ownership
  test, two locks), `DeferOrEnd`.
* Any end from there: `ForgetActivity`, `MarkEnded`, `ClearPolicy`,
  `InstallCleanup`, then `StartRetry`, one `RunHook` per hook, `FinishRetry`.
* A start: `StartSession`, `AdmitStart`, perhaps a cleanup retry, `ClaimSession`,
  `TouchActivity`, `BindPolicy`. An escalation: `EscalateSession`,
  `UnlockDesktop`.
* Ends of many: `SweepRecords` and `SweepActivity` (two locks) for the idle
  sweep, `CloseTransport`, `RevokeAll`; each takes its snapshot of ids and
  then ends them one after another (`NextSession`).

Helpers (`Admits`, `MustWait`, `TakesEnd`, ...) each hold one decision of the
code. Above some of them stands a mutant, the same decision with a plausible
mistake; each run property is violated when its mutant replaces the original.

### Left out

Observers and the render-side revive hooks (no lifecycle state depends on
them); the suspension set of runtime scopes, which `tool.rs` reads and which
belongs to the dispatch model; `set_session_idle_ttl` (a different number for
"stale"); the registry side of hook registration, which happens at start-up. Functions of
`session.rs` that only tests call (`touch_session`, `activate_session`,
`revive_session`, `fire_session_end`, `evict_idle`, `revoke_all_sessions`) are
left out too, since their live counterparts are in.

### Runs

| Run | Instance | Question |
|---|---|---|
| `session_ownership` | one id, two transports, two callers, the sweep, two hooks of which one may fail, the legacy scope | do the tables agree with one another and with the threads, policy, ownership, and refinement of `SessionEpisode` |
| `session_progress` | two ids, one caller, the sweep, a hook that succeeds; `FairSpec` | every expired session is reclaimed; a deferred end is carried out; an installed cleanup finishes |
| `session_guard_claim`, `session_revival_claim` | one id, one owner | two sentences of the documentation that the code does not keep (section 11) |

Bounds. Sessions do not share state in these tables, other than through a
thread that ends several in a row, so one id shows the races on it and two show
the list-processing ends. Three threads (two callers and the sweep) let one
thread sit between any two critical sections while another ends and a third
revives; two transports are the least that can contend for an id. No counter is
bounded by hand: `inFlight` cannot exceed the number of callers, and every
table is finite. Symmetry over callers and owners is used in the two safety
runs only. Deadlock is checked everywhere.

Fairness (`FairSpec`). Each thread that has begun an operation goes on (`WF` of
`Continue`): mutexes are held for bounded time and tool calls and hooks return.
The maintenance loop comes round (`SweepRecords`) and time passes (`Expire`).
No request is fair: nobody is obliged to call, end or start anything.

`TablesAgree` has four parts: tombstone and record exclude each other; a live session
has an idle clock; a pending end waits for a call that holds a guard; a cleanup
marked running has a thread at its hooks. The last two are what the liveness
properties rest on. A count may be *below* the guards, never above: a record made
anew under an old guard is counted down by it.

`CleanupFinishes` needs hooks that succeed, since a failed cleanup waits for a
retry that only a new end or start brings.

## 4. CdpConnection

### State and code

`core/browser/cdp_ws.rs`, one connection. A reader task owns the receive half of
the socket; any number of tasks share the send half.

| Variable | Code | Abstraction |
|---|---|---|
| `task[t]`, `outcome[t]` | a task inside `CdpConnection::call` | where it is between two locks or awaits; each task makes one call and is its message id, which `next_id` never repeats |
| `answer[t]` | its oneshot channel | empty, a reply, or `gone` when the sender was dropped |
| `pending`, `subscribers`, `closed` | `Demux` | the tasks whose sender it holds |
| `queue[t]` | the event receiver of a subscriber | the numbers of the events |
| `reader` | `read_loop`, `Demux::close` | where it is, and the frame it has taken from the socket |
| `writer` | the lock of the send half | the task that holds it |
| `wire`, `asked`, `answered`, `emitted`, `up` | the browser, external | frames under way, unanswered commands, commands answered, events sent, the socket |

* A call: `BeginCall` (first look at the flag), `Register`, `Recheck`,
  `TakeWriter`, `Write`, `Await` or `Timeout`; a call that gives up removes its
  entry in `Abandon`. `Subscribe` comes before the call of a listener.
* `Cancel`: a caller's own deadline drops the future of the call
  (`engine.rs:2439`), at any of its awaits; no code runs then.
* The reader: `ReadReply`, `Resolve`; `ReadEvent`, `Deliver`; at the end of the
  stream `SetClosed`, `ClearPending`, `ClearSubscribers`, three locks. The reader leaves
  its loop when the stream ends or the browser closes it, and also on any error of a
  read (155-158): the socket may be up then, with frames unread and a browser that
  still answers.

Left out: the bookkeeping of dialogs, the method policy (a pure filter in front
of a call), the drop of the whole connection (it aborts the reader, and no
caller is left then), and the pool, which is in `ProfileSockets`.

### Run

`cdp_calls`: two commands, one by a task that listens first; two events; the
socket may end at any moment, the reader may fail before it, and frames written before
may stay unread. Two
commands are the least that contend for the send half and for the pending map;
two events show a gap or a swap. The number of events (`MaxEvents`) is the only
bound. Deadlock is not checked: when the commands are over nothing happens.

`EntriesMatchCalls` has three parts. That every waiter has a sender is the reason
for the second look at `closed`: without it a call registers after the reader
has cleared the map and waits for its whole timeout. That a call which returned
has no entry excepts cancelled calls, whose entry the code leaves until the
reply or the close. That whoever holds the send half is writing says that a call
dropped in the middle of a frame gives it back. `EventsPrecedeReply` is what the code that
collects events and then issues a command relies on. `StreamEndsWithSocket`:
`subscribe` does not look at `closed`, so a task may be added after the last clear and
hear nothing for ever. Such a task has its command still to make, and that one is
refused as closed; no other task is left.

`CommandExchange` is the connection as its callers see it: a command is over once, and
its outcome is true of it. `ImplementsExchange` says that the reader, the map of
senders, the cancelled entries and the close add nothing to that: a result is the
browser's answer to this very command, "closed" is said only by a connection that takes
no command any more, and a command whose send failed has not been answered and never
will be. "Closed" does not say that the browser is gone or has not acted: as the socket
may be up, an answer may still be on its way, and the exchange allows it. Two mutants
break it: a reader that matches replies by their turn, and a close that clears the
tables before it raises the flag.

Fairness (`FairSpec`): the runtime polls ready tasks, the clock advances, local
writes complete (`WF` of each `Continue(t)` and of `ReaderGoesOn`, the steps of the
reader without an error it does not owe). The browser never has to answer. The wait for the send half and the write come before the
timeout starts in the code, which is why the write has to be assumed to complete.

## 5. ActionHistory

### State and code

`core/history.rs`. Tool calls offer two events each without ever blocking; one
writer thread appends what it receives to the encrypted store; the user's
operations run one at a time under the `control` mutex.

| Variable | Code | Abstraction |
|---|---|---|
| `durable` | `state.json` | the two flags |
| `log` | the chunks of the store | the events with their numbers, oldest first |
| `enabled`, `paused`, `health` | atomics and a mutex of `HistoryManager` | health is one of four categories; every error is `failed` |
| `next`, `dropped`, `unreported` | `next_sequence`, `dropped_events`, `pending_dropped_events` | |
| `slot`, `handle` | the mutex around `Option<WriterHandle>` | its holder; whether there is a handle |
| `thread`, `queue` | `writer_loop`, its `sync_channel` | none, running, or failed (`terminal_error`); the messages |
| `control`, `awaiting`, `answer` | the operation that holds `control` | where it is; the request it waits for |
| `act[a]` | a dispatched call and its `PendingHistoryAction` | where it is, and which event is next |
| `turnedOff`, `broken` | none | history: recording was switched off; the writer failed, the log was erased or the process restarted |

* A call: `BeginAction` and `PassGate` (two atomics), then `TryLock`,
  `ReportDrops`, `TrySend`; later `FinishAction` and the same three again.
* The writer: `AppendEvent` or `AppendFails`, `DiscardEvent` once it failed,
  `AnswerRequest`, `ExitThread`, `MaintenanceFails`.
* An operation is a path through the places of `control`. Enable: start the
  writer, persist, open the gate. Disable: close the gate, persist, leave the
  marker, flush, stop the writer. Pause and resume: persist, marker, flush, and
  `Undo` if that failed. Delete: marker, flush, stop, persist, erase. Query: a
  snapshot through the writer and a marker, or offline. The steps they share
  (`TakeSlot`, `SendMarker`, `CloneSender`, `Ask`, `Flushed`, `SendShutdown`,
  `Join`) are one action each, as they are one function each in the code.
* `Restart`: the process ends anywhere; `HistoryManager::new` starts from the
  state file and the store.

Left out: encryption, the quota and retention but for the errors they end in,
the lease that keeps a second process away, session events (a third producer
on the path of a begin), a history that is not admitted (every operation
refuses), the drop of the manager (a restart that is orderly).

### Runs

| Run | Instance | Question |
|---|---|---|
| `history` | every operation with its failures, one action, a queue of one, a restart; `FairSpec` | what the store and the state file hold, whether a writer runs, are drops accounted for and pairs whole, does a resume wait for its marker, does every operation return |
| `history_split_claim` | no action, enable, disable and delete | a test's sentence the code does not keep (section 11) |

Bounds. `MaxOperations` is three: an operation after a failed one after a
successful one, which is as far as one operation's leavings reach, since each
starts from the four flags, the store and the writer alone. `MaxRestarts` is
one. `Capacity` stands for the code's 512; one makes the queue full at once, by an
event, a report, a marker or a request. Two actions contend for nothing but the slot,
which the operation contends for as well; that pairs stay whole among any number
of them is proved. Numbers are not wrapped: the code counts in
64 bits. Deadlock is not checked: actions and operations of an instance end.

Fairness (`FairSpec`): the writer thread, the operation under way and a call
that has begun to offer an event take steps they can take. Nobody has to call,
to finish an action or to ask for an operation. A producer never waits: it
holds the slot for three steps, and that is all an operation may wait for.

## 6. ProfileSockets

### State and code

`core/browser/{grant,reconnect,engine,prepare}.rs` and the pool of `cdp_ws.rs`.
Sessions attach to the user's own browser; each has a grant, all share one
socket, and a dial may make the browser ask the user.

| Variable | Code | Abstraction |
|---|---|---|
| `grants` | `ExistingProfileGrants.inner` | per session its generation, the redials left, whether it must restore the browser's setting |
| `pool`, `poolLock` | `CdpPool.conns`, a tokio mutex held across a dial | at most one entry, with the generation that owns it (0: none) and whether its socket is open |
| `gate` | `ReconnectGates` | the call that leads |
| `marker` | `claimed_loopback_ports` | whether the browser's port is marked |
| `pending` | `pending_existing_profile_cleanups` | the sessions that owe a clean-up |
| `releases`, `ending` | the task that the session-end hook spawns, the hook | generations still to be released; what a hook under way owes |
| `debugging` | the browser's remote debugging, external | off, turned on by the driver, or by the user |
| `call` | a call inside `prepare_existing_profile`, `connect_existing_profile`, `connect` or a revocation | where it is between two awaits, and its locals |

* Attach (`browser_prepare`): `BeginPrepare`, `LookUpPrior`, `NumberGrant`,
  `MintGrant`, perhaps `ReleaseExisting` of the generation before, `ClaimExisting`
  and `ClaimDialled`, `CommitSetup`.
* Use: `BeginUse`, `LookUpGrant`, `GetExisting`; with a dead socket `TakeGate`,
  both looks again, then `AttemptReconnect`, `PeekPool`, `Dial`, `InstallSocket`,
  `AfterRedial`, as long as there are attempts.
* Loss: `Revoke`, `TidyBrowser`, `ReleaseExisting`, `AbortSetup` on behalf of a
  call; `EndSession`, `EndTidiesBrowser`, `ReleaseTask` of a session that ends.
* A session without a grant: `BeginConnect`, `ReadMarker`, `GetSocket`,
  `GetDialled`, `Evict` and once more.
* `AskUser`, `UserAnswers`, `HandLock`: the dial is raced against the user. A
  redial is not polled while the user is asked, but tokio may hand it the lock it
  queues for all the same.

Simplified: there is one browser, so one endpoint, one gate and one marker; the
second release of the marker that follows in the code is part of the first;
expiry of a grant and the deadline of a redial may come at any look; the aborts
that run when a future is dropped, the generations of page targets and the
consent broker are left out. What the platform proves, and what the user
answers, is the environment's choice.

### Run

`profile_sockets`: two calls at a time, two sessions, four calls or ends in all.
Two sessions are the least that share a socket and pass the duty to clean up from
one grant to another; four operations allow attach, loss, a use that redials and a
second loss. The number of redials is two, so that one can fail and the next
succeed and the budget run out. Sockets close, dials fail and grants expire at
any point.

`LockHoldersProceed` says that no circle of waits goes through the pool's lock or
the gate: a dial with the lock held is cancelled before the revocation that needs
it. `OneRedial` is why the leader looks twice. `NothingOutlivesItsGrant` is about
quiet states only, and excepts behaviours in which ownership was lost on one of
the ways that the code leaves open (`slipped`): a session's end on a thread with no
runtime to spawn on, a mint that raced another or an end, a refused redial, a
hook whose debt overwrites a newer one. Section 11 lists those.

No fairness is stated: a dial ends when the browser or the user wants.

## 7. Recording

### State and code

`core/recording.rs`, and `cua-driver-sdk/src/runtime.rs` for the admission of
calls, the idle sweep and the shutdown. A runtime has one recorder.

| Variable | Code | Abstraction |
|---|---|---|
| `enabled`, `generation`, `nextTurn`, `owner`, `dir` | `RecordingInner` | as they are |
| `video` | its video capture | the generations that are filmed |
| `turns` | the turn directories on disk | which call, in which recording, wrote the "before" and which the action that are there now; they survive a recording |
| `ended`, `due` | tombstones; ends whose hook has still to run | the reduced session of section 2 |
| `shutdown` | the runtime's flag | |
| `recent`, `sweep` | the time of the last activity, the maintenance thread | within the TTL or not; between which two locks |
| `call[c]` | a call inside `invoke_with_context_and_evidence` or `shutdown` | where it is, its reservation (generation, turn, directory), and whether it wrote its "before" |

The runtime's lifecycle lock is not a variable: a call holds its read guard at
the places of `Guarded`, a shutdown its write guard at those of `Writes`.

* Any call: `Invoke` (first look at the flag), `Admit` (second look, under the
  guard). `StartRecording`, `StopRecording`, `EndTool` then `StopOwned`,
  `ReviveSession`.
* A recorded action: `ReserveTurn`, `WriteBefore`, `FinishTurn`, each a lock of the
  recorder, with the capture and the tool in between. What is captured may be
  suppressed or missing and each write may fail: the turn goes on, and what lay in the
  directory before stays.
* `Cancel` aborts a call or a shutdown where it waits (`abi.rs:520`): the future goes
  with its guard. What it had given to a blocking worker runs on, a tool until
  `StrayEnds`, the stop of a recording until `StrayStops`; no guard covers either.
* A shutdown: `BeginShutdown`, `DrainCalls`, `RevokeSessions`, `ForgetSessions`,
  `StopAll`. The sweep: `Wake`, `CheckRecording`, `StopIdle`.

Left out: the legacy `configure`, replay, failures to finish a video, the cursor
sampler and rendering. The "before" stands for either of its two files.

### Run

`recording`: three calls, two at a time, one session and anonymous starts, one
directory. Two calls at a time race on a turn and on the flag; three are a start, an
action and a second start or a shutdown that interrupts it. One directory makes two
recordings use the same turn numbers, the worst case for `ActionHasItsBefore`: an action
is beside the "before" of its own call if that was written, and otherwise beside none
of its own recording, so that what another call of the same recording saw is never
taken for it. An older recording's leftover is not excluded (section 11). An action that
finds one takes four calls, which is too many for the liveness properties (with four
TLC finds the safety ones true as well, in 1.8 million states); the theorem holds for
any number. `ShutdownDrains` speaks of the calls that hold the guard and of the
recording; the workers of cancelled calls are outside it (section 11). `MaxCalls` and
`MaxOpen` are the bounds; none is on ends or sweeps.

Fairness (`FairSpec`): calls go on, as tools return; the maintenance thread comes
round; time passes. Nobody has to cancel. `IdleRecordingStops` is "again and again",
since calls may keep a recording alive for ever. It excepts a shutdown that was
cancelled while it drained (`Abandoned`): that leaves the flag up, so the maintenance
thread goes and the recording stays on, until somebody shuts down again.
`ShutdownReturns` needs that no admitted call waits for the shutdown: the drain waits
for the calls that hold the guard only.

## 8. ElementTokens

### State and code

`core/element_token.rs`, `core/element_cache.rs` and the macOS `cache.rs`,
`get_window_state.rs`. A snapshot is two steps far apart, and so is a use.

| Variable | Code | Abstraction |
|---|---|---|
| `lanes`, `pushed`, `counter` | `TokenRegistry`, `SNAPSHOT_COUNTER` | the snapshots of one process by scope, each with its place in the order of the pushes; wraps at `IdRange` |
| `cache` | `ElementCache` | by scope and window, which walked tree it holds |
| `refs` | retain counts of the elements of a tree | one for all elements of the tree |
| `tokens` | what callers were told | snapshot id, and the tree it was given for |
| `task` | a call between its two locks | where it is, its window, token and tree; at `"stray"` only its worker is left |
| `walked`, `source`, `lost` | none | trees so far, where each was walked, those nobody took |
| `raced` | none | history: the windows of a runtime on which a snapshot met another call between its two locks, or was dropped half-way |

* A snapshot: `Walk`, `UpdateCache`, then (a screenshot later) `MintSnapshot`, an atomic
  counter, and `RegisterSnapshot` under the lock of the lanes, so that snapshots may
  register out of the order of their ids; the lane drops the one pushed first.
  `LoseTree` when nothing is cached, `ForgetTree` when the window is not found,
  `DropSnapshot` when the call is cancelled at the screenshot.
* An element action: `ResolveToken`, `RetainElement`, `ReleaseElement`. `DropAction`
  cancels it: before it looked its element up, or with a worker that has the element's
  raw pointer (`click.rs:632`). The guard is in the async frame and is released at once;
  the worker goes on until `StrayEnds`.
* `ClearRuntimeScope` when a runtime shut down.

macOS is the platform modelled. Windows looks an element up several times in an
action, each look the second step here; Linux keeps no elements and walks again
by index. Which index of a tree a token names, and its range check, are
abstracted: a token stands for some element of its tree. Ids wrap after 2^32;
`IdAssumption` excludes that, as the code's comment does.

### Runs

`element_tokens`: two calls at a time, two runtimes, three windows, a lane of two
snapshots; three walks and three actions. Three windows overflow the lane; two
runtimes show that scopes are apart; two calls let each step come between the two of
another. `token_boundary_claim` is the comment on invalidation (section 11), on one
window. Nothing here is promised to happen, so no liveness is stated.

`TokenHitsItsTree` holds without exception as to window and runtime, for the workers of
cancelled calls too, and as to the tree on the windows that are not in `raced`: one race
on a window excuses no other window and no other runtime. What it excuses is the window
between the two locks, which `token_boundary_claim` shows. `StaleStaysStale` is what is
left of "only the newest resolves" when ids are minted before the lock: which of two
snapshots stays is open, but a token that was refused once, superseded, evicted or of
another runtime, never resolves again. It rests on ids that do not come round, and its
mutant truncates the counter. `ReferencesBalance` accounts for every retained element,
those the code loses included. It says who holds a reference, not that everyone who
uses an element does: the worker of a cancelled call holds none.

## 9. ToolDispatch

### State and code

`invoke_authorized` of `core/tool.rs`, with `consent.rs` and the overlay's
`pip_hook.rs`: everything a call waits for, takes and gives back.

| Variable | Code | Abstraction |
|---|---|---|
| `active` | `active_text_input_pids` | the processes marked |
| `admission`, `lane` | the queues of `ProtectedResourceGrants.admission` and `desktop_action_coordinator` | the calls that wait, in turn |
| `passthrough` | the overlay's pointer scope | whether it lets input through |
| `grants` | `ProtectedResourceGrants` | the sessions with a grant of Computer History |
| `ending`, `ended`, `swept` | the reduced session of section 2 | pending end, tombstone, hook run |
| `call[k]` | a task inside `invoke_authorized` | where it is, its request and session, the guards of its frame, whether the platform's worker runs |

Three kinds of call stand for all: text into a process (marked, laned), another
physical input (laned), and the reading of Computer History, the one operation of
standard mode that prompts.

* `Enter`, `AdmitText`, the adapters (`Refuse`, `LookupGrant`, `RecheckGrant`,
  `Accept`, `Decline`), `GuardSession`, `AskForLane`, `TakeLane`, `YieldPointer` or
  `YieldFails`, or `InvokeQuery`; then `Complete`.
* Guards go one by one (`Drop`) in the order of `DropOrder`: by name after a
  completed call, in the reverse order of declaration after an early return or an
  abort. `Return` ends the frame.
* `Abort` drops the future at an await, with its place in a queue. The platform's
  worker is a blocking task and goes on: the call is `"stray"` until `StrayEnds`.

Left out: validation and the adapters' decisions, which are refusals at choice;
nested dispatches of a replay; the turn of a recording (section 7) and the events
of history (section 5); the races of a session's end (section 3).

### Run

`tool_dispatch`: two calls at a time, one session, two processes, any number of
calls one after another. Two calls are the least that contend for each of the four
things; a third would only wait behind the second, and the proofs cover any
number. Deadlock is checked.

Fairness (`FairSpec`): each call that can proceed does (`WF` of `Proceed(k)`). Tasks are
scheduled; tokio's mutexes hand the lock to the first waiter, which the queues model;
a prompt ends when its request expires; the platform's worker ends. Refusals, aborts
and ends of sessions are not fair. `GuardsAgree` is `InputIsExclusive`, what the guards say
of the input, and `WaitersInTurn`: an aborted wait leaves no place in a queue, and whoever
holds the lane or the admission waits for neither. `InputIsExclusive` speaks of input under
the lane: the worker of an aborted call is outside it, see section 11.

`PromptIsNeeded`: several calls may find the grant missing and wait for the admission, and
whoever is let in looks again, so the host is asked only while the session has no
grant, even when the call before was declined, aborted or got its grant at that moment.
That a grant is gone with its session cannot be stated of this code: `Accept` stores it
whatever became of the session while the host was asked (section 11).

## 10. Proofs

`SessionLifecycleProofs` holds, for every number of ids, transports, callers,
hooks and policies:

* `TypeCorrect`: `Spec => []TypeOK`, by one lemma for the requests, one for the
  steps of a thread.
* `HolderCorrect`: the inductive invariant `HolderInv`. Exclusion alone is
  inductive; ownership is not, because a thread acts on what it read earlier. What makes it inductive is that the holder of an
  id, once set, never changes: `LifeStep` shows that every step of the tables
  declares, ends, revives or leaves an id alone and that the holder survives,
  so a thread whose request was checked against the holder (the clauses of
  `HolderInv` about `"start"` and `"end"` jobs) may rely on it later.
* `OnlyHolder` follows from `HolderInv`.
* `TablesConsistent`, part by part. `TombstoneExcludes` follows from `HolderInv`.
  `CallsInv` counts: each step of a call adds its guard and one to the count, or takes
  the guard and at most one, and a count of zero goes with a record that is gone.
  `CleanupInv` follows the thread at the hooks.
* `PolicyDies` and `LiveHasClock`, the fourth part, are inductive beside `HolderInv`. Both allow a
  window while some thread is at a named place; the proof goes by which thread
  moves: a step of another thread leaves that place alone, and the thread's own
  steps either open the window or close it by what they do to the tables.
* `Implements`: `Spec => ImplementsEpisode`, the refinement of `SessionEpisode`:
  `EpisodeInit` for the initial states, `EpisodeStep` maps every step to
  `Declare`, `End`, `Revive` or a stutter.

`CdpConnectionProofs` holds for every set of commands and listeners and any
number of events:

* `TypeCorrect`, by one lemma each for a task, the reader and the browser.
* `DemuxCorrect`: the inductive invariant `DemuxInv`. That every waiter has a
  sender is not inductive: it takes what the flag and the place of the reader
  say of each other, and that a task which has not yet looked a second time is
  allowed to have lost its sender.
* `EntriesMatch` and `StreamEnds` follow from it (`Late` is its part about who may still
  be subscribed when the reader is gone), but for the send half, which is
  inductive once typed (`SendHalfNext`).
* `EventsFirst`, from `StreamInv`: there is a number of events that have been
  delivered; the rest are in the reader's hand or on the wire, in order and with each
  reply before the events that came after it; the queue of whoever is
  subscribed ends with the last one delivered. A command leaves no trace of a
  reply until it is answered, and so is answered once.
* `Implements`: `Spec => ImplementsExchange`, from `ExchangeInv`: a reply on the wire, in
  the reader's hand or in a channel is of a command that was answered, a dropped
  sender tells of a flag that is up, and a command is answered at most once, after it was
  written. Nothing in it speaks of the socket, so it holds whichever of the two ends
  first.

`ActionHistoryProofs` holds for every set of actions and operations and every
capacity and bound:

* `TypeCorrect`, with the capacity of the channel.
* `NumbersIncrease`, `WriterServes` and `DisabledIsDurable`, from the
  inductive invariant `HistoryInv`, a conjunction of `Shape`, `SeqInv` and
  `HealthInv`. `Shape` is needed by all three: it says at each place of an
  operation who holds the slot, whether there is a handle and a thread, what
  the enabled flag is, and that a shutdown message is the last in its queue. So nothing
  waits for a thread that is not there (`WaitsAreServed`, the safe part of
  `OperationReturns`).
  The numbers need more than the order of the log: those in the queue continue
  it, and what a writer counts from is above both. A health of "disabled" needs
  what disable and delete have made durable on their way to setting it.

`ActionLogProofs` rests on `HistoryInv` and reasons about `Told`, the log and the
queue behind it: a step leaves it alone, appends to it, or takes a message out of
its middle, and each of the three has its lemma.

* `PairsAreWhole`, from two invariants. `Paired`: while recording is steady a call
  past the gate finds it on until it is over, and a start that is told belongs to a
  call that is running, or whose end is on its way, or whose end is told after it.
  `Ordered`: whatever happens, a start is told only of a call that is past it, an
  end only of one that is over, and behind an event of a call there is at most its
  end; what is told is a history of the places the calls have left.
* `DropsReported`, from `Counted`: as long as the writer lives, the events dropped
  are those still to be reported and those in the reports that `Told` holds. The sum
  over a sequence is a recursive function, so its laws (what an append adds, what
  taking the first message removes) need induction. There is no rule for that
  here; instead the naturals are well founded (`WFMin`), so a set of counterexamples
  would have a least member (`LeastNatural`, `UpTo`), and the recursion is shown to
  have exactly one solution (`SumsExist`, `ReportedIs`).
* `ResumeFollowsMarker`, an action property, from `Resuming`: while the writer
  lives the marker stays in `Told` behind every pause, and everything that asks for
  the current answer stands behind it; so an answer of "ok" finds it in the log.
  Requests carry increasing numbers (`Numbered`), which is what tells the
  answer to an earlier flush from that to this one.

`RecordingProofs` holds for every set of sessions and directories and any number of
calls:

* `TypeCorrect`, with `Purpose`, which says what a call can be at its place.
* `RecordingOwned` is inductive once typed.
* `ShutdownIsDrained`, from `Closing`: the flag and the write guard exclude, place by
  place of the shutdown, what a call may still be doing and what may be recorded. A
  cancelled shutdown leaves the drained places and takes nothing of it along.
* `ActionFollowsItsBefore`, an action property, from `Reservation`: a call that may
  still write has a reservation of the past or of the live recording; no two
  calls that hold one of the live generation hold the same turn, and the next turn
  is above them all. What is in their directory at their turn is their own "before", if
  they wrote it, or of an older generation (`Written`), as is what lies at the turns that
  the live recording has not given out (`Fresh`).

`ElementTokensProofs` holds for every number of calls, runtimes, windows, walks and
any cap:

* `Sound`, the types and `Counted`: the counter stays below `IdRange`, because every id
  that is minted is of a tree that was walked for it, which is what makes ids unique.
* `TokenHits`, from `Placed` (tokens, lanes and cache entries lie in the window and
  runtime their tree was walked in; an id minted and not yet registered is nobody
  else's) and `Hits` (on a window that is not in `raced`, the cache holds the tree of the
  lane's snapshot or nothing).
* `ReferencesAreHeld`, from `Balanced`: a sum of three cardinalities, each step
  moving one element between the sets it counts, a cancelled action included.
* `TypeCorrect`, from `Sound`, that sum (a count is a natural number) and `Bounded`, the
  cap of a lane.
* `StaleForGood`, an action property, from `Sound` and `Placed`: a step other than a
  registration only shrinks lanes, and a registration adds an id that is in no token.

`ToolDispatchProofs` holds for every number of calls, sessions and processes:

* `TypeCorrect`, with the queues.
* `GuardsCorrect`, in two halves. `InputIsExclusive` from `Serial`: each frame's guards
  say where it is (a pointer is held under the lane, an acting worker under both), the
  lane has one holder, and the two tables are exactly the guards held. `WaitersInTurn`
  from `Turns`: the queue of a lock holds exactly the calls that wait for it, each once
  (`Exactly`, which an append, a tail and the removal of an aborted call keep, by lemmas
  about sequences), and the lock is with a call that waits for none. It is what `EveryCallReturns` rests on.
* `PromptNeeded`, from `Asks` beside `Turns`: who asks the host holds the admission and
  found no grant under it; the only step that adds a grant is taken by the holder, who
  gives the admission back with it.

`ProfileSocketsProofs` holds for every number of calls and sessions and any number of
redials a grant allows. Its invariant is `ProfileInv`:

* `TypeCorrect`, with one grant a session and one socket in the pool.
* `HoldersProceed` and `RedialsAlone`, from `LockInv`: whoever is past the reconnect
  gate holds it.
* `NothingOutlives`, from `OwnedInv`, which says it of every moment and not of the quiet
  ones only: a socket in the pool, the mark and the setting is a grant's, or in the
  hands of a call, a hook or a task that is about to give it up, or of a redial,
  whose end leaves the socket with a grant or is one of the cases listed as slipped.
  `Meant` is what it takes of the calls: one that turned the setting on has its
  grant turn it off.

The assumptions are the named ones of the modules: markers such as `"nobody"` are
no members of the sets they stand beside (`NameAssumption`, `ActionAssumption`,
`TaskAssumption`, `SessionAssumption`, `PidAssumption`, `ThreadAssumption`); callers, hooks, tasks and
scopes are finite where something is counted; bounds are natural numbers, capacities
and caps at least one; and fewer trees are walked than there are ids (`IdAssumption`).

Only model-checked: the liveness properties, which need `ENABLED` and fairness and
are out of this prover's reach. Every safety property that a passing run checks has
its theorem. The claims of section 11 are false, and have none.

## 11. Where code and documentation part

* *Guard* (`session_guard_claim`). `end_session_with_reason` reads the in-flight
  count, releases the lock and then marks the session ended. A call admitted in
  between holds a guard on a session that is gone, although the guard's comment
  says that idle eviction cannot end the session while it lives.
* *Revival* (`session_revival_claim`). The tombstone is published before the
  cleanup progress that would refuse a revival. A start in that gap revives the
  id, and the old end then clears the policy and runs the hooks of the new
  episode, although the comment says cleanup completes before the transition.
* *Tokens* (`token_boundary_claim`). A snapshot replaces the cached tree, awaits its
  screenshot, and only then invalidates the tokens before it, although the comment
  says "at the same boundary". A token resolved in between names an element of the
  other tree.
* *Delete* (`history_split_claim`). `delete_all` switches recording off and stops
  the writer before it writes the state file, and when that write fails it
  returns with recording on in the file: a restart records again. `disable` puts
  its flag back in that case. The test of such failures, named after the split
  it excludes, tries enable and disable only.

Without a run of their own, but stated in the modules, so that TLC refutes each as an
INVARIANT of the instance named, in seconds or a few minutes; the models behave as the
code does:

* *Element under an action* (`ActionHoldsElement`, instance of `element_tokens`). The guard
  of a click's element lives in the async method, which a cancellation drops; the worker
  that performs the click (`click.rs:632`) goes on with the bare pointer, and a snapshot
  of the window then releases the last reference. The comment says the element "can't be
  freed by a concurrent get_window_state" while the click is mid-flight (`click.rs:426`).
* *Newest token* (`OnlyNewestResolves`, same instance). A snapshot's id is minted
  (`element_token.rs:122`) before the lock of the lanes is taken (124). Of two snapshots
  of a window that register at once, the one with the lower id may come last: the lane
  keeps it and refuses the newer one's tokens. The comment says "only the newest
  snapshot [...] remains valid" (56).
* *Shutdown* (`NothingRunsAfterShutdown`, instance of `recording`). A cancelled call gives
  its read guard back while its blocking worker goes on (`abi.rs:520`); a shutdown then
  drains and returns beside it. The comment says it "does not return while a previously
  admitted operation is still executing" (`runtime.rs:162`).
* *Leftover* (`BeforeIsOfTheAction`, same instance with four calls). A "before" that is
  suppressed, missing or fails to be written (`recording.rs:541`, 554, 677) leaves
  whatever the directory holds: in a directory used by two recordings the second's action
  stands beside the first's "before". The tool describes both files as taken
  "immediately before and after the action" (`recording_tools.rs:53`).
* *Late grants* (`GrantEndsWithSession`, instance of `tool_dispatch`). A host that answers
  after the session's end has its grant stored (`consent.rs:462`), and the next session
  of that label is served by it until it expires. The adapter lists the session's end
  among what revokes it (`authorization.rs:381`, 452).

Met while modelling; the models behave as the code does and the properties say what
they except:

* *Sweep*. The idle sweep ends the ids of its snapshot without a second look at their
  activity, so it can end a session just used, although its comment says such sessions
  are left untouched.
* *Health*. Enable, pause and resume store the health as their last step. A writer
  that failed in between had stored its failure there; from then on every event is
  discarded while the status reads ready or paused.
* *Leaked walks*. A snapshot that only observes, or whose walk outlasts its caller or
  its deadline, retains elements that nothing releases (`lost`).
* *Sockets left behind*. The session-end hook releases the socket on an async
  runtime (`engine.rs:673`); run by a sweep on a plain thread it leaves the socket to
  no grant, and the endpoint refuses every other use. A refused redial revokes under
  the generation it bumped to and misses the socket of the one before; a redial
  whose grant was revoked meanwhile panics (`engine.rs:966`).
* *Eviction*. `connect` evicts from the pool what refused it, the live socket of a
  grant included (`engine.rs:810`); the owner redials.
* *Recording*. An `end_session` that is refused stops the session's recording all the
  same (`runtime.rs:368`); a start that fails has already ended the video of the
  recording it would have replaced.
* *Abandoned shutdown*. A shutdown that is cancelled while it drains leaves the runtime's
  flag up: no call gets in, the maintenance thread ends, and a live recording goes on
  until another shutdown.
* *Aborted input*. An abort drops the text admission and the lane while the
  platform's blocking worker still types (`"stray"`): other input may interleave.
* *Pointer*. A dispatch that cannot yield the pointer returns without ending its
  history action and its cursor event (`tool.rs:1523`).

## 12. Not modelled

The map covers a small share of the repository's lines, because most of them are
not concurrent state: the tools of three platforms (native calls one after
another), the overlay's drawing, the command line, installation and telemetry.
What the drivers' state depends on has a module or is in this list.

* *Authorization* (`authorization.rs`, `policy.rs`, `session_manifest.rs`): sequential
  decisions over configuration, and signatures. In `ToolDispatch` their outcome is a
  free choice, so its properties hold whatever they decide.
* *Browser state* (`store.rs`, `binding.rs`, `mutation.rs`, `download.rs`): bindings
  against navigation are a candidate for a module; `ProfileSockets` has only the
  attachments.
* *Browser engine*: page actions are sequences of protocol commands with no state of
  their own. Its deadline is an action of `CdpConnection`, its connections are in
  `ProfileSockets`.
* *Public sessions* (`sdk_adapter.rs`): markers that let the embedder refuse early what
  the core would refuse anyway. Shutdown and drain of the runtime are in `Recording`.
* *Worker protocol, transports*: one request at a time under a mutex and a worker
  that is killed when it does not answer; sockets. The close of a transport is an
  action of `SessionLifecycle`, the drop of a call's future one of `CdpConnection`,
  `Recording`, `ElementTokens` and `ToolDispatch`.
* *Expectation polling, action records and targets*: sequential, or pure.
* *Platforms, overlay and preview, product shell, benchmark harness*: the operating
  system's behaviour, drawing, files and network.
