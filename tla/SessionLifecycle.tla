-------------------------- MODULE SessionLifecycle --------------------------
(* The lifecycle of a driver session, cua-driver-core/src/session.rs, with   *)
(* the deprecated capture policy of capture_scope.rs that a session carries. *)
(*                                                                           *)
(* The code keeps four process-wide tables, each behind a mutex of its own:  *)
(* tombstones, live records, last activity and cleanup progress; the capture *)
(* policies are a fifth, in another module.  An operation takes these locks  *)
(* one after another, so a thread can be overtaken between any two critical  *)
(* sections.  One action below is one critical section (nested locks are one *)
(* action), and a thread's place between two of them is th[t].pc.            *)
EXTENDS Naturals, FiniteSets

CONSTANTS
    Sessions,   \* runtime-private session ids
    Owners,     \* authenticated transports
    Callers,    \* threads that run tool calls, one call at a time
    Sweeper,    \* the maintenance thread of the runtime
    Hooks,      \* registered session-end hooks, run in ascending order
    MayFail,    \* the hooks whose callback may return Err or panic
    Policies    \* capture scopes a start_session of this instance asks for

None     == "none"
NotEnded == "not ended"
Unowned  == "unowned"

ASSUME NameAssumption ==
    /\ {None, NotEnded, Unowned} \cap (Owners \cup Sessions) = {}
    /\ Sweeper \notin Callers
    /\ IsFiniteSet(Callers)

ASSUME HookAssumption == /\ Hooks \subseteq Nat
                         /\ IsFiniteSet(Hooks)
                         /\ MayFail \subseteq Hooks

ASSUME PolicyAssumption == Policies \subseteq {"auto", "window", "desktop"}

Threads == Callers \cup {Sweeper}

VARIABLES
    ended,      \* ended_sessions: the tombstone and the transport it names
    recOwner,   \* lifecycle_records: owner_transport, None without a record
    inFlight,   \* lifecycle_records: admitted dispatches
    pendingEnd, \* lifecycle_records: an end waits for the dispatches
    activity,   \* activity: last use, against the idle TTL
    cleanup,    \* cleanup_progress: hooks done, and whether a retry is running
    policy,     \* capture_scope::scopes: "unlocked" is an escalated "auto"
    th          \* what each thread is doing

tables == <<ended, recOwner, inFlight, pendingEnd, activity, cleanup, policy>>
vars   == <<ended, recOwner, inFlight, pendingEnd, activity, cleanup, policy, th>>

NoCleanup == [present |-> FALSE, completed |-> {}, running |-> FALSE]
Idle == [pc |-> "idle", why |-> None, sid |-> None, who |-> None, want |-> None,
         todo |-> {}, work |-> {}, successes |-> {}]

Init ==
    /\ ended      = [s \in Sessions |-> NotEnded]
    /\ recOwner   = [s \in Sessions |-> None]
    /\ inFlight   = [s \in Sessions |-> 0]
    /\ pendingEnd = [s \in Sessions |-> FALSE]
    /\ activity   = [s \in Sessions |-> "absent"]
    /\ cleanup    = [s \in Sessions |-> NoCleanup]
    /\ policy     = [s \in Sessions |-> None]
    /\ th         = [t \in Threads |-> Idle]

-----------------------------------------------------------------------------
(* Moving a thread on.                                                       *)

At(t, pc)     == th[t].pc = pc
Goto(t, pc)   == th' = [th EXCEPT ![t].pc = pc]
Return(t)     == th' = [th EXCEPT ![t] = Idle]
Enter(t, job) == th' = [th EXCEPT ![t] = job]
Job(pc, why, s, o) == [Idle EXCEPT !.pc = pc, !.why = why, !.sid = s, !.who = o]

\* Mutant of Touch: refreshes a running clock but never starts one.
TouchRunningClock(s) ==
    activity' = [activity EXCEPT ![s] = IF @ = "absent" THEN @ ELSE "fresh"]

Touch(s) == activity' = [activity EXCEPT ![s] = "fresh"]

-----------------------------------------------------------------------------
(* begin_session_dispatch and the RAII guard of an admitted call.            *)

\* Mutant of Admits: the tombstone is not looked at again under the lock.
AdmitsEnded(s, o) == recOwner[s] \in {None, o} /\ ~pendingEnd[s]

Admits(s, o) ==
    /\ ended[s] = NotEnded
    /\ recOwner[s] \in {None, o}
    /\ ~pendingEnd[s]

\* Tombstone check and record insertion share one critical section.
BeginDispatch(t, s, o) ==
    /\ At(t, "idle")
    /\ Admits(s, o)
    /\ recOwner' = [recOwner EXCEPT ![s] = o]
    /\ inFlight' = [inFlight EXCEPT ![s] = @ + 1]
    /\ Enter(t, Job("touch", "call", s, o))
    /\ UNCHANGED <<ended, pendingEnd, activity, cleanup, policy>>

\* The idle clock is refreshed after the admission locks are released; a
\* declared session goes on to bind a policy, a call starts running.
TouchActivity(t) ==
    /\ At(t, "touch")
    /\ Touch(th[t].sid)
    /\ IF th[t].why = "call"         THEN Goto(t, "running")
       ELSE IF th[t].want \in Policies THEN Goto(t, "bind")
       ELSE Return(t)
    /\ UNCHANGED <<ended, recOwner, inFlight, pendingEnd, cleanup, policy>>

\* Mutant of AfterDrop: a plain subtraction.
AfterDropUnsaturated(s) == inFlight[s] - 1

AfterDrop(s) == IF inFlight[s] = 0 THEN 0 ELSE inFlight[s] - 1

TakesEnd(s) == AfterDrop(s) = 0 /\ pendingEnd[s]

\* Drop of the guard: no record means the session went away under the call.
\* The last guard takes a pending end and completes it.
DropGuard(t) ==
    LET s == th[t].sid IN
    /\ At(t, "running")
    /\ \/ /\ recOwner[s] = None
          /\ Return(t)
          /\ UNCHANGED tables
       \/ /\ recOwner[s] # None
          /\ inFlight' = [inFlight EXCEPT ![s] = AfterDrop(s)]
          /\ Touch(s)
          /\ pendingEnd' = [pendingEnd EXCEPT ![s] = @ /\ ~TakesEnd(s)]
          /\ IF TakesEnd(s) THEN Goto(t, "mark") ELSE Return(t)
          /\ UNCHANGED <<ended, recOwner, cleanup, policy>>

-----------------------------------------------------------------------------
(* Ending a session: end_session_for_owner, end_session_with_reason and      *)
(* finish_session_end.                                                       *)

EndSession(t, s, o) ==
    /\ At(t, "idle")
    /\ Enter(t, Job("own record?", "end", s, o))
    /\ UNCHANGED tables

\* session_owner_matches looks at the record, then at the tombstone.
OwnsRecord(t) ==
    /\ At(t, "own record?")
    /\ Goto(t, IF recOwner[th[t].sid] = th[t].who THEN "check" ELSE "own tombstone?")
    /\ UNCHANGED tables

OwnsTombstone(t) ==
    /\ At(t, "own tombstone?")
    /\ IF ended[th[t].sid] = th[t].who THEN Goto(t, "check") ELSE Return(t)
    /\ UNCHANGED tables

\* Leave the current session: the next one of the list, or the end of the call.
LeaveSession(t) ==
    IF th[t].todo = {} THEN Return(t) ELSE Goto(t, "next")

NextSession(t) ==
    /\ At(t, "next")
    /\ \E s \in th[t].todo :
           Enter(t, [th[t] EXCEPT !.pc = "check", !.sid = s, !.todo = @ \ {s},
                                  !.work = {}, !.successes = {}])
    /\ UNCHANGED tables

\* Mutant of MustWait: off by one, any record defers the end.
MustWaitForIdle(s) == recOwner[s] # None /\ inFlight[s] >= 0

MustWait(s) == recOwner[s] # None /\ inFlight[s] > 0

\* An end waits for admitted dispatches; without any it goes on, but only
\* after the records lock is released.
DeferOrEnd(t) ==
    LET s == th[t].sid IN
    /\ At(t, "check")
    /\ IF MustWait(s)
       THEN /\ pendingEnd' = [pendingEnd EXCEPT ![s] = TRUE]
            /\ LeaveSession(t)
       ELSE /\ Goto(t, "mark")
            /\ UNCHANGED pendingEnd
    /\ UNCHANGED <<ended, recOwner, inFlight, activity, cleanup, policy>>

\* mark_session_ended, its first lock.
ForgetActivity(t) ==
    /\ At(t, "mark")
    /\ activity' = [activity EXCEPT ![th[t].sid] = "absent"]
    /\ Goto(t, "bury")
    /\ UNCHANGED <<ended, recOwner, inFlight, pendingEnd, cleanup, policy>>

\* Mutant of TombstoneOwner: the record is dropped before its owner is read.
TombstoneOwnerLost(s) == Unowned

TombstoneOwner(s) == IF recOwner[s] = None THEN Unowned ELSE recOwner[s]

\* mark_session_ended, the critical section over tombstones and records.
\* Only the thread that installs the tombstone initialises the cleanup.
MarkEnded(t) ==
    LET s == th[t].sid IN
    /\ At(t, "bury")
    /\ recOwner'   = [recOwner EXCEPT ![s] = None]
    /\ inFlight'   = [inFlight EXCEPT ![s] = 0]
    /\ pendingEnd' = [pendingEnd EXCEPT ![s] = FALSE]
    /\ IF ended[s] = NotEnded
       THEN /\ ended' = [ended EXCEPT ![s] = TombstoneOwner(s)]
            /\ Goto(t, "clear")
       ELSE /\ Goto(t, "retry")
            /\ UNCHANGED ended
    /\ UNCHANGED <<activity, cleanup, policy>>

-----------------------------------------------------------------------------
(* initialize_session_cleanup and retry_session_cleanup.                     *)

ClearPolicy(t) ==
    /\ At(t, "clear")
    /\ policy' = [policy EXCEPT ![th[t].sid] = None]
    /\ Goto(t, "install")
    /\ UNCHANGED <<ended, recOwner, inFlight, pendingEnd, activity, cleanup>>

\* Mutant of CleanupWith: a fresh cleanup is taken to be running already.
CleanupBornRunning(done) ==
    [present |-> TRUE, completed |-> done, running |-> done = {}]

CleanupWith(done) == [present |-> TRUE, completed |-> done, running |-> FALSE]

InstallCleanup(t) ==
    /\ At(t, "install")
    /\ cleanup' = [cleanup EXCEPT ![th[t].sid] = CleanupWith({})]
    /\ Goto(t, "retry")
    /\ UNCHANGED <<ended, recOwner, inFlight, pendingEnd, activity, policy>>

\* What the caller of retry_session_cleanup does with the report: a start goes
\* on only when the cleanup is complete, an end ignores it.
AfterCleanup(t, complete) ==
    IF th[t].why # "start" THEN LeaveSession(t)
    ELSE IF complete       THEN Goto(t, "claim")
    ELSE Return(t)

StartRetry(t) ==
    LET s == th[t].sid
        c == cleanup[s]
    IN  /\ At(t, "retry")
        /\ IF ~c.present \/ c.running
           THEN /\ AfterCleanup(t, ~c.present)
                /\ UNCHANGED cleanup
           ELSE /\ cleanup' = [cleanup EXCEPT ![s].running = TRUE]
                /\ Enter(t, [th[t] EXCEPT !.pc = "hooks",
                                          !.work = Hooks \ c.completed,
                                          !.successes = {}])
        /\ UNCHANGED <<ended, recOwner, inFlight, pendingEnd, activity, policy>>

\* One hook, outside every lock; a panic is caught and counts as a failure.
RunHook(t) ==
    /\ At(t, "hooks")
    /\ \E h \in th[t].work :
        /\ \A g \in th[t].work : h <= g
        /\ \E ok \in {TRUE} \cup (IF h \in MayFail THEN {FALSE} ELSE {}) :
               Enter(t, [th[t] EXCEPT !.work = @ \ {h},
                                      !.successes = IF ok THEN @ \cup {h} ELSE @])
    /\ UNCHANGED tables

FinishRetry(t) ==
    LET s    == th[t].sid
        done == cleanup[s].completed \cup th[t].successes
    IN  /\ At(t, "hooks")
        /\ th[t].work = {}
        /\ IF ~cleanup[s].present
           THEN /\ AfterCleanup(t, TRUE)
                /\ UNCHANGED cleanup
           ELSE /\ cleanup' = [cleanup EXCEPT ![s] =
                       IF done = Hooks THEN NoCleanup ELSE CleanupWith(done)]
                /\ AfterCleanup(t, done = Hooks)
        /\ UNCHANGED <<ended, recOwner, inFlight, pendingEnd, activity, policy>>

-----------------------------------------------------------------------------
(* start_session: activate_or_revive_session_for_owner, then bind_session.   *)

BasePolicy(p) == IF p = "unlocked" THEN "auto" ELSE p

\* The tool refuses a request that contradicts the bound policy up front.
StartSession(t, s, o, want) ==
    /\ At(t, "idle")
    /\ want # None => BasePolicy(policy[s]) \in {None, want}
    /\ Enter(t, [Job("admit", "start", s, o) EXCEPT !.want = want])
    /\ UNCHANGED tables

\* Mutant of MayRevive: a known label is enough.
MayReviveAnyone(s, o) == ended[s] # NotEnded

\* A tombstone is open to the transport it names; one without an owner only to
\* the direct runtime, whose owner key is the session id.
MayRevive(s, o) == ended[s] = o \/ (ended[s] = Unowned /\ o = s)

AdmitStart(t) ==
    LET s == th[t].sid IN
    /\ At(t, "admit")
    /\ IF ended[s] = NotEnded               THEN Goto(t, "claim")
       ELSE IF MayRevive(s, th[t].who) THEN Goto(t, "retry")
       ELSE Return(t)
    /\ UNCHANGED tables

\* Ownership is rechecked; then record insertion and tombstone removal are one
\* critical section.
ClaimSession(t) ==
    LET s  == th[t].sid
        o  == th[t].who
        ok == /\ ended[s] = NotEnded \/ MayRevive(s, o)
              /\ recOwner[s] \in {None, o}
              /\ ~pendingEnd[s]
    IN  /\ At(t, "claim")
        /\ IF ok THEN /\ recOwner' = [recOwner EXCEPT ![s] = o]
                      /\ ended'    = [ended EXCEPT ![s] = NotEnded]
                      /\ Goto(t, "touch")
                 ELSE /\ Return(t)
                      /\ UNCHANGED <<recOwner, ended>>
        /\ UNCHANGED <<inFlight, pendingEnd, activity, cleanup, policy>>

\* Mutant of ScopeOpen: the tombstone is not read under the scopes lock.
ScopeAlwaysOpen(s) == TRUE

ScopeOpen(s) == ended[s] = NotEnded

\* The tombstone is read while the scopes lock is held.
BindPolicy(t) ==
    LET s == th[t].sid IN
    /\ At(t, "bind")
    /\ policy' = IF ScopeOpen(s) /\ policy[s] = None
                 THEN [policy EXCEPT ![s] = th[t].want] ELSE policy
    /\ Return(t)
    /\ UNCHANGED <<ended, recOwner, inFlight, pendingEnd, activity, cleanup>>

\* escalate_session: visible to its owner, then unlocked under the scopes lock.
EscalateSession(t, s, o) ==
    /\ At(t, "idle")
    /\ recOwner[s] = o
    /\ Enter(t, Job("unlock", "escalate", s, o))
    /\ UNCHANGED tables

UnlockDesktop(t) ==
    LET s == th[t].sid IN
    /\ At(t, "unlock")
    /\ policy' = IF ScopeOpen(s) /\ policy[s] = "auto"
                 THEN [policy EXCEPT ![s] = "unlocked"] ELSE policy
    /\ Return(t)
    /\ UNCHANGED <<ended, recOwner, inFlight, pendingEnd, activity, cleanup>>

-----------------------------------------------------------------------------
(* Ending many sessions: the idle sweep, transport close and revocation.     *)
(* Each takes a snapshot of ids and then ends them one by one.               *)

EndAll(t, why, o, ids) ==
    /\ ids # {}
    /\ Enter(t, [Job("next", why, None, o) EXCEPT !.todo = ids])
    /\ UNCHANGED tables

CloseTransport(t, o) ==
    /\ At(t, "idle")
    /\ EndAll(t, "close", o, {s \in Sessions : recOwner[s] = o})

RevokeAll(t) ==
    /\ At(t, "idle")
    /\ EndAll(t, "revoke", None, {s \in Sessions : activity[s] # "absent"})

\* Mutant of NotInFlight: only ids with a record are candidates.
RecordedNotInFlight == {s \in Sessions : recOwner[s] # None /\ inFlight[s] = 0}

NotInFlight == {s \in Sessions : inFlight[s] = 0}

\* The sweep reads the records, then the activity table; an id without a
\* record counts as not in flight.
SweepRecords(t) ==
    /\ At(t, "idle")
    /\ Enter(t, [Job("scan", "sweep", None, None) EXCEPT !.todo = NotInFlight])
    /\ UNCHANGED tables

SweepActivity(t) ==
    LET stale == {s \in th[t].todo : activity[s] = "stale"} IN
    /\ At(t, "scan")
    /\ IF stale = {} THEN Return(t)
       ELSE Enter(t, [th[t] EXCEPT !.pc = "next", !.todo = stale])
    /\ UNCHANGED tables

\* Time passes: the idle TTL of a session elapses.
Expire(s) ==
    /\ activity[s] = "fresh"
    /\ activity' = [activity EXCEPT ![s] = "stale"]
    /\ UNCHANGED <<ended, recOwner, inFlight, pendingEnd, cleanup, policy, th>>

-----------------------------------------------------------------------------
Request(t) ==
    \/ \E s \in Sessions, o \in Owners :
           \/ BeginDispatch(t, s, o)
           \/ EndSession(t, s, o)
           \/ EscalateSession(t, s, o)
           \/ \E want \in Policies \cup {None} : StartSession(t, s, o, want)
    \/ \E o \in Owners : CloseTransport(t, o)
    \/ RevokeAll(t)

\* What a thread does once it has started: it never waits for a request.
Continue(t) ==
    \/ TouchActivity(t) \/ DropGuard(t)
    \/ OwnsRecord(t) \/ OwnsTombstone(t) \/ NextSession(t) \/ DeferOrEnd(t)
    \/ ForgetActivity(t) \/ MarkEnded(t) \/ ClearPolicy(t) \/ InstallCleanup(t)
    \/ StartRetry(t) \/ RunHook(t) \/ FinishRetry(t)
    \/ AdmitStart(t) \/ ClaimSession(t) \/ BindPolicy(t) \/ UnlockDesktop(t)
    \/ SweepActivity(t)

Next ==
    \/ \E t \in Callers : Request(t)
    \/ SweepRecords(Sweeper)
    \/ \E t \in Threads : Continue(t)
    \/ \E s \in Sessions : Expire(s)

Spec == Init /\ [][Next]_vars

\* The operating system schedules every thread, tool calls return, the
\* maintenance loop comes round and the clock advances.  No request is fair.
Fairness ==
    /\ \A t \in Threads : WF_vars(Continue(t))
    /\ WF_vars(SweepRecords(Sweeper))
    /\ \A s \in Sessions : WF_vars(Expire(s))

FairSpec == Spec /\ Fairness

-----------------------------------------------------------------------------
(* Properties.                                                               *)

PCs == {"idle", "touch", "running", "own record?", "own tombstone?", "next",
        "check", "mark", "bury", "clear", "install", "retry", "hooks", "admit",
        "claim", "bind", "unlock", "scan"}

ThreadState ==
    [pc : PCs, sid : Sessions \cup {None}, who : Owners \cup {None},
     why : {None, "call", "end", "start", "escalate", "close", "revoke", "sweep"},
     want : Policies \cup {None}, todo : SUBSET Sessions,
     work : SUBSET Hooks, successes : SUBSET Hooks]

\* The values every table and every thread can hold.
TypeOK ==
    /\ ended      \in [Sessions -> Owners \cup {NotEnded, Unowned}]
    /\ recOwner   \in [Sessions -> Owners \cup {None}]
    /\ inFlight   \in [Sessions -> Nat]
    /\ pendingEnd \in [Sessions -> BOOLEAN]
    /\ activity   \in [Sessions -> {"absent", "fresh", "stale"}]
    /\ cleanup    \in [Sessions -> [present : BOOLEAN, completed : SUBSET Hooks,
                                    running : BOOLEAN]]
    /\ policy     \in [Sessions -> Policies \cup {None, "unlocked"}]
    /\ th         \in [Threads -> ThreadState]

Busy(s, pcs) == \E t \in Threads : th[t].sid = s /\ th[t].pc \in pcs

\* The calls that hold, or are about to be handed, a dispatch guard of s.
Guards(s) == {t \in Threads : /\ th[t].sid = s
                              /\ th[t].why = "call"
                              /\ th[t].pc \in {"touch", "running"}}

\* A session is never live and ended at once, however admissions, ends and
\* revivals overlap: every transition holds the tombstone lock around the
\* record lock.
TombstoneExcludesRecord ==
    \A s \in Sessions : ended[s] # NotEnded => recOwner[s] = None

\* A late bind or escalation cannot outlive its session: a policy bound to an
\* ended session is one that the end has yet to clear.
PolicyDiesWithSession ==
    \A s \in Sessions :
        policy[s] # None /\ ended[s] # NotEnded => Busy(s, {"clear"})

\* A live session has an idle clock, so the sweep can reclaim it; the gaps are
\* a clock about to be started and a record about to be removed.
LiveSessionHasClock ==
    \A s \in Sessions :
        recOwner[s] # None => activity[s] # "absent" \/ Busy(s, {"touch", "bury"})

\* A pending end waits for a call that will drop a guard: a count never exceeds
\* the guards there are, though a record may be removed and made again under them.
PendingEndHasCall ==
    \A s \in Sessions :
        /\ inFlight[s] <= Cardinality(Guards(s))
        /\ pendingEnd[s] => recOwner[s] # None /\ inFlight[s] > 0

\* A cleanup marked running has a thread that runs its hooks and will unmark it.
RunningCleanupHasThread ==
    \A s \in Sessions : cleanup[s].running => Busy(s, {"hooks"})

\* The tables agree with one another and with the threads, though each has a
\* mutex of its own.
TablesAgree ==
    /\ TombstoneExcludesRecord /\ LiveSessionHasClock
    /\ PendingEndHasCall /\ RunningCleanupHasThread

\* The transport a session id belongs to, in life and after it.
Holder(s) == IF ended[s] # NotEnded THEN ended[s] ELSE recOwner[s]

Ending   == {"check", "mark", "bury", "clear", "install"}
Cleaning == {"retry", "hooks"}

\* A transport that merely guesses the label of another cannot end the
\* session nor run a cleanup callback of it.
OnlyHolderEndsOrCleans ==
    \A t \in Threads :
        /\ th[t].why \in {"start", "end"}
        /\ th[t].pc \in Ending \cup Cleaning
        => th[t].who = Holder(th[t].sid)

Phase(s) == IF ended[s] # NotEnded THEN "ended"
            ELSE IF recOwner[s] # None THEN "live" ELSE "unknown"

Episode == INSTANCE SessionEpisode
               WITH Nobody <- None,
                    phase  <- [s \in Sessions |-> Phase(s)],
                    holder <- [s \in Sessions |-> Holder(s)]

\* Tables and threads together implement the episodes of SessionEpisode: an id
\* never changes hands and never becomes unknown again.
ImplementsEpisode == Episode!Spec

\* A deferred end is carried out once the calls it waits for return.
PendingEndIsCarriedOut ==
    \A s \in Sessions : pendingEnd[s] ~> recOwner[s] = None

\* A session nobody uses is reclaimed by the idle sweep; the sweep also drops
\* the activity entry that a call racing an end leaves without a record.
IdleSessionIsReclaimed ==
    \A s \in Sessions :
        (activity[s] = "stale" /\ inFlight[s] = 0)
            ~> (activity[s] # "stale" \/ inFlight[s] > 0)

\* With hooks that succeed, an installed cleanup finishes and unblocks revival.
CleanupFinishes ==
    \A s \in Sessions : cleanup[s].present ~> ~cleanup[s].present

-----------------------------------------------------------------------------
(* What the documentation says and the code does not keep.                   *)

\* session.rs, SessionDispatchGuard: "Idle eviction cannot end the session
\* while this guard is alive."
GuardKeepsSession ==
    \A s \in Sessions : Guards(s) # {} => recOwner[s] # None

\* session.rs, activate_or_revive_session_for_owner: "Cleanup is completed
\* before the transition", the transition being the removal of a tombstone.
CleanupPrecedesRevival ==
    [][\A s \in Sessions :
           ended[s] # NotEnded /\ ended'[s] = NotEnded
               => ~Busy(s, {"clear", "install"}) /\ ~cleanup[s].present]_vars
=============================================================================
