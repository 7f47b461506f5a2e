----------------------- MODULE SessionLifecycleProofs -----------------------
(* Theorems of SessionLifecycle for every set of sessions, transports,       *)
(* callers, hooks and policies.                                              *)
EXTENDS SessionLifecycle, FiniteSetTheorems, TLAPS

-----------------------------------------------------------------------------
(* Type correctness.                                                         *)

LEMMA IdleType == Idle \in ThreadState
BY DEF Idle, ThreadState, PCs

LEMMA GotoType ==
    ASSUME TypeOK, NEW t \in Threads, NEW pc \in PCs, Goto(t, pc)
    PROVE  th' \in [Threads -> ThreadState]
<1>1. th[t] \in ThreadState
  BY DEF TypeOK
<1>2. [th[t] EXCEPT !.pc = pc] \in ThreadState
  BY <1>1 DEF ThreadState
<1>3. th' = [th EXCEPT ![t] = [th[t] EXCEPT !.pc = pc]]
  BY DEF Goto, TypeOK
<1> QED
  BY <1>2, <1>3 DEF TypeOK

LEMMA ReturnType ==
    ASSUME TypeOK, NEW t \in Threads, Return(t)
    PROVE  th' \in [Threads -> ThreadState]
BY IdleType DEF TypeOK, Return

LEMMA EnterType ==
    ASSUME TypeOK, NEW t \in Threads, NEW job \in ThreadState, Enter(t, job)
    PROVE  th' \in [Threads -> ThreadState]
BY DEF TypeOK, Enter

LEMMA LeaveType ==
    ASSUME TypeOK, NEW t \in Threads, LeaveSession(t)
    PROVE  th' \in [Threads -> ThreadState]
BY GotoType, ReturnType DEF LeaveSession, PCs

LEMMA AfterCleanupType ==
    ASSUME TypeOK, NEW t \in Threads, NEW c \in BOOLEAN, AfterCleanup(t, c)
    PROVE  th' \in [Threads -> ThreadState]
BY GotoType, ReturnType, LeaveType DEF AfterCleanup, PCs


LEMMA JobType ==
    ASSUME NEW pc \in PCs, NEW s \in Sessions \cup {None}, NEW o \in Owners \cup {None},
           NEW why \in {"call", "end", "start", "escalate", "close", "revoke", "sweep"}
    PROVE  Job(pc, why, s, o) \in ThreadState
BY DEF Job, Idle, ThreadState, PCs

\* Requests: what a thread does when it leaves "idle".
LEMMA TypeRequest ==
    ASSUME TypeOK, NEW t \in Threads, Request(t) \/ SweepRecords(t)
    PROVE  TypeOK'
<1>1. ASSUME NEW s \in Sessions, NEW o \in Owners, BeginDispatch(t, s, o)
      PROVE  TypeOK'
  <2>1. th' \in [Threads -> ThreadState]
    BY <1>1, EnterType, JobType DEF BeginDispatch, PCs
  <2> QED
    BY <1>1, <2>1 DEF BeginDispatch, TypeOK
<1>2. ASSUME NEW s \in Sessions, NEW o \in Owners, EndSession(t, s, o)
      PROVE  TypeOK'
  <2>1. th' \in [Threads -> ThreadState]
    BY <1>2, EnterType, JobType DEF EndSession, PCs
  <2> QED
    BY <1>2, <2>1 DEF EndSession, TypeOK, tables
<1>3. ASSUME NEW s \in Sessions, NEW o \in Owners, EscalateSession(t, s, o)
      PROVE  TypeOK'
  <2>1. th' \in [Threads -> ThreadState]
    BY <1>3, EnterType, JobType DEF EscalateSession, PCs
  <2> QED
    BY <1>3, <2>1 DEF EscalateSession, TypeOK, tables
<1>4. ASSUME NEW s \in Sessions, NEW o \in Owners, NEW want \in Policies \cup {None},
             StartSession(t, s, o, want)
      PROVE  TypeOK'
  <2> DEFINE job == [Job("admit", "start", s, o) EXCEPT !.want = want]
  <2>1. Job("admit", "start", s, o) \in ThreadState
    BY JobType DEF PCs
  <2>2. job \in ThreadState
    BY <2>1 DEF ThreadState
  <2>3. th' \in [Threads -> ThreadState]
    BY <1>4, <2>2, EnterType DEF StartSession
  <2> QED
    BY <1>4, <2>3 DEF StartSession, TypeOK, tables
<1>5. ASSUME NEW why \in {"close", "revoke"}, NEW o \in Owners \cup {None},
             NEW ids \in SUBSET Sessions, EndAll(t, why, o, ids)
      PROVE  TypeOK'
  <2>1. Job("next", why, None, o) \in ThreadState
    BY JobType DEF PCs
  <2>2. [Job("next", why, None, o) EXCEPT !.todo = ids] \in ThreadState
    BY <2>1 DEF ThreadState
  <2>3. th' \in [Threads -> ThreadState]
    BY <1>5, <2>2, EnterType DEF EndAll
  <2> QED
    BY <1>5, <2>3 DEF EndAll, TypeOK, tables
<1>6. ASSUME SweepRecords(t)
      PROVE  TypeOK'
  <2> DEFINE ids == {s \in Sessions : inFlight[s] = 0}
  <2>1. Job("scan", "sweep", None, None) \in ThreadState
    BY JobType DEF PCs
  <2>2. [Job("scan", "sweep", None, None) EXCEPT !.todo = ids] \in ThreadState
    BY <2>1 DEF ThreadState
  <2>3. th' \in [Threads -> ThreadState]
    BY <1>6, <2>2, EnterType DEF SweepRecords, NotInFlight
  <2> QED
    BY <1>6, <2>3 DEF SweepRecords, TypeOK, tables
<1>7. ASSUME NEW o \in Owners, CloseTransport(t, o)
      PROVE  TypeOK'
  BY <1>5, <1>7 DEF CloseTransport
<1>8. ASSUME RevokeAll(t)
      PROVE  TypeOK'
  BY <1>5, <1>8 DEF RevokeAll
<1> QED
  BY <1>1, <1>2, <1>3, <1>4, <1>6, <1>7, <1>8 DEF Request

\* Every step of a call that has started.
LEMMA TypeContinue ==
    ASSUME TypeOK, NEW t \in Threads, Continue(t)
    PROVE  TypeOK'
<1>1. ASSUME TouchActivity(t)
      PROVE  TypeOK'
  <2>1. th' \in [Threads -> ThreadState]
    BY <1>1, GotoType, ReturnType DEF TouchActivity, PCs
  <2> QED
    BY <1>1, <2>1 DEF TouchActivity, TypeOK, Touch
<1>2. ASSUME DropGuard(t)
      PROVE  TypeOK'
  <2>1. th' \in [Threads -> ThreadState]
    BY <1>2, GotoType, ReturnType DEF DropGuard, PCs
  <2> QED
    <3> DEFINE s    == th[t].sid
               left == AfterDrop(s)
               more == pendingEnd[s] /\ ~TakesEnd(s)
    <3>1. CASE UNCHANGED tables
      BY <2>1, <3>1 DEF TypeOK, tables
    <3>2. CASE /\ inFlight' = [inFlight EXCEPT ![s] = left]
               /\ Touch(s)
               /\ pendingEnd' = [pendingEnd EXCEPT ![s] = more]
               /\ UNCHANGED <<ended, recOwner, cleanup, policy>>
      <4>1. inFlight' \in [Sessions -> Nat]
        <5>1. s \in Sessions => left \in Nat
          BY DEF TypeOK, AfterDrop
        <5> HIDE DEF left, s
        <5> QED BY <3>2, <5>1 DEF TypeOK
      <4>2. more \in BOOLEAN
        BY Zenon
      <4>3. pendingEnd' \in [Sessions -> BOOLEAN]
        <5> HIDE DEF more
        <5> QED BY <3>2, <4>2 DEF TypeOK
      <4> QED
        BY <2>1, <3>2, <4>1, <4>3 DEF TypeOK, Touch
    <3> QED
      BY <1>2, <3>1, <3>2 DEF DropGuard
<1>3. ASSUME OwnsRecord(t)
      PROVE  TypeOK'
  <2>1. th' \in [Threads -> ThreadState]
    BY <1>3, GotoType, ReturnType DEF OwnsRecord, PCs
  <2> QED
    BY <1>3, <2>1 DEF OwnsRecord, TypeOK, tables
<1>4. ASSUME OwnsTombstone(t)
      PROVE  TypeOK'
  <2>1. th' \in [Threads -> ThreadState]
    BY <1>4, GotoType, ReturnType DEF OwnsTombstone, PCs
  <2> QED
    BY <1>4, <2>1 DEF OwnsTombstone, TypeOK, tables
<1>5. ASSUME NextSession(t)
      PROVE  TypeOK'
  <2>1. PICK s \in th[t].todo :
             Enter(t, [th[t] EXCEPT !.pc = "check", !.sid = s, !.todo = @ \ {s},
                                    !.work = {}, !.successes = {}])
    BY <1>5 DEF NextSession
  <2>2. th[t] \in ThreadState
    BY DEF TypeOK
  <2>3. [th[t] EXCEPT !.pc = "check", !.sid = s, !.todo = @ \ {s},
                      !.work = {}, !.successes = {}] \in ThreadState
    BY <2>2 DEF ThreadState, PCs
  <2>4. th' \in [Threads -> ThreadState]
    BY <2>1, <2>3, EnterType
  <2> QED
    BY <1>5, <2>4 DEF NextSession, TypeOK, tables
<1>6. ASSUME DeferOrEnd(t)
      PROVE  TypeOK'
  <2>1. th' \in [Threads -> ThreadState]
    BY <1>6, GotoType, LeaveType DEF DeferOrEnd, PCs
  <2> QED
    BY <1>6, <2>1 DEF DeferOrEnd, TypeOK
<1>7. ASSUME ForgetActivity(t)
      PROVE  TypeOK'
  <2>1. th' \in [Threads -> ThreadState]
    BY <1>7, GotoType, ReturnType DEF ForgetActivity, PCs
  <2> QED
    BY <1>7, <2>1 DEF ForgetActivity, TypeOK
<1>8. ASSUME MarkEnded(t)
      PROVE  TypeOK'
  <2>1. th' \in [Threads -> ThreadState]
    BY <1>8, GotoType, ReturnType DEF MarkEnded, PCs
  <2> QED
    BY <1>8, <2>1 DEF MarkEnded, TypeOK, TombstoneOwner
<1>9. ASSUME ClearPolicy(t)
      PROVE  TypeOK'
  <2>1. th' \in [Threads -> ThreadState]
    BY <1>9, GotoType, ReturnType DEF ClearPolicy, PCs
  <2> QED
    BY <1>9, <2>1 DEF ClearPolicy, TypeOK
<1>10. ASSUME InstallCleanup(t)
      PROVE  TypeOK'
  <2>1. th' \in [Threads -> ThreadState]
    BY <1>10, GotoType, ReturnType DEF InstallCleanup, PCs
  <2> QED
    BY <1>10, <2>1 DEF InstallCleanup, TypeOK, CleanupWith
<1>11. ASSUME StartRetry(t)
      PROVE  TypeOK'
  <2> DEFINE s   == th[t].sid
             job == [th[t] EXCEPT !.pc = "hooks",
                                  !.work = Hooks \ cleanup[s].completed,
                                  !.successes = {}]
  <2>1. th[t] \in ThreadState
    BY DEF TypeOK
  <2>2. job \in ThreadState
    BY <2>1 DEF ThreadState, PCs
  <2>3. CASE ~cleanup[s].present \/ cleanup[s].running
    <3>1. th' \in [Threads -> ThreadState]
      BY <1>11, <2>3, AfterCleanupType DEF StartRetry
    <3> QED
      BY <1>11, <2>3, <3>1 DEF StartRetry, TypeOK
  <2>4. CASE ~(~cleanup[s].present \/ cleanup[s].running)
    <3>1. th' \in [Threads -> ThreadState]
      BY <1>11, <2>2, <2>4, EnterType DEF StartRetry
    <3>2. cleanup' = [cleanup EXCEPT ![s] = [cleanup[s] EXCEPT !.running = TRUE]]
      BY <1>11, <2>4 DEF StartRetry
    <3>3. s \in Sessions => [cleanup[s] EXCEPT !.running = TRUE]
                 \in [present : BOOLEAN, completed : SUBSET Hooks, running : BOOLEAN]
      BY DEF TypeOK
    <3>4. UNCHANGED <<ended, recOwner, inFlight, pendingEnd, activity, policy>>
      BY <1>11 DEF StartRetry
    <3> QED
      BY <3>1, <3>2, <3>3, <3>4 DEF TypeOK
  <2> QED
    BY <2>3, <2>4
<1>12. ASSUME RunHook(t)
      PROVE  TypeOK'
  <2>1. PICK h \in th[t].work, ok \in BOOLEAN :
             Enter(t, [th[t] EXCEPT !.work = @ \ {h},
                                    !.successes = IF ok THEN @ \cup {h} ELSE @])
    BY <1>12 DEF RunHook
  <2>2. th[t] \in ThreadState
    BY DEF TypeOK
  <2>3. [th[t] EXCEPT !.work = @ \ {h},
                      !.successes = IF ok THEN @ \cup {h} ELSE @] \in ThreadState
    BY <2>2 DEF ThreadState
  <2>4. th' \in [Threads -> ThreadState]
    BY <2>1, <2>3, EnterType
  <2> QED
    BY <1>12, <2>4 DEF RunHook, TypeOK, tables
<1>13. ASSUME FinishRetry(t)
      PROVE  TypeOK'
  <2> DEFINE s    == th[t].sid
             done == cleanup[s].completed \cup th[t].successes
  <2>1. th' \in [Threads -> ThreadState]
    BY <1>13, AfterCleanupType DEF FinishRetry
  <2>2. s \in Sessions => done \in SUBSET Hooks
    BY DEF TypeOK, ThreadState
  <2>3. cleanup' \in [Sessions -> [present : BOOLEAN, completed : SUBSET Hooks,
                                   running : BOOLEAN]]
    <3> DEFINE c == IF done = Hooks THEN NoCleanup ELSE CleanupWith(done)
    <3>1. cleanup' = cleanup \/ cleanup' = [cleanup EXCEPT ![s] = c]
      BY <1>13 DEF FinishRetry
    <3>2. s \in Sessions => c \in [present : BOOLEAN, completed : SUBSET Hooks,
                                   running : BOOLEAN]
      BY <2>2 DEF NoCleanup, CleanupWith
    <3> HIDE DEF c
    <3> QED
      BY <3>1, <3>2 DEF TypeOK
  <2> QED
    BY <1>13, <2>1, <2>3 DEF FinishRetry, TypeOK
<1>14. ASSUME AdmitStart(t)
      PROVE  TypeOK'
  <2>1. th' \in [Threads -> ThreadState]
    BY <1>14, GotoType, ReturnType DEF AdmitStart, PCs
  <2> QED
    BY <1>14, <2>1 DEF AdmitStart, TypeOK, tables
<1>15. ASSUME ClaimSession(t)
      PROVE  TypeOK'
  <2>1. th' \in [Threads -> ThreadState]
    BY <1>15, GotoType, ReturnType DEF ClaimSession, PCs
  <2> QED
    BY <1>15, <2>1, th[t] \in ThreadState DEF ClaimSession, TypeOK, ThreadState
<1>16. ASSUME BindPolicy(t)
      PROVE  TypeOK'
  <2>1. th' \in [Threads -> ThreadState]
    BY <1>16, GotoType, ReturnType DEF BindPolicy, PCs
  <2> QED
    BY <1>16, <2>1, th[t] \in ThreadState DEF BindPolicy, TypeOK, ThreadState
<1>17. ASSUME UnlockDesktop(t)
      PROVE  TypeOK'
  <2>1. th' \in [Threads -> ThreadState]
    BY <1>17, GotoType, ReturnType DEF UnlockDesktop, PCs
  <2> QED
    BY <1>17, <2>1 DEF UnlockDesktop, TypeOK
<1>18. ASSUME SweepActivity(t)
      PROVE  TypeOK'
  <2> DEFINE stale == {s \in th[t].todo : activity[s] = "stale"}
  <2>1. th[t] \in ThreadState
    BY DEF TypeOK
  <2>2. [th[t] EXCEPT !.pc = "next", !.todo = stale] \in ThreadState
    BY <2>1 DEF ThreadState, PCs
  <2>3. th' \in [Threads -> ThreadState]
    BY <1>18, <2>2, EnterType, ReturnType DEF SweepActivity
  <2> QED
    BY <1>18, <2>3 DEF SweepActivity, TypeOK, tables
<1> QED
  BY <1>1, <1>2, <1>3, <1>4, <1>5, <1>6, <1>7, <1>8, <1>9, <1>10, <1>11, <1>12, <1>13, <1>14, <1>15, <1>16, <1>17, <1>18 DEF Continue

LEMMA TypeNext == TypeOK /\ [Next]_vars => TypeOK'
<1> SUFFICES ASSUME TypeOK, [Next]_vars
             PROVE  TypeOK'
  OBVIOUS
<1>1. CASE \E t \in Callers : Request(t)
  BY <1>1, TypeRequest DEF Threads
<1>2. CASE SweepRecords(Sweeper)
  BY <1>2, TypeRequest DEF Threads
<1>3. CASE \E t \in Threads : Continue(t)
  BY <1>3, TypeContinue
<1>4. CASE \E s \in Sessions : Expire(s)
  BY <1>4 DEF Expire, TypeOK
<1>5. CASE UNCHANGED vars
  BY <1>5 DEF vars, TypeOK
<1> QED
  BY <1>1, <1>2, <1>3, <1>4, <1>5 DEF Next

LEMMA TypeInit == Init => TypeOK
BY IdleType DEF Init, TypeOK, NoCleanup

\* Every table and every thread keeps its type: in particular a job only ever
\* carries ids, hooks and policies it was given.
THEOREM TypeCorrect == Spec => []TypeOK
BY TypeInit, TypeNext, PTL DEF Spec

-----------------------------------------------------------------------------
(* A session id belongs to one transport, in life and after it.  The         *)
(* strengthening says that an id a thread is about to end is not unknown, so *)
(* that an end never has to install a tombstone without an owner, and that   *)
(* a transport past its ownership check is the holder of the id.             *)

Known(s) == Phase(s) # "unknown"

WithSession == {"touch", "running", "own record?", "own tombstone?", "check", "mark",
                "bury", "clear", "install", "retry", "hooks", "admit", "claim",
                "bind", "unlock"}
Asking      == {"own record?", "own tombstone?", "admit", "claim"}
OnKnown     == {"touch", "check", "mark", "bury"}

JobOK(t) ==
    /\ th[t].pc \in WithSession => th[t].sid \in Sessions
    /\ th[t].pc \in Asking => th[t].who \in Owners
    /\ th[t].pc \in OnKnown => Known(th[t].sid)
    /\ th[t].pc # "scan" => \A s \in th[t].todo : Known(s)
    /\ th[t].pc = "running" => th[t].why = "call"
    /\ th[t].why \in {"start", "end"} => th[t].todo = {}
    /\ th[t].why \in {"start", "end"} /\ th[t].pc \in Ending \cup Cleaning
           => th[t].who \in Owners /\ th[t].who = Holder(th[t].sid)

HolderInv ==
    /\ TypeOK
    /\ TombstoneExcludesRecord
    /\ \A s \in Sessions : ended[s] # Unowned
    /\ \A s \in Sessions : activity[s] # "absent" => Known(s)
    /\ \A t \in Threads : JobOK(t)

\* The critical sections that write a tombstone or a record owner.
LEMMA LifeSteps ==
    ASSUME [Next]_vars
    PROVE  \/ UNCHANGED <<ended, recOwner>>
           \/ \E t \in Callers, s \in Sessions, o \in Owners : BeginDispatch(t, s, o)
           \/ \E t \in Threads : MarkEnded(t) \/ ClaimSession(t)
<1>1. CASE \E t \in Callers : Request(t)
  BY <1>1 DEF Request, EndSession, EscalateSession, StartSession, CloseTransport,
              RevokeAll, EndAll, tables
<1>2. CASE SweepRecords(Sweeper)
  BY <1>2 DEF SweepRecords, tables
<1>3. CASE \E t \in Threads : Continue(t)
  BY <1>3 DEF Continue, TouchActivity, DropGuard, OwnsRecord, OwnsTombstone,
              NextSession, DeferOrEnd, ForgetActivity, ClearPolicy, InstallCleanup,
              StartRetry, RunHook, FinishRetry, AdmitStart, BindPolicy,
              UnlockDesktop, SweepActivity, tables
<1>4. CASE \E s \in Sessions : Expire(s)
  BY <1>4 DEF Expire
<1>5. CASE UNCHANGED vars
  BY <1>5 DEF vars
<1> QED
  BY <1>1, <1>2, <1>3, <1>4, <1>5 DEF Next

\* Declare, end and revive, as the two tables see them: one step of the
\* abstract episode of one id, or none at all.
LEMMA LifeStep ==
    ASSUME HolderInv, [Next]_vars
    PROVE  \/ UNCHANGED <<ended, recOwner>>
           \/ \E s \in Sessions, o \in Owners :
                 /\ Phase(s) = "unknown" \/ Holder(s) = o
                 /\ recOwner' = [recOwner EXCEPT ![s] = o]
                 /\ ended' = [ended EXCEPT ![s] = NotEnded]
           \/ \E s \in Sessions :
                 /\ Phase(s) = "live"
                 /\ ended' = [ended EXCEPT ![s] = recOwner[s]]
                 /\ recOwner' = [recOwner EXCEPT ![s] = None]
<1> USE NameAssumption DEF None, NotEnded, Unowned
<1>1. CASE \E t \in Callers, s \in Sessions, o \in Owners : BeginDispatch(t, s, o)
  <2>1. PICK t \in Callers, s \in Sessions, o \in Owners : BeginDispatch(t, s, o)
    BY <1>1
  <2>2. ended' = [ended EXCEPT ![s] = NotEnded]
    BY <2>1 DEF BeginDispatch, Admits, HolderInv, TypeOK
  <2>3. Phase(s) = "unknown" \/ Holder(s) = o
    BY <2>1 DEF BeginDispatch, Admits, Phase, Holder
  <2> QED
    BY <2>1, <2>2, <2>3 DEF BeginDispatch
<1>2. ASSUME NEW t \in Threads, MarkEnded(t)
      PROVE  \/ UNCHANGED <<ended, recOwner>>
             \/ \E s \in Sessions :
                   /\ Phase(s) = "live"
                   /\ ended' = [ended EXCEPT ![s] = recOwner[s]]
                   /\ recOwner' = [recOwner EXCEPT ![s] = None]
  <2> DEFINE s == th[t].sid
  <2>1. s \in Sessions /\ Known(s)
    BY <1>2 DEF HolderInv, JobOK, MarkEnded, At, WithSession, OnKnown
  <2>2. CASE ended[s] = NotEnded
    <3>1. Phase(s) = "live" /\ recOwner[s] # None
      BY <2>1, <2>2 DEF Known, Phase
    <3> QED
      BY <1>2, <2>1, <2>2, <3>1 DEF MarkEnded, TombstoneOwner
  <2>3. CASE ended[s] # NotEnded
    <3>1. recOwner[s] = None
      BY <2>1, <2>3 DEF HolderInv, TombstoneExcludesRecord
    <3> QED
      BY <1>2, <2>1, <2>3, <3>1 DEF MarkEnded, HolderInv, TypeOK
  <2> QED
    BY <2>2, <2>3
<1>3. ASSUME NEW t \in Threads, ClaimSession(t)
      PROVE  \/ UNCHANGED <<ended, recOwner>>
             \/ \E s \in Sessions, o \in Owners :
                   /\ Phase(s) = "unknown" \/ Holder(s) = o
                   /\ recOwner' = [recOwner EXCEPT ![s] = o]
                   /\ ended' = [ended EXCEPT ![s] = NotEnded]
  <2> DEFINE s == th[t].sid
             o == th[t].who
  <2>1. s \in Sessions /\ o \in Owners
    BY <1>3 DEF HolderInv, JobOK, ClaimSession, At, WithSession, Asking
  <2>2. ended[s] # Unowned
    BY <2>1 DEF HolderInv
  <2>3. (ended[s] = NotEnded \/ MayRevive(s, o)) /\ recOwner[s] \in {None, o}
            => Phase(s) = "unknown" \/ Holder(s) = o
    BY <2>1, <2>2 DEF MayRevive, Phase, Holder
  <2> QED
    BY <1>3, <2>1, <2>3 DEF ClaimSession
<1> QED
  BY LifeSteps, <1>1, <1>2, <1>3

\* A known id stays known and keeps its holder; the exclusion is kept.
LEMMA HolderStep ==
    ASSUME HolderInv, [Next]_vars
    PROVE  /\ TombstoneExcludesRecord'
           /\ \A s \in Sessions : ended'[s] # Unowned
           /\ \A s \in Sessions : Known(s) => Known(s)' /\ Holder(s)' = Holder(s)
<1> USE NameAssumption DEF None, NotEnded, Unowned
<1>1. /\ ended \in [Sessions -> Owners \cup {NotEnded, Unowned}]
      /\ recOwner \in [Sessions -> Owners \cup {None}]
      /\ TombstoneExcludesRecord
      /\ \A s \in Sessions : ended[s] # Unowned
  BY DEF HolderInv, TypeOK
<1>2. CASE UNCHANGED <<ended, recOwner>>
  BY <1>1, <1>2 DEF TombstoneExcludesRecord, Known, Phase, Holder
<1>3. ASSUME NEW s \in Sessions, NEW o \in Owners,
             Phase(s) = "unknown" \/ Holder(s) = o,
             recOwner' = [recOwner EXCEPT ![s] = o],
             ended' = [ended EXCEPT ![s] = NotEnded]
      PROVE  /\ TombstoneExcludesRecord'
             /\ \A r \in Sessions : ended'[r] # Unowned
             /\ \A r \in Sessions : Known(r) => Known(r)' /\ Holder(r)' = Holder(r)
  BY <1>1, <1>3 DEF TombstoneExcludesRecord, Known, Phase, Holder
<1>4. ASSUME NEW s \in Sessions, Phase(s) = "live",
             ended' = [ended EXCEPT ![s] = recOwner[s]],
             recOwner' = [recOwner EXCEPT ![s] = None]
      PROVE  /\ TombstoneExcludesRecord'
             /\ \A r \in Sessions : ended'[r] # Unowned
             /\ \A r \in Sessions : Known(r) => Known(r)' /\ Holder(r)' = Holder(r)
  <2>1. recOwner[s] \in Owners /\ ended[s] = NotEnded
    BY <1>1, <1>4 DEF Phase
  <2> QED
    BY <1>1, <1>4, <2>1 DEF TombstoneExcludesRecord, Known, Phase, Holder
<1> QED
  BY LifeStep, <1>2, <1>3, <1>4

\* What moving a thread does to the locals of that thread and of the others.
LEMMA GotoEffect ==
    ASSUME TypeOK, NEW t \in Threads, NEW pc, Goto(t, pc)
    PROVE  /\ \A u \in Threads \ {t} : th'[u] = th[u]
           /\ th'[t].pc = pc
           /\ th'[t].sid = th[t].sid /\ th'[t].who = th[t].who
           /\ th'[t].why = th[t].why /\ th'[t].todo = th[t].todo
BY DEF Goto, TypeOK, ThreadState

LEMMA ReturnEffect ==
    ASSUME TypeOK, NEW t \in Threads, Return(t)
    PROVE  /\ \A u \in Threads \ {t} : th'[u] = th[u]
           /\ th'[t].pc = "idle" /\ th'[t].todo = {} /\ th'[t].why = None
BY DEF Return, TypeOK, Idle

LEMMA EnterEffect ==
    ASSUME TypeOK, NEW t \in Threads, NEW job, Enter(t, job)
    PROVE  /\ \A u \in Threads \ {t} : th'[u] = th[u]
           /\ th'[t] = job
BY DEF Enter, TypeOK

LEMMA LeaveEffect ==
    ASSUME TypeOK, NEW t \in Threads, LeaveSession(t)
    PROVE  /\ \A u \in Threads \ {t} : th'[u] = th[u]
           /\ th'[t].pc \in {"idle", "next"}
           /\ th'[t].todo \subseteq th[t].todo
BY GotoEffect, ReturnEffect DEF LeaveSession

LEMMA AfterCleanupEffect ==
    ASSUME TypeOK, NEW t \in Threads, NEW c, AfterCleanup(t, c)
    PROVE  /\ \A u \in Threads \ {t} : th'[u] = th[u]
           /\ th'[t].todo \subseteq th[t].todo
           /\ \/ th'[t].pc \in {"idle", "next"}
              \/ /\ th'[t].pc = "claim" /\ th[t].why = "start"
                 /\ th'[t].sid = th[t].sid /\ th'[t].who = th[t].who
BY GotoEffect, ReturnEffect, LeaveEffect DEF AfterCleanup

\* The thread that does not move keeps its job well formed.
LEMMA OtherJobs ==
    ASSUME HolderInv, [Next]_vars, NEW u \in Threads, th'[u] = th[u]
    PROVE  JobOK(u)'
<1>1. JobOK(u) /\ th[u].todo \subseteq Sessions
  BY DEF HolderInv, TypeOK, ThreadState
<1>2. \A s \in Sessions : Known(s) => Known(s)' /\ Holder(s)' = Holder(s)
  BY HolderStep
<1>3. th[u].pc \in Ending \cup Cleaning => th[u].pc \in WithSession
  BY DEF Ending, Cleaning, WithSession
<1>4. th[u].pc \in OnKnown => th[u].pc \in WithSession
  BY DEF OnKnown, WithSession
<1>5. th'[u].pc \in OnKnown => Known(th[u].sid)'
  BY <1>1, <1>2, <1>4 DEF JobOK, Known, Phase
<1>6. th'[u].pc # "scan" => \A s \in th'[u].todo : Known(s)'
  BY <1>1, <1>2 DEF JobOK
<1>7. th'[u].why \in {"start", "end"} /\ th'[u].pc \in Ending \cup Cleaning
          => th'[u].who \in Owners /\ th'[u].who = Holder(th[u].sid)'
  <2> SUFFICES ASSUME th[u].why \in {"start", "end"}, th[u].pc \in Ending \cup Cleaning
               PROVE  th'[u].who \in Owners /\ th'[u].who = Holder(th[u].sid)'
    OBVIOUS
  <2>1. th[u].sid \in Sessions /\ th[u].who \in Owners /\ th[u].who = Holder(th[u].sid)
    BY <1>1, <1>3 DEF JobOK
  <2>2. Known(th[u].sid)
    BY <2>1, NameAssumption DEF Known, Phase, Holder, None
  <2> QED
    BY <1>2, <2>1, <2>2 DEF Holder
<1> QED
  BY <1>1, <1>5, <1>6, <1>7 DEF JobOK

\* A thread that goes on with its job, or is done with it.
LEMMA JobGoes ==
    ASSUME HolderInv, [Next]_vars, NEW t \in Threads, NEW pc \in PCs \ {"scan"},
           Goto(t, pc), th[t].pc \in WithSession,
           pc \in Asking => th[t].who \in Owners,
           pc \in OnKnown => Known(th[t].sid),
           pc = "running" => th[t].why = "call",
           th[t].why \in {"start", "end"} /\ pc \in Ending \cup Cleaning
               => th[t].who \in Owners /\ th[t].who = Holder(th[t].sid)
    PROVE  JobOK(t)' /\ \A u \in Threads \ {t} : th'[u] = th[u]
<1>1. /\ \A u \in Threads \ {t} : th'[u] = th[u]
      /\ th'[t].pc = pc
      /\ th'[t].sid = th[t].sid /\ th'[t].who = th[t].who
      /\ th'[t].why = th[t].why /\ th'[t].todo = th[t].todo
  BY GotoEffect DEF HolderInv
<1>2. /\ th[t].sid \in Sessions
      /\ th[t].todo \subseteq Sessions
      /\ \A s \in th[t].todo : Known(s)
      /\ th[t].why \in {"start", "end"} => th[t].todo = {}
  BY DEF HolderInv, JobOK, TypeOK, ThreadState, WithSession
<1>3. \A s \in Sessions : Known(s) => Known(s)' /\ Holder(s)' = Holder(s)
  BY HolderStep
<1>4. th'[t].pc \in OnKnown => Known(th[t].sid)'
  BY <1>1, <1>2, <1>3 DEF Known, Phase
<1>5. \A s \in th'[t].todo : Known(s)'
  BY <1>1, <1>2, <1>3
<1>6. th'[t].why \in {"start", "end"} /\ th'[t].pc \in Ending \cup Cleaning
          => th'[t].who \in Owners /\ th'[t].who = Holder(th[t].sid)'
  <2> SUFFICES ASSUME th[t].why \in {"start", "end"}, pc \in Ending \cup Cleaning
               PROVE  th'[t].who \in Owners /\ th'[t].who = Holder(th[t].sid)'
    BY <1>1
  <2>1. Known(th[t].sid)
    BY NameAssumption DEF Known, Phase, Holder, None
  <2> QED
    BY <1>1, <1>2, <1>3, <2>1 DEF Holder
<1> QED
  BY <1>1, <1>2, <1>4, <1>5, <1>6 DEF JobOK

LEMMA JobReturns ==
    ASSUME HolderInv, NEW t \in Threads, Return(t)
    PROVE  JobOK(t)' /\ \A u \in Threads \ {t} : th'[u] = th[u]
BY ReturnEffect DEF HolderInv, JobOK, WithSession, Asking, OnKnown, Ending, Cleaning, None

LEMMA JobLeaves ==
    ASSUME HolderInv, [Next]_vars, NEW t \in Threads, LeaveSession(t),
           th[t].pc \in WithSession
    PROVE  JobOK(t)' /\ \A u \in Threads \ {t} : th'[u] = th[u]
BY JobGoes, JobReturns DEF LeaveSession, PCs, Asking, OnKnown, Ending, Cleaning

LEMMA JobCleans ==
    ASSUME HolderInv, [Next]_vars, NEW t \in Threads, NEW c, AfterCleanup(t, c),
           th[t].pc \in Cleaning
    PROVE  JobOK(t)' /\ \A u \in Threads \ {t} : th'[u] = th[u]
<1>1. th[t].pc \in WithSession /\ (th[t].why = "start" => th[t].who \in Owners)
  BY DEF HolderInv, JobOK, Cleaning, WithSession
<1> QED
  BY <1>1, JobGoes, JobReturns, JobLeaves
  DEF AfterCleanup, PCs, Asking, OnKnown, Ending, Cleaning

\* A thread that keeps on cleaning the session it was cleaning.
LEMMA JobStays ==
    ASSUME HolderInv, [Next]_vars, NEW t \in Threads,
           th[t].pc \in Cleaning, th'[t].pc \in Cleaning,
           th'[t].sid = th[t].sid, th'[t].who = th[t].who,
           th'[t].why = th[t].why, th'[t].todo = th[t].todo
    PROVE  JobOK(t)'
<1>1. /\ th[t].sid \in Sessions
      /\ th[t].todo \subseteq Sessions
      /\ \A s \in th[t].todo : Known(s)
      /\ th[t].why \in {"start", "end"} =>
            th[t].todo = {} /\ th[t].who \in Owners /\ th[t].who = Holder(th[t].sid)
  BY DEF HolderInv, JobOK, TypeOK, ThreadState, WithSession, Cleaning
<1>2. \A s \in Sessions : Known(s) => Known(s)' /\ Holder(s)' = Holder(s)
  BY HolderStep
<1>3. \A s \in th'[t].todo : Known(s)'
  BY <1>1, <1>2
<1>4. th'[t].why \in {"start", "end"} =>
          th'[t].who \in Owners /\ th'[t].who = Holder(th[t].sid)'
  <2> SUFFICES ASSUME th[t].why \in {"start", "end"}
               PROVE  th'[t].who \in Owners /\ th'[t].who = Holder(th[t].sid)'
    OBVIOUS
  <2>1. Known(th[t].sid)
    BY <1>1, NameAssumption DEF Known, Phase, Holder, None
  <2> QED
    BY <1>1, <1>2, <2>1 DEF Holder
<1> QED
  BY <1>1, <1>3, <1>4 DEF JobOK, Cleaning, WithSession, Asking, OnKnown

\* Every step of a call keeps the job of its thread well formed.
LEMMA JobContinues ==
    ASSUME HolderInv, [Next]_vars, NEW t \in Threads, Continue(t)
    PROVE  JobOK(t)' /\ \A u \in Threads \ {t} : th'[u] = th[u]
<1> USE NameAssumption DEF None, NotEnded, Unowned
<1>0. /\ JobOK(t) /\ TypeOK /\ th[t] \in ThreadState
      /\ \A s \in Sessions : ended[s] # NotEnded => recOwner[s] = None
      /\ \A s \in Sessions : ended[s] # Unowned
  BY DEF HolderInv, TypeOK, TombstoneExcludesRecord
<1>1. CASE TouchActivity(t)
  BY <1>0, <1>1, JobGoes, JobReturns
  DEF TouchActivity, At, PCs, WithSession, Asking, OnKnown, Ending, Cleaning
<1>2. CASE DropGuard(t)
  <2>1. th[t].why \notin {"start", "end"}
    BY <1>0, <1>2 DEF DropGuard, At, JobOK
  <2>2. recOwner[th[t].sid] # None => Known(th[t].sid)
    BY DEF Known, Phase
  <2> QED
    BY <1>2, <2>1, <2>2, JobGoes, JobReturns
    DEF DropGuard, At, PCs, WithSession, Asking, OnKnown
<1>3. CASE OwnsRecord(t)
  <2>1. th[t].sid \in Sessions /\ th[t].who \in Owners
    BY <1>0, <1>3 DEF OwnsRecord, At, JobOK, WithSession, Asking
  <2>2. CASE recOwner[th[t].sid] = th[t].who
    <3>1. Known(th[t].sid) /\ th[t].who = Holder(th[t].sid)
      BY <1>0, <2>1, <2>2 DEF Known, Phase, Holder
    <3> QED
      BY <1>3, <2>1, <2>2, <3>1, JobGoes DEF OwnsRecord, At, PCs, WithSession
  <2>3. CASE recOwner[th[t].sid] # th[t].who
    BY <1>3, <2>1, <2>3, JobGoes
    DEF OwnsRecord, At, PCs, WithSession, OnKnown, Ending, Cleaning
  <2> QED
    BY <2>2, <2>3
<1>4. CASE OwnsTombstone(t)
  <2>1. th[t].sid \in Sessions /\ th[t].who \in Owners
    BY <1>0, <1>4 DEF OwnsTombstone, At, JobOK, WithSession, Asking
  <2>2. CASE ended[th[t].sid] = th[t].who
    <3>1. Known(th[t].sid) /\ th[t].who = Holder(th[t].sid)
      BY <1>0, <2>1, <2>2 DEF Known, Phase, Holder
    <3> QED
      BY <1>4, <2>1, <2>2, <3>1, JobGoes DEF OwnsTombstone, At, PCs, WithSession
  <2>3. CASE ended[th[t].sid] # th[t].who
    BY <1>4, <2>3, JobReturns DEF OwnsTombstone
  <2> QED
    BY <2>2, <2>3
<1>5. CASE NextSession(t)
  <2>1. PICK s \in th[t].todo :
             Enter(t, [th[t] EXCEPT !.pc = "check", !.sid = s, !.todo = @ \ {s},
                                    !.work = {}, !.successes = {}])
    BY <1>5 DEF NextSession
  <2>2. /\ \A u \in Threads \ {t} : th'[u] = th[u]
        /\ th'[t].pc = "check" /\ th'[t].sid = s /\ th'[t].why = th[t].why
        /\ th'[t].todo = th[t].todo \ {s}
    <3>1. /\ \A u \in Threads \ {t} : th'[u] = th[u]
          /\ th'[t] = [th[t] EXCEPT !.pc = "check", !.sid = s, !.todo = @ \ {s},
                                    !.work = {}, !.successes = {}]
      BY <1>0, <2>1 DEF Enter, TypeOK
    <3> QED
      BY <1>0, <3>1 DEF ThreadState
  <2>3. th[t].todo \subseteq Sessions /\ \A r \in th[t].todo : Known(r)
    BY <1>0, <1>5 DEF NextSession, At, JobOK, ThreadState
  <2>4. \A r \in th[t].todo : Known(r)'
    BY <2>3, HolderStep
  <2>5. Known(s)' /\ s \in Sessions
    BY <2>3, <2>4
  <2>6. th[t].why \notin {"start", "end"}
    BY <1>0, <1>5 DEF NextSession, At, JobOK
  <2> QED
    BY <2>2, <2>4, <2>5, <2>6 DEF JobOK, Asking, Known, Phase
<1>6. CASE DeferOrEnd(t)
  <2>1. /\ th[t].pc = "check" /\ th[t].sid \in Sessions /\ Known(th[t].sid)
        /\ th[t].why \in {"start", "end"} => /\ th[t].who \in Owners
                                             /\ th[t].who = Holder(th[t].sid)
    BY <1>0, <1>6 DEF DeferOrEnd, At, JobOK, WithSession, OnKnown, Ending
  <2> QED
    BY <1>6, <2>1, JobGoes, JobLeaves DEF DeferOrEnd, PCs, WithSession, Asking
<1>7. CASE ForgetActivity(t)
  <2>1. /\ th[t].pc = "mark" /\ th[t].sid \in Sessions /\ Known(th[t].sid)
        /\ th[t].why \in {"start", "end"} => /\ th[t].who \in Owners
                                             /\ th[t].who = Holder(th[t].sid)
    BY <1>0, <1>7 DEF ForgetActivity, At, JobOK, WithSession, OnKnown, Ending
  <2> QED
    BY <1>7, <2>1, JobGoes DEF ForgetActivity, PCs, WithSession, Asking
<1>8. CASE MarkEnded(t)
  <2>1. /\ th[t].pc = "bury"
        /\ th[t].why \in {"start", "end"} => /\ th[t].who \in Owners
                                             /\ th[t].who = Holder(th[t].sid)
    BY <1>0, <1>8 DEF MarkEnded, At, JobOK, Ending
  <2> QED
    BY <1>8, <2>1, JobGoes DEF MarkEnded, PCs, WithSession, Asking, OnKnown
<1>9. CASE ClearPolicy(t)
  <2>1. /\ th[t].pc = "clear"
        /\ th[t].why \in {"start", "end"} => /\ th[t].who \in Owners
                                             /\ th[t].who = Holder(th[t].sid)
    BY <1>0, <1>9 DEF ClearPolicy, At, JobOK, Ending
  <2> QED
    BY <1>9, <2>1, JobGoes DEF ClearPolicy, PCs, WithSession, Asking, OnKnown
<1>10. CASE InstallCleanup(t)
  <2>1. /\ th[t].pc = "install"
        /\ th[t].why \in {"start", "end"} => /\ th[t].who \in Owners
                                             /\ th[t].who = Holder(th[t].sid)
    BY <1>0, <1>10 DEF InstallCleanup, At, JobOK, Ending
  <2> QED
    BY <1>10, <2>1, JobGoes DEF InstallCleanup, PCs, WithSession, Asking, OnKnown
<1>11. CASE StartRetry(t)
  <2>1. th[t].pc = "retry"
    BY <1>11 DEF StartRetry, At
  <2>2. CASE AfterCleanup(t, ~cleanup[th[t].sid].present)
    BY <2>1, <2>2, JobCleans DEF Cleaning
  <2>3. CASE Enter(t, [th[t] EXCEPT !.pc = "hooks",
                           !.work = Hooks \ cleanup[th[t].sid].completed,
                           !.successes = {}])
    <3>1. /\ \A u \in Threads \ {t} : th'[u] = th[u]
          /\ th'[t].pc = "hooks" /\ th'[t].sid = th[t].sid /\ th'[t].who = th[t].who
          /\ th'[t].why = th[t].why /\ th'[t].todo = th[t].todo
      <4>1. /\ \A u \in Threads \ {t} : th'[u] = th[u]
            /\ th'[t] = [th[t] EXCEPT !.pc = "hooks",
                            !.work = Hooks \ cleanup[th[t].sid].completed,
                            !.successes = {}]
        BY <1>0, <2>3 DEF Enter, TypeOK
      <4> QED
        BY <1>0, <4>1 DEF ThreadState
    <3> QED
      BY <1>0, <2>1, <3>1, JobStays DEF Cleaning
  <2> QED
    BY <1>11, <2>2, <2>3 DEF StartRetry
<1>12. CASE RunHook(t)
  <2>1. PICK h \in th[t].work, ok \in BOOLEAN :
             Enter(t, [th[t] EXCEPT !.work = @ \ {h},
                                    !.successes = IF ok THEN @ \cup {h} ELSE @])
    BY <1>12 DEF RunHook
  <2>2. /\ \A u \in Threads \ {t} : th'[u] = th[u]
        /\ th'[t].pc = th[t].pc /\ th'[t].sid = th[t].sid /\ th'[t].who = th[t].who
        /\ th'[t].why = th[t].why /\ th'[t].todo = th[t].todo
    <3>1. /\ \A u \in Threads \ {t} : th'[u] = th[u]
          /\ th'[t] = [th[t] EXCEPT !.work = @ \ {h},
                            !.successes = IF ok THEN @ \cup {h} ELSE @]
      BY <1>0, <2>1 DEF Enter, TypeOK
    <3> QED
      BY <1>0, <3>1 DEF ThreadState
  <2> QED
    BY <1>12, <2>2, JobStays DEF RunHook, At, Cleaning
<1>13. CASE FinishRetry(t)
  BY <1>13, JobCleans DEF FinishRetry, At, Cleaning
<1>14. CASE AdmitStart(t)
  <2> DEFINE s == th[t].sid
             o == th[t].who
  <2>1. th[t].pc = "admit" /\ s \in Sessions /\ o \in Owners
    BY <1>0, <1>14 DEF AdmitStart, At, JobOK, WithSession, Asking
  <2>2. MayRevive(s, o) => o = Holder(s)
    BY <1>0, <2>1 DEF MayRevive, Holder
  <2>3. Goto(t, "claim") \/ (Goto(t, "retry") /\ MayRevive(s, o)) \/ Return(t)
    BY <1>14 DEF AdmitStart
  <2> QED
    BY <2>1, <2>2, <2>3, JobGoes, JobReturns
    DEF PCs, WithSession, OnKnown, Ending, Cleaning
<1>15. CASE ClaimSession(t)
  <2> DEFINE s == th[t].sid
             o == th[t].who
  <2>1. th[t].pc = "claim" /\ s \in Sessions /\ o \in Owners
    BY <1>0, <1>15 DEF ClaimSession, At, JobOK, WithSession, Asking
  <2>2. CASE Goto(t, "touch") /\ recOwner' = [recOwner EXCEPT ![s] = o]
                              /\ ended' = [ended EXCEPT ![s] = NotEnded]
    <3>1. /\ \A u \in Threads \ {t} : th'[u] = th[u]
          /\ th'[t].pc = "touch" /\ th'[t].sid = s /\ th'[t].why = th[t].why
          /\ th'[t].todo = th[t].todo
      BY <1>0, <2>2, GotoEffect
    <3>2. recOwner'[s] = o /\ ended'[s] = NotEnded
      BY <1>0, <2>1, <2>2 DEF TypeOK
    <3>3. Known(s)'
      BY <2>1, <3>1, <3>2 DEF Known, Phase
    <3>4. \A r \in th'[t].todo : Known(r)'
      <4>1. th[t].todo \subseteq Sessions /\ \A r \in th[t].todo : Known(r)
        BY <1>0, <2>1 DEF JobOK, ThreadState
      <4> QED
        BY <3>1, <4>1, HolderStep
    <3>5. Known(th[t].sid)' /\ th'[t].sid \in Sessions
      BY <2>1, <3>1, <3>3
    <3>6. th[t].why \in {"start", "end"} => th[t].todo = {}
      BY <1>0 DEF JobOK
    <3> QED
      BY <3>1, <3>3, <3>4, <3>5, <3>6
      DEF JobOK, WithSession, Asking, Ending, Cleaning, Known, Phase
  <2> QED
    BY <1>15, <2>2, JobReturns DEF ClaimSession
<1>16. CASE BindPolicy(t)
  BY <1>16, JobReturns DEF BindPolicy
<1>17. CASE UnlockDesktop(t)
  BY <1>17, JobReturns DEF UnlockDesktop
<1>18. CASE SweepActivity(t)
  <2> DEFINE stale == {s \in th[t].todo : activity[s] = "stale"}
  <2>1. CASE Return(t)
    BY <2>1, JobReturns
  <2>2. CASE Enter(t, [th[t] EXCEPT !.pc = "next", !.todo = stale])
    <3>1. /\ \A u \in Threads \ {t} : th'[u] = th[u]
          /\ th'[t].pc = "next" /\ th'[t].why = th[t].why /\ th'[t].todo = stale
      <4>1. /\ \A u \in Threads \ {t} : th'[u] = th[u]
            /\ th'[t] = [th[t] EXCEPT !.pc = "next", !.todo = stale]
        BY <1>0, <2>2 DEF Enter, TypeOK
      <4> QED
        BY <1>0, <4>1 DEF ThreadState
    <3>2. \A s \in stale : s \in Sessions /\ Known(s)
      BY <1>0 DEF ThreadState, HolderInv
    <3>3. \A s \in stale : Known(s)'
      BY <3>2, HolderStep
    <3>4. th[t].why \in {"start", "end"} => stale = {}
      BY <1>0 DEF JobOK
    <3> QED
      BY <3>1, <3>3, <3>4 DEF JobOK, WithSession, Asking, OnKnown, Ending, Cleaning
  <2> QED
    BY <1>18, <2>1, <2>2 DEF SweepActivity
<1> QED
  BY <1>1, <1>2, <1>3, <1>4, <1>5, <1>6, <1>7, <1>8, <1>9, <1>10, <1>11, <1>12,
     <1>13, <1>14, <1>15, <1>16, <1>17, <1>18 DEF Continue

\* Every request starts a well-formed job.
LEMMA JobStarts ==
    ASSUME HolderInv, [Next]_vars, NEW t \in Threads, Request(t) \/ SweepRecords(t)
    PROVE  JobOK(t)' /\ \A u \in Threads \ {t} : th'[u] = th[u]
<1> USE NameAssumption DEF None, NotEnded, Unowned
<1>0. /\ TypeOK
      /\ \A s \in Sessions : ended[s] # NotEnded => recOwner[s] = None
      /\ \A s \in Sessions : activity[s] # "absent" => Known(s)
  BY DEF HolderInv, TombstoneExcludesRecord
<1>1. ASSUME NEW s \in Sessions, NEW o \in Owners, BeginDispatch(t, s, o)
      PROVE  JobOK(t)' /\ \A u \in Threads \ {t} : th'[u] = th[u]
  <2>1. /\ \A u \in Threads \ {t} : th'[u] = th[u]
        /\ th'[t] = Job("touch", "call", s, o)
    BY <1>0, <1>1, EnterEffect DEF BeginDispatch
  <2>2. /\ th'[t].pc = "touch" /\ th'[t].sid = s /\ th'[t].why = "call"
        /\ th'[t].todo = {}
    BY <2>1 DEF Job, Idle
  <2>3. recOwner'[s] = o
    BY <1>0, <1>1 DEF BeginDispatch, TypeOK
  <2>4. Phase(s)' # "unknown"
    BY <2>3 DEF Phase
  <2> QED
    BY <2>1, <2>2, <2>4
    DEF JobOK, WithSession, Asking, OnKnown, Ending, Cleaning, Known, Phase
<1>2. ASSUME NEW job, Enter(t, job), job.sid \in Sessions, job.who \in Owners,
             job.pc \in {"own record?", "unlock", "admit"}, job.todo = {}
      PROVE  JobOK(t)' /\ \A u \in Threads \ {t} : th'[u] = th[u]
  <2>1. /\ \A u \in Threads \ {t} : th'[u] = th[u]
        /\ th'[t] = job
    BY <1>0, <1>2, EnterEffect
  <2> QED
    BY <1>2, <2>1 DEF JobOK, WithSession, Asking, OnKnown, Ending, Cleaning
<1>3. ASSUME NEW s \in Sessions, NEW o \in Owners, EndSession(t, s, o)
      PROVE  JobOK(t)' /\ \A u \in Threads \ {t} : th'[u] = th[u]
  <2> DEFINE job == Job("own record?", "end", s, o)
  <2>1. job.sid = s /\ job.who = o /\ job.pc = "own record?" /\ job.todo = {}
    BY DEF Job, Idle
  <2>2. Enter(t, job)
    BY <1>3 DEF EndSession
  <2> HIDE DEF job
  <2> QED
    BY <1>2, <2>1, <2>2
<1>4. ASSUME NEW s \in Sessions, NEW o \in Owners, EscalateSession(t, s, o)
      PROVE  JobOK(t)' /\ \A u \in Threads \ {t} : th'[u] = th[u]
  <2> DEFINE job == Job("unlock", "escalate", s, o)
  <2>1. job.sid = s /\ job.who = o /\ job.pc = "unlock" /\ job.todo = {}
    BY DEF Job, Idle
  <2>2. Enter(t, job)
    BY <1>4 DEF EscalateSession
  <2> HIDE DEF job
  <2> QED
    BY <1>2, <2>1, <2>2
<1>5. ASSUME NEW s \in Sessions, NEW o \in Owners, NEW want \in Policies \cup {None},
             StartSession(t, s, o, want)
      PROVE  JobOK(t)' /\ \A u \in Threads \ {t} : th'[u] = th[u]
  <2> DEFINE job == [Job("admit", "start", s, o) EXCEPT !.want = want]
  <2>1. job.sid = s /\ job.who = o /\ job.pc = "admit" /\ job.todo = {}
    BY DEF Job, Idle
  <2>2. Enter(t, job)
    BY <1>5 DEF StartSession
  <2> HIDE DEF job
  <2> QED
    BY <1>2, <2>1, <2>2
<1>6. ASSUME NEW why \in {"close", "revoke"}, NEW o, NEW ids \in SUBSET Sessions,
             EndAll(t, why, o, ids), \A s \in ids : Known(s)
      PROVE  JobOK(t)' /\ \A u \in Threads \ {t} : th'[u] = th[u]
  <2>1. /\ \A u \in Threads \ {t} : th'[u] = th[u]
        /\ th'[t] = [Job("next", why, None, o) EXCEPT !.todo = ids]
    BY <1>0, <1>6 DEF EndAll, Enter, TypeOK
  <2>2. th'[t].pc = "next" /\ th'[t].why = why /\ th'[t].todo = ids
    BY <2>1 DEF Job, Idle
  <2>3. \A s \in ids : Known(s)'
    BY <1>6, HolderStep
  <2> QED
    BY <2>1, <2>2, <2>3 DEF JobOK, WithSession, Asking, OnKnown, Ending, Cleaning
<1>7. ASSUME NEW o \in Owners, CloseTransport(t, o)
      PROVE  JobOK(t)' /\ \A u \in Threads \ {t} : th'[u] = th[u]
  <2>1. \A s \in {s \in Sessions : recOwner[s] = o} : Known(s)
    BY DEF Known, Phase
  <2> QED
    BY <1>6, <1>7, <2>1 DEF CloseTransport
<1>8. CASE RevokeAll(t)
  <2> DEFINE ids == {s \in Sessions : activity[s] # "absent"}
  <2>1. EndAll(t, "revoke", None, ids)
    BY <1>8 DEF RevokeAll
  <2>2. \A s \in ids : Known(s)
    BY <1>0
  <2>3. ids \in SUBSET Sessions
    OBVIOUS
  <2> HIDE DEF ids
  <2> QED
    BY <1>6, <2>1, <2>2, <2>3
<1>9. CASE SweepRecords(t)
  <2> DEFINE ids == {s \in Sessions : inFlight[s] = 0}
  <2>1. /\ \A u \in Threads \ {t} : th'[u] = th[u]
        /\ th'[t] = [Job("scan", "sweep", None, None) EXCEPT !.todo = ids]
    BY <1>0, <1>9 DEF SweepRecords, NotInFlight, Enter, TypeOK
  <2>2. th'[t].pc = "scan" /\ th'[t].why = "sweep"
    BY <2>1 DEF Job, Idle
  <2> QED
    BY <2>1, <2>2 DEF JobOK, WithSession, Asking, OnKnown, Ending, Cleaning
<1> QED
  BY <1>1, <1>3, <1>4, <1>5, <1>7, <1>8, <1>9 DEF Request

\* A clock only ever runs for a known id.
LEMMA ClockStep ==
    ASSUME HolderInv, [Next]_vars
    PROVE  \A s \in Sessions : activity'[s] # "absent" => Known(s)'
<1> USE DEF None, NotEnded
<1>0. /\ activity \in [Sessions -> {"absent", "fresh", "stale"}]
      /\ \A s \in Sessions : activity[s] # "absent" => Known(s)
      /\ \A s \in Sessions : Known(s) => Known(s)'
  BY HolderStep DEF HolderInv, TypeOK
<1>1. CASE UNCHANGED activity
  BY <1>0, <1>1
<1>2. ASSUME NEW s \in Sessions, NEW v, activity' = [activity EXCEPT ![s] = v],
             Known(s) \/ v = "absent"
      PROVE  \A r \in Sessions : activity'[r] # "absent" => Known(r)'
  BY <1>0, <1>2
<1>3. ASSUME NEW t \in Threads, Continue(t)
      PROVE  \A s \in Sessions : activity'[s] # "absent" => Known(s)'
  <2>1. JobOK(t)
    BY DEF HolderInv
  <2>2. CASE TouchActivity(t)
    <3>1. th[t].sid \in Sessions /\ Known(th[t].sid)
      BY <2>1, <2>2 DEF TouchActivity, At, JobOK, WithSession, OnKnown
    <3> QED
      BY <1>2, <2>2, <3>1 DEF TouchActivity, Touch
  <2>3. CASE DropGuard(t)
    <3>1. th[t].sid \in Sessions
      BY <2>1, <2>3 DEF DropGuard, At, JobOK, WithSession
    <3>2. UNCHANGED activity \/ (Touch(th[t].sid) /\ recOwner[th[t].sid] # None)
      BY <2>3 DEF DropGuard, tables
    <3>3. recOwner[th[t].sid] # None => Known(th[t].sid)
      BY DEF Known, Phase
    <3> QED
      BY <1>1, <1>2, <3>1, <3>2, <3>3 DEF Touch
  <2>4. CASE ForgetActivity(t)
    <3>1. th[t].sid \in Sessions
      BY <2>1, <2>4 DEF ForgetActivity, At, JobOK, WithSession
    <3> QED
      BY <1>2, <2>4, <3>1 DEF ForgetActivity
  <2>5. CASE ~TouchActivity(t) /\ ~DropGuard(t) /\ ~ForgetActivity(t)
    <3>1. UNCHANGED activity
      BY <1>3, <2>5
      DEF Continue, OwnsRecord, OwnsTombstone, NextSession, DeferOrEnd, MarkEnded,
          ClearPolicy, InstallCleanup, StartRetry, RunHook, FinishRetry, AdmitStart,
          ClaimSession, BindPolicy, UnlockDesktop, SweepActivity, tables
    <3> QED
      BY <1>1, <3>1
  <2> QED
    BY <2>2, <2>3, <2>4, <2>5
<1>4. CASE \E t \in Callers : Request(t)
  <2>1. UNCHANGED activity
    BY <1>4 DEF Request, BeginDispatch, EndSession, EscalateSession, StartSession,
                CloseTransport, RevokeAll, EndAll, tables
  <2> QED
    BY <1>1, <2>1
<1>5. CASE SweepRecords(Sweeper)
  BY <1>1, <1>5 DEF SweepRecords, tables
<1>6. CASE \E s \in Sessions : Expire(s)
  <2>1. PICK s \in Sessions : Expire(s)
    BY <1>6
  <2>2. Known(s)
    BY <1>0, <2>1 DEF Expire
  <2> QED
    BY <1>2, <2>1, <2>2 DEF Expire
<1>7. CASE UNCHANGED vars
  BY <1>1, <1>7 DEF vars
<1> QED
  BY <1>3, <1>4, <1>5, <1>6, <1>7 DEF Next

LEMMA HolderInit == Init => HolderInv
<1> SUFFICES ASSUME Init
             PROVE  HolderInv
  OBVIOUS
<1>1. \A s \in Sessions : ended[s] = NotEnded /\ activity[s] = "absent"
  BY DEF Init
<1>2. \A t \in Threads : th[t].pc = "idle" /\ th[t].todo = {} /\ th[t].why = None
  BY DEF Init, Idle
<1>3. \A t \in Threads : JobOK(t)
  BY <1>2 DEF JobOK, WithSession, Asking, OnKnown, Ending, Cleaning, None
<1>4. TombstoneExcludesRecord /\ \A s \in Sessions : ended[s] # Unowned
  BY <1>1 DEF TombstoneExcludesRecord, NotEnded, Unowned
<1>5. \A s \in Sessions : activity[s] # "absent" => Known(s)
  BY <1>1
<1> QED
  BY <1>3, <1>4, <1>5, TypeInit DEF HolderInv

LEMMA HolderNext == HolderInv /\ [Next]_vars => HolderInv'
<1> SUFFICES ASSUME HolderInv, [Next]_vars
             PROVE  HolderInv'
  OBVIOUS
<1>1. TypeOK'
  BY TypeNext DEF HolderInv
<1>2. \A t \in Threads : JobOK(t)'
  <2>1. ASSUME NEW t \in Threads, Request(t) \/ SweepRecords(t) \/ Continue(t)
        PROVE  \A u \in Threads : JobOK(u)'
    <3>1. JobOK(t)' /\ \A u \in Threads \ {t} : th'[u] = th[u]
      BY <2>1, JobStarts, JobContinues
    <3>2. \A u \in Threads \ {t} : JobOK(u)'
      BY <3>1, OtherJobs
    <3> QED
      BY <3>1, <3>2
  <2>2. CASE UNCHANGED th
    BY <2>2, OtherJobs
  <2> QED
    BY <2>1, <2>2 DEF Next, Expire, vars, Threads
<1> QED
  BY <1>1, <1>2, HolderStep, ClockStep DEF HolderInv

\* The inductive invariant of the ownership argument.
THEOREM HolderCorrect == Spec => []HolderInv
BY HolderInit, HolderNext, PTL DEF Spec

\* A session is never live and ended at once.
THEOREM TombstoneExcludes == Spec => []TombstoneExcludesRecord
BY HolderCorrect, PTL DEF HolderInv

\* Only the holder of an id gets as far as ending it or running its cleanup.
THEOREM OnlyHolder == Spec => []OnlyHolderEndsOrCleans
<1>1. HolderInv => OnlyHolderEndsOrCleans
  BY DEF HolderInv, JobOK, OnlyHolderEndsOrCleans
<1> QED
  BY <1>1, HolderCorrect, PTL

-----------------------------------------------------------------------------
(* The windows an end, a start and a call leave open.                        *)

\* A thread at work on a session stays there while another one moves.
LEMMA BusyKept ==
    ASSUME NEW t \in Threads, \A u \in Threads \ {t} : th'[u] = th[u], NEW s, NEW pcs,
           th[t].pc \notin pcs \/ th[t].sid # s, Busy(s, pcs)
    PROVE  Busy(s, pcs)'
BY DEF Busy

LEMMA BusyNow ==
    ASSUME NEW t \in Threads, NEW s, NEW pcs, th'[t].sid = s, th'[t].pc \in pcs
    PROVE  Busy(s, pcs)'
BY DEF Busy

\* Where a thread is before a request and before most steps of a call.
LEMMA StepsElsewhere ==
    ASSUME NEW t \in Threads,
           \/ Request(t) \/ SweepRecords(t)
           \/ Continue(t) /\ ~(TouchActivity(t) \/ ForgetActivity(t) \/ MarkEnded(t) \/ ClearPolicy(t)
                               \/ ClaimSession(t) \/ BindPolicy(t) \/ UnlockDesktop(t))
    PROVE  th[t].pc \notin {"touch", "bury", "clear"} /\ UNCHANGED <<ended, policy>>
<1>1. CASE Request(t)
  BY <1>1 DEF Request, BeginDispatch, EndSession, EscalateSession, StartSession, CloseTransport,
     RevokeAll, EndAll, At, tables
<1>2. CASE SweepRecords(t)
  BY <1>2 DEF SweepRecords, At, tables
<1>3. CASE Continue(t) /\ ~(TouchActivity(t) \/ ForgetActivity(t) \/ MarkEnded(t) \/ ClearPolicy(t)
                            \/ ClaimSession(t) \/ BindPolicy(t) \/ UnlockDesktop(t))
  BY <1>3 DEF Continue, DropGuard, OwnsRecord, OwnsTombstone, NextSession, DeferOrEnd,
     InstallCleanup, StartRetry, RunHook, FinishRetry, AdmitStart, SweepActivity, At, tables
<1> QED
  BY <1>1, <1>2, <1>3

LEMMA PolicyNext == HolderInv /\ PolicyDiesWithSession /\ [Next]_vars => PolicyDiesWithSession'
<1> SUFFICES ASSUME HolderInv, PolicyDiesWithSession, [Next]_vars,
                    NEW s \in Sessions, policy'[s] # None, ended'[s] # NotEnded
    PROVE  Busy(s, {"clear"})'
  BY DEF PolicyDiesWithSession, Busy
<1>0. /\ policy[s] # None /\ ended[s] # NotEnded => Busy(s, {"clear"})
      /\ TypeOK
  BY DEF HolderInv, PolicyDiesWithSession
<1>1. ASSUME NEW t \in Threads, \A u \in Threads \ {t} : th'[u] = th[u], th[t].pc # "clear",
             policy[s] # None, ended[s] # NotEnded
      PROVE  Busy(s, {"clear"})'
  BY <1>0, <1>1, BusyKept
<1>2. ASSUME NEW t \in Threads, Continue(t)
      PROVE  Busy(s, {"clear"})'
  <2>1. /\ \A u \in Threads \ {t} : th'[u] = th[u]
        /\ JobOK(t)
    BY <1>2, JobContinues DEF HolderInv
  <2>2. CASE TouchActivity(t) \/ ForgetActivity(t)
    BY <1>1, <2>1, <2>2 DEF TouchActivity, ForgetActivity, At
  <2>3. CASE MarkEnded(t)
    <3>1. th[t].pc = "bury" /\ policy' = policy /\ th[t].sid \in Sessions
      BY <2>1, <2>3 DEF MarkEnded, At, JobOK, WithSession
    <3>2. CASE ended[s] # NotEnded
      BY <1>1, <2>1, <3>1, <3>2
    <3>3. CASE ended[s] = NotEnded
      <4>1. s = th[t].sid /\ Goto(t, "clear")
        BY <1>0, <2>3, <3>1, <3>3 DEF MarkEnded, TypeOK
      <4>2. th'[t].sid = s /\ th'[t].pc = "clear"
        BY <1>0, <4>1, GotoEffect
      <4> QED
        BY <4>2, BusyNow
    <3> QED
      BY <3>2, <3>3
  <2>4. CASE ClearPolicy(t)
    <3>1. th[t].sid # s /\ policy[s] # None /\ ended[s] # NotEnded
      BY <1>0, <2>4 DEF ClearPolicy, TypeOK
    <3> QED
      BY <1>0, <2>1, <3>1, BusyKept
  <2>5. CASE ClaimSession(t)
    <3>1. ended[s] # NotEnded /\ policy' = policy /\ th[t].pc = "claim"
      BY <1>0, <2>5 DEF ClaimSession, TypeOK, At
    <3> QED
      BY <1>1, <2>1, <3>1
  <2>6. CASE BindPolicy(t) \/ UnlockDesktop(t)
    <3>1. ended[s] # NotEnded /\ policy'[s] = policy[s] /\ th[t].pc # "clear"
      BY <1>0, <2>6 DEF BindPolicy, UnlockDesktop, ScopeOpen, TypeOK, At
    <3> QED
      BY <1>1, <2>1, <3>1
  <2> QED
    BY <1>1, <1>2, <2>1, <2>2, <2>3, <2>4, <2>5, <2>6, StepsElsewhere
<1>3. ASSUME NEW t \in Threads, Request(t) \/ SweepRecords(t)
      PROVE  Busy(s, {"clear"})'
  <2>1. \A u \in Threads \ {t} : th'[u] = th[u]
    BY <1>3, JobStarts
  <2> QED
    BY <1>1, <1>3, <2>1, StepsElsewhere
<1>4. CASE (\E r \in Sessions : Expire(r)) \/ UNCHANGED vars
  BY <1>0, <1>4 DEF Expire, vars, Busy
<1> QED
  BY <1>2, <1>3, <1>4 DEF Next, Threads

\* A capture policy that outlives its session for a moment is one whose clearing
\* is under way: a bind or an escalation that comes late reads the tombstone
\* under the lock it writes under (capture_scope.rs), whatever threads overlap.
THEOREM PolicyDies == Spec => []PolicyDiesWithSession
<1>1. Init => PolicyDiesWithSession
  BY DEF Init, PolicyDiesWithSession
<1> QED
  BY <1>1, HolderCorrect, PolicyNext, PTL DEF Spec

LEMMA ClockNext == HolderInv /\ LiveSessionHasClock /\ [Next]_vars => LiveSessionHasClock'
<1> SUFFICES ASSUME HolderInv, LiveSessionHasClock, [Next]_vars,
                    NEW s \in Sessions, recOwner'[s] # None, activity'[s] = "absent"
    PROVE  Busy(s, {"touch", "bury"})'
  BY DEF LiveSessionHasClock, Busy
<1>0. /\ recOwner[s] # None /\ activity[s] = "absent" => Busy(s, {"touch", "bury"})
      /\ TypeOK
  BY DEF HolderInv, LiveSessionHasClock
<1>1. ASSUME NEW t \in Threads, \A u \in Threads \ {t} : th'[u] = th[u],
             th[t].pc \notin {"touch", "bury"} \/ th[t].sid # s,
             recOwner[s] # None, activity[s] = "absent"
      PROVE  Busy(s, {"touch", "bury"})'
  BY <1>0, <1>1, BusyKept
<1>2. ASSUME NEW t \in Threads, Continue(t)
      PROVE  Busy(s, {"touch", "bury"})'
  <2>1. /\ \A u \in Threads \ {t} : th'[u] = th[u]
        /\ JobOK(t)
    BY <1>2, JobContinues DEF HolderInv
  <2>2. CASE TouchActivity(t)
    <3>1. recOwner' = recOwner /\ th[t].sid # s /\ activity[s] = "absent"
      BY <1>0, <2>2 DEF TouchActivity, Touch, TypeOK
    <3> QED
      BY <1>1, <2>1, <3>1
  <2>3. CASE ForgetActivity(t)
    <3>1. recOwner' = recOwner /\ th[t].pc = "mark" /\ Goto(t, "bury")
      BY <2>3 DEF ForgetActivity, At
    <3>2. CASE th[t].sid = s
      <4>1. th'[t].sid = s /\ th'[t].pc = "bury"
        BY <1>0, <3>1, <3>2, GotoEffect
      <4> QED
        BY <4>1, BusyNow
    <3>3. CASE th[t].sid # s
      <4>1. activity[s] = "absent"
        BY <1>0, <2>3, <3>3 DEF ForgetActivity, TypeOK
      <4> QED
        BY <1>1, <2>1, <3>1, <4>1
    <3> QED
      BY <3>2, <3>3
  <2>4. CASE MarkEnded(t)
    <3>1. th[t].sid # s /\ recOwner[s] # None /\ activity[s] = "absent"
      BY <1>0, <2>4 DEF MarkEnded, TypeOK
    <3> QED
      BY <1>1, <2>1, <3>1
  <2>5. CASE ClaimSession(t)
    <3>1. activity[s] = "absent" /\ th[t].pc = "claim"
      BY <2>5 DEF ClaimSession, At
    <3>2. CASE recOwner[s] # None
      BY <1>1, <2>1, <3>1, <3>2
    <3>3. CASE recOwner[s] = None
      <4>1. s = th[t].sid /\ Goto(t, "touch")
        BY <1>0, <2>5, <3>3 DEF ClaimSession, TypeOK
      <4>2. th'[t].sid = s /\ th'[t].pc = "touch"
        BY <1>0, <4>1, GotoEffect
      <4> QED
        BY <4>2, BusyNow
    <3> QED
      BY <3>2, <3>3
  <2>6. CASE DropGuard(t)
    <3>1. recOwner' = recOwner /\ activity[s] = "absent" /\ th[t].pc = "running"
      BY <1>0, <2>6 DEF DropGuard, Touch, TypeOK, At, tables
    <3> QED
      BY <1>1, <2>1, <3>1
  <2>7. CASE ~(TouchActivity(t) \/ ForgetActivity(t) \/ MarkEnded(t) \/ ClaimSession(t) \/ DropGuard(t))
    <3>1. UNCHANGED <<recOwner, activity>> /\ th[t].pc \notin {"touch", "bury"}
      BY <1>2, <2>7 DEF Continue, OwnsRecord, OwnsTombstone, NextSession, DeferOrEnd, ClearPolicy,
         InstallCleanup, StartRetry, RunHook, FinishRetry, AdmitStart, BindPolicy, UnlockDesktop,
         SweepActivity, At, tables
    <3> QED
      BY <1>1, <2>1, <3>1
  <2> QED
    BY <2>2, <2>3, <2>4, <2>5, <2>6, <2>7
<1>3. ASSUME NEW t \in Threads, Request(t) \/ SweepRecords(t)
      PROVE  Busy(s, {"touch", "bury"})'
  <2>1. \A u \in Threads \ {t} : th'[u] = th[u]
    BY <1>3, JobStarts
  <2>2. activity' = activity /\ th[t].pc = "idle"
    BY <1>3 DEF Request, BeginDispatch, EndSession, EscalateSession, StartSession, CloseTransport,
       RevokeAll, EndAll, SweepRecords, At, tables
  <2>3. ASSUME NEW r \in Sessions, NEW o \in Owners, BeginDispatch(t, r, o)
        PROVE  Busy(s, {"touch", "bury"})'
    <3>1. CASE s = r
      <4>1. th'[t] = Job("touch", "call", r, o)
        BY <1>0, <2>3, EnterEffect DEF BeginDispatch
      <4>2. th'[t].sid = s /\ th'[t].pc = "touch"
        BY <3>1, <4>1 DEF Job, Idle
      <4> QED
        BY <4>2, BusyNow
    <3>2. CASE s # r
      <4>1. recOwner[s] # None
        BY <1>0, <2>3, <3>2 DEF BeginDispatch, TypeOK
      <4> QED
        BY <1>1, <2>1, <2>2, <4>1
    <3> QED
      BY <3>1, <3>2
  <2>4. CASE recOwner' = recOwner
    BY <1>1, <2>1, <2>2, <2>4
  <2>5. \/ recOwner' = recOwner
        \/ \E r \in Sessions, o \in Owners : BeginDispatch(t, r, o)
    BY <1>3 DEF Request, EndSession, EscalateSession, StartSession, CloseTransport, RevokeAll, EndAll,
       SweepRecords, tables
  <2> QED
    BY <2>3, <2>4, <2>5
<1>4. ASSUME NEW r \in Sessions, Expire(r)
      PROVE  Busy(s, {"touch", "bury"})'
  <2>1. recOwner' = recOwner /\ activity[s] = "absent" /\ th' = th
    BY <1>0, <1>4 DEF Expire, TypeOK
  <2> QED
    BY <1>0, <2>1 DEF Busy
<1>5. CASE UNCHANGED vars
  BY <1>0, <1>5 DEF vars, Busy
<1> QED
  BY <1>2, <1>3, <1>4, <1>5 DEF Next, Threads

\* A live session never loses its idle clock for longer than it takes to start it
\* or to bury the session (session.rs): the sweep can always reclaim it.
THEOREM LiveHasClock == Spec => []LiveSessionHasClock
<1>1. Init => LiveSessionHasClock
  BY DEF Init, LiveSessionHasClock
<1> QED
  BY <1>1, HolderCorrect, ClockNext, PTL DEF Spec

-----------------------------------------------------------------------------
(* The dispatch counts and the guards, the cleanups and the threads.         *)

LEMMA GuardsFinite ==
    ASSUME NEW s PROVE IsFiniteSet(Guards(s)) /\ Cardinality(Guards(s)) \in Nat
<1>1. IsFiniteSet(Threads)
  BY NameAssumption, FS_AddElement DEF Threads
<1>2. Guards(s) \in SUBSET Threads
  BY DEF Guards
<1> QED
  BY <1>1, <1>2, FS_Subset, FS_CardinalityType

\* A count goes with its record.
CallsInv ==
    /\ PendingEndHasCall
    /\ \A s \in Sessions : recOwner[s] = None => inFlight[s] = 0

LEMMA GuardsPrimed == \A s : IsFiniteSet(Guards(s)') /\ Cardinality(Guards(s)') \in Nat
<1> SUFFICES ASSUME NEW s PROVE IsFiniteSet(Guards(s)') /\ Cardinality(Guards(s)') \in Nat
  OBVIOUS
<1>1. IsFiniteSet(Threads)
  BY NameAssumption, FS_AddElement DEF Threads
<1>2. Guards(s)' \in SUBSET Threads
  BY DEF Guards
<1> QED
  BY <1>1, <1>2, FS_Subset, FS_CardinalityType

\* A step of t takes no guard from a session that t has none of.
LEMMA GuardsKept ==
    ASSUME NEW t \in Threads, \A u \in Threads \ {t} : th'[u] = th[u], NEW s,
           t \notin Guards(s) \/ t \in Guards(s)'
    PROVE  Cardinality(Guards(s)) <= Cardinality(Guards(s)')
<1>1. Guards(s) \in SUBSET Guards(s)'
  BY DEF Guards
<1> QED
  BY <1>1, GuardsPrimed, FS_Subset

LEMMA CountsKept ==
    ASSUME TypeOK, CallsInv, UNCHANGED <<recOwner, inFlight, pendingEnd>>,
           \A s \in Sessions : Cardinality(Guards(s)) <= Cardinality(Guards(s)')
    PROVE  CallsInv'
<1> SUFFICES ASSUME NEW s \in Sessions
             PROVE  /\ inFlight'[s] <= Cardinality(Guards(s)')
                    /\ pendingEnd'[s] => recOwner'[s] # None /\ inFlight'[s] > 0
                    /\ recOwner'[s] = None => inFlight'[s] = 0
  BY DEF CallsInv, PendingEndHasCall
<1>1. inFlight[s] \in Nat /\ inFlight[s] <= Cardinality(Guards(s))
  BY DEF TypeOK, CallsInv, PendingEndHasCall
<1>2. inFlight'[s] <= Cardinality(Guards(s)')
  BY <1>1, GuardsFinite, GuardsPrimed
<1> QED
  BY <1>2 DEF CallsInv, PendingEndHasCall

\* The drop of a guard takes one from the count of a record, whichever call made
\* it, and takes the pending end with the last one.
LEMMA CallsDrop ==
    ASSUME HolderInv, CallsInv, [Next]_vars, NEW t \in Threads, DropGuard(t)
    PROVE  CallsInv'
<1>a. /\ TypeOK /\ th[t].pc = "running" /\ th[t].sid \in Sessions /\ th[t].why = "call"
      /\ \A u \in Threads \ {t} : th'[u] = th[u]
  BY JobContinues DEF HolderInv, DropGuard, At, JobOK, WithSession, Continue
<1>b. PICK s0 \in Sessions : s0 = th[t].sid
  BY <1>a
<1>0. /\ TypeOK /\ th[t].pc = "running" /\ s0 = th[t].sid /\ th[t].why = "call"
      /\ \A u \in Threads \ {t} : th'[u] = th[u]
  BY <1>a, <1>b
<1>1. t \in Guards(s0) /\ Guards(s0)' = Guards(s0) \ {t}
  <2>1. th'[t].pc \in {"idle", "mark"}
    BY <1>0, GotoEffect, ReturnEffect DEF DropGuard
  <2> QED
    BY <1>0, <2>1 DEF Guards
<1>2. Cardinality(Guards(s0)') = Cardinality(Guards(s0)) - 1
  BY <1>1, GuardsFinite, FS_RemoveElement
<1>3. \A s \in Sessions \ {s0} : Cardinality(Guards(s)) <= Cardinality(Guards(s)')
  <2>1. \A s \in Sessions \ {s0} : t \notin Guards(s)
    BY <1>0 DEF Guards
  <2> QED
    BY <1>0, <2>1, GuardsKept
<1>4. /\ recOwner' = recOwner
      /\ \/ UNCHANGED <<inFlight, pendingEnd>> /\ recOwner[s0] = None
         \/ /\ recOwner[s0] # None
            /\ inFlight' = [inFlight EXCEPT ![s0] = AfterDrop(s0)]
            /\ pendingEnd' = [pendingEnd EXCEPT ![s0] = @ /\ ~TakesEnd(s0)]
  BY <1>0 DEF DropGuard, tables
<1>5. /\ inFlight \in [Sessions -> Nat] /\ pendingEnd \in [Sessions -> BOOLEAN]
      /\ \A s : Cardinality(Guards(s)) \in Nat /\ Cardinality(Guards(s)') \in Nat
      /\ \A s \in Sessions : /\ inFlight[s] <= Cardinality(Guards(s))
                             /\ pendingEnd[s] => recOwner[s] # None /\ inFlight[s] > 0
                             /\ recOwner[s] = None => inFlight[s] = 0
  BY <1>0, GuardsFinite, GuardsPrimed DEF TypeOK, CallsInv, PendingEndHasCall
<1>6. ASSUME NEW s \in Sessions \ {s0}
      PROVE  /\ inFlight'[s] <= Cardinality(Guards(s)')
             /\ pendingEnd'[s] => recOwner'[s] # None /\ inFlight'[s] > 0
             /\ recOwner'[s] = None => inFlight'[s] = 0
  <2>1. inFlight'[s] = inFlight[s] /\ pendingEnd'[s] = pendingEnd[s]
    BY <1>4, <1>5
  <2>2. inFlight[s] <= Cardinality(Guards(s)) /\ Cardinality(Guards(s)) <= Cardinality(Guards(s)')
    BY <1>3, <1>5
  <2>3. inFlight[s] <= Cardinality(Guards(s)')
    BY <1>5, <2>2
  <2> QED
    BY <1>4, <1>5, <2>1, <2>3
<1>7. /\ inFlight'[s0] <= Cardinality(Guards(s0)')
      /\ pendingEnd'[s0] => recOwner'[s0] # None /\ inFlight'[s0] > 0
      /\ recOwner'[s0] = None => inFlight'[s0] = 0
  <2>0. s0 \in Sessions /\ inFlight[s0] \in Nat /\ Cardinality(Guards(s0)) \in Nat
    BY <1>5
  <2>1. Cardinality(Guards(s0)) # 0
    <3>1. Cardinality(Guards(s0)') \in Nat
      BY <1>5
    <3> QED
      BY <1>2, <2>0, <3>1
  <2>2. CASE UNCHANGED <<inFlight, pendingEnd>> /\ recOwner[s0] = None
    <3>1. inFlight[s0] = 0 /\ ~pendingEnd[s0]
      BY <1>5, <2>0, <2>2
    <3> QED
      BY <1>2, <1>4, <2>0, <2>1, <2>2, <3>1
  <2>3. CASE /\ recOwner[s0] # None
             /\ inFlight' = [inFlight EXCEPT ![s0] = AfterDrop(s0)]
             /\ pendingEnd' = [pendingEnd EXCEPT ![s0] = @ /\ ~TakesEnd(s0)]
    <3>1. inFlight'[s0] = AfterDrop(s0)
      BY <1>5, <2>0, <2>3
    <3>2. AfterDrop(s0) \in Nat /\ AfterDrop(s0) <= Cardinality(Guards(s0)')
      BY <1>2, <1>5, <2>0, <2>1 DEF AfterDrop
    <3>3. pendingEnd'[s0] => AfterDrop(s0) # 0
      BY <1>5, <2>0, <2>3 DEF TakesEnd
    <3> QED
      BY <1>4, <2>3, <3>1, <3>2, <3>3
  <2> QED
    BY <1>4, <2>2, <2>3
<1> QED
  BY <1>6, <1>7 DEF CallsInv, PendingEndHasCall

LEMMA CallsBegin ==
    ASSUME HolderInv, CallsInv, [Next]_vars, NEW t \in Threads, NEW r \in Sessions,
           NEW o \in Owners, BeginDispatch(t, r, o)
    PROVE  CallsInv'
<1>0. /\ TypeOK /\ th[t].pc = "idle"
      /\ inFlight' = [inFlight EXCEPT ![r] = @ + 1] /\ pendingEnd' = pendingEnd
      /\ recOwner' = [recOwner EXCEPT ![r] = o] /\ ~pendingEnd[r] /\ o # None
  BY NameAssumption DEF HolderInv, BeginDispatch, At, Admits, None
<1>1. /\ \A u \in Threads \ {t} : th'[u] = th[u]
      /\ th'[t].sid = r /\ th'[t].why = "call" /\ th'[t].pc = "touch"
  <2>1. (\A u \in Threads \ {t} : th'[u] = th[u]) /\ th'[t] = Job("touch", "call", r, o)
    BY <1>0, EnterEffect DEF BeginDispatch
  <2> QED
    BY <2>1 DEF Job, Idle
<1>2. t \notin Guards(r) /\ Guards(r)' = Guards(r) \cup {t}
  BY <1>0, <1>1 DEF Guards
<1>3. Cardinality(Guards(r)') = Cardinality(Guards(r)) + 1
  BY <1>2, GuardsFinite, FS_AddElement
<1>4. \A s \in Sessions : Cardinality(Guards(s)) <= Cardinality(Guards(s)')
  BY <1>0, <1>1, GuardsKept DEF Guards
<1>5. /\ inFlight \in [Sessions -> Nat] /\ recOwner \in [Sessions -> Owners \cup {None}]
      /\ \A s : Cardinality(Guards(s)) \in Nat /\ Cardinality(Guards(s)') \in Nat
      /\ \A s \in Sessions : /\ inFlight[s] <= Cardinality(Guards(s))
                             /\ pendingEnd[s] => recOwner[s] # None /\ inFlight[s] > 0
                             /\ recOwner[s] = None => inFlight[s] = 0
  BY <1>0, GuardsFinite, GuardsPrimed DEF TypeOK, CallsInv, PendingEndHasCall
<1>6. ASSUME NEW s \in Sessions
      PROVE  /\ inFlight'[s] <= Cardinality(Guards(s)')
             /\ pendingEnd'[s] => recOwner'[s] # None /\ inFlight'[s] > 0
             /\ recOwner'[s] = None => inFlight'[s] = 0
  <2>1. CASE s = r
    BY <1>0, <1>3, <1>5, <2>1
  <2>2. CASE s # r
    <3>1. inFlight'[s] = inFlight[s] /\ recOwner'[s] = recOwner[s]
      BY <1>0, <1>5, <2>2
    <3>2. inFlight[s] <= Cardinality(Guards(s)')
      BY <1>4, <1>5
    <3> QED
      BY <1>0, <1>5, <3>1, <3>2
  <2> QED
    BY <2>1, <2>2
<1> QED
  BY <1>6 DEF CallsInv, PendingEndHasCall

LEMMA CallsNext == HolderInv /\ CallsInv /\ [Next]_vars => CallsInv'
<1> SUFFICES ASSUME HolderInv, CallsInv, [Next]_vars PROVE CallsInv'
  OBVIOUS
<1>0. TypeOK
  BY DEF HolderInv
<1>1. ASSUME NEW t \in Threads, Continue(t) PROVE CallsInv'
  <2>0. (\A u \in Threads \ {t} : th'[u] = th[u]) /\ JobOK(t)
    BY <1>1, JobContinues DEF HolderInv
  <2>1. CASE TouchActivity(t)
    <3>1. th[t].why = "call" => th'[t].why = "call" /\ th'[t].pc = "running" /\ th'[t].sid = th[t].sid
      BY <1>0, <2>1, GotoEffect DEF TouchActivity
    <3>2. \A s \in Sessions : t \notin Guards(s) \/ t \in Guards(s)'
      BY <3>1 DEF Guards
    <3> QED
      BY <1>0, <2>0, <2>1, <3>2, GuardsKept, CountsKept DEF TouchActivity
  <2>2. ASSUME th[t].pc \notin {"touch", "running"}
        PROVE  \A s \in Sessions : Cardinality(Guards(s)) <= Cardinality(Guards(s)')
    BY <2>0, <2>2, GuardsKept DEF Guards
  <2>3. /\ inFlight \in [Sessions -> Nat] /\ recOwner \in [Sessions -> Owners \cup {None}]
        /\ pendingEnd \in [Sessions -> BOOLEAN]
        /\ \A s : Cardinality(Guards(s)) \in Nat /\ Cardinality(Guards(s)') \in Nat
        /\ \A s \in Sessions : /\ inFlight[s] <= Cardinality(Guards(s))
                               /\ pendingEnd[s] => recOwner[s] # None /\ inFlight[s] > 0
                               /\ recOwner[s] = None => inFlight[s] = 0
    BY <1>0, GuardsFinite, GuardsPrimed DEF TypeOK, CallsInv, PendingEndHasCall
  <2>4. CASE MarkEnded(t)
    <3>1. /\ recOwner' = [recOwner EXCEPT ![th[t].sid] = None]
          /\ inFlight' = [inFlight EXCEPT ![th[t].sid] = 0]
          /\ pendingEnd' = [pendingEnd EXCEPT ![th[t].sid] = FALSE]
          /\ th[t].pc = "bury"
      BY <2>4 DEF MarkEnded, At
    <3>2. ASSUME NEW s \in Sessions
          PROVE  /\ inFlight'[s] <= Cardinality(Guards(s)')
                 /\ pendingEnd'[s] => recOwner'[s] # None /\ inFlight'[s] > 0
                 /\ recOwner'[s] = None => inFlight'[s] = 0
      <4>1. CASE s = th[t].sid
        BY <2>3, <3>1, <4>1
      <4>2. CASE s # th[t].sid
        <5>1. /\ inFlight'[s] = inFlight[s] /\ recOwner'[s] = recOwner[s]
              /\ pendingEnd'[s] = pendingEnd[s]
          BY <2>3, <3>1, <4>2
        <5>2. inFlight[s] <= Cardinality(Guards(s)')
          BY <2>2, <2>3, <3>1
        <5> QED
          BY <2>3, <5>1, <5>2
      <4> QED
        BY <4>1, <4>2
    <3> QED
      BY <3>2 DEF CallsInv, PendingEndHasCall
  <2>5. CASE DeferOrEnd(t) /\ MustWait(th[t].sid)
    <3>1. /\ UNCHANGED <<recOwner, inFlight>> /\ th[t].pc = "check"
          /\ pendingEnd' = [pendingEnd EXCEPT ![th[t].sid] = TRUE]
          /\ recOwner[th[t].sid] # None /\ inFlight[th[t].sid] > 0
      BY <2>5 DEF DeferOrEnd, At, MustWait
    <3>2. \A s \in Sessions : inFlight'[s] <= Cardinality(Guards(s)')
      <4> SUFFICES ASSUME NEW s \in Sessions PROVE inFlight'[s] <= Cardinality(Guards(s)')
        OBVIOUS
      <4>1. inFlight'[s] = inFlight[s] /\ Cardinality(Guards(s)) <= Cardinality(Guards(s)')
        BY <2>2, <3>1
      <4> QED
        BY <2>3, <4>1
    <3>3. \A s \in Sessions : pendingEnd'[s] => recOwner'[s] # None /\ inFlight'[s] > 0
      BY <2>3, <3>1
    <3> QED
      BY <2>3, <3>1, <3>2, <3>3 DEF CallsInv, PendingEndHasCall
  <2>6. CASE ClaimSession(t)
    <3>1. /\ UNCHANGED <<inFlight, pendingEnd>> /\ th[t].pc = "claim"
          /\ \A s \in Sessions : recOwner'[s] = recOwner[s] \/ recOwner'[s] # None
      <4>1. th[t].who \in Owners
        BY <2>0, <2>6 DEF ClaimSession, At, JobOK, Asking
      <4> QED
        BY <2>3, <2>6, <4>1, NameAssumption DEF ClaimSession, At, None
    <3>2. \A s \in Sessions : inFlight'[s] <= Cardinality(Guards(s)')
      <4> SUFFICES ASSUME NEW s \in Sessions PROVE inFlight'[s] <= Cardinality(Guards(s)')
        OBVIOUS
      <4>1. inFlight'[s] = inFlight[s] /\ Cardinality(Guards(s)) <= Cardinality(Guards(s)')
        BY <2>2, <3>1
      <4> QED
        BY <2>3, <4>1
    <3> QED
      BY <2>3, <3>1, <3>2 DEF CallsInv, PendingEndHasCall
  <2>7. CASE ~(TouchActivity(t) \/ MarkEnded(t) \/ DropGuard(t) \/ ClaimSession(t)
               \/ (DeferOrEnd(t) /\ MustWait(th[t].sid)))
    <3>1. UNCHANGED <<recOwner, inFlight, pendingEnd>> /\ th[t].pc \notin {"touch", "running"}
      BY <1>1, <2>7 DEF Continue, OwnsRecord, OwnsTombstone, NextSession, DeferOrEnd, ForgetActivity,
         ClearPolicy, InstallCleanup, StartRetry, RunHook, FinishRetry, AdmitStart, BindPolicy,
         UnlockDesktop, SweepActivity, At, tables
    <3> QED
      BY <1>0, <2>2, <3>1, CountsKept
  <2> QED
    BY <2>1, <2>4, <2>5, <2>6, <2>7, CallsDrop
<1>2. ASSUME NEW t \in Threads, Request(t) \/ SweepRecords(t) PROVE CallsInv'
  <2>1. (\A u \in Threads \ {t} : th'[u] = th[u]) /\ th[t].pc = "idle"
    BY <1>2, JobStarts DEF Request, BeginDispatch, EndSession, EscalateSession, StartSession,
       CloseTransport, RevokeAll, EndAll, SweepRecords, At
  <2>2. \A s \in Sessions : Cardinality(Guards(s)) <= Cardinality(Guards(s)')
    BY <2>1, GuardsKept DEF Guards
  <2>3. \/ UNCHANGED <<recOwner, inFlight, pendingEnd>>
        \/ \E r \in Sessions, o \in Owners : BeginDispatch(t, r, o)
    BY <1>2 DEF Request, EndSession, EscalateSession, StartSession, CloseTransport, RevokeAll, EndAll,
       SweepRecords, tables
  <2> QED
    BY <1>0, <2>2, <2>3, CountsKept, CallsBegin
<1>3. CASE (\E r \in Sessions : Expire(r)) \/ UNCHANGED vars
  <2>1. UNCHANGED <<recOwner, inFlight, pendingEnd, th>>
    BY <1>3 DEF Expire, vars
  <2>2. \A s \in Sessions : Guards(s)' = Guards(s)
    BY <2>1 DEF Guards
  <2>3. \A s \in Sessions : Cardinality(Guards(s)) <= Cardinality(Guards(s)')
    BY <2>2, GuardsFinite
  <2> QED
    BY <1>0, <2>1, <2>3, CountsKept
<1> QED
  BY <1>1, <1>2, <1>3 DEF Next, Threads

\* A cleanup that is not there is not running either.
CleanupInv ==
    /\ RunningCleanupHasThread
    /\ \A s \in Sessions : cleanup[s].running => cleanup[s].present

LEMMA CleanupNext == HolderInv /\ CleanupInv /\ [Next]_vars => CleanupInv'
<1> SUFFICES ASSUME HolderInv, CleanupInv, [Next]_vars, NEW s \in Sessions, cleanup'[s].running
             PROVE  Busy(s, {"hooks"})' /\ cleanup'[s].present
  BY DEF CleanupInv, RunningCleanupHasThread, Busy
<1>0. /\ TypeOK
      /\ cleanup[s].running => Busy(s, {"hooks"}) /\ cleanup[s].present
      /\ cleanup \in [Sessions -> [present : BOOLEAN, completed : SUBSET Hooks, running : BOOLEAN]]
  BY DEF HolderInv, TypeOK, CleanupInv, RunningCleanupHasThread
<1>1. ASSUME NEW t \in Threads, \A u \in Threads \ {t} : th'[u] = th[u],
             th[t].pc # "hooks" \/ th[t].sid # s, cleanup'[s] = cleanup[s]
      PROVE  Busy(s, {"hooks"})' /\ cleanup'[s].present
  <2>1. cleanup[s].running
    BY <1>1
  <2>2. Busy(s, {"hooks"}) /\ cleanup'[s].present
    BY <1>0, <1>1, <2>1
  <2> QED
    BY <1>1, <2>2, BusyKept
<1>2. ASSUME NEW t \in Threads, Continue(t)
      PROVE  Busy(s, {"hooks"})' /\ cleanup'[s].present
  <2>0. (\A u \in Threads \ {t} : th'[u] = th[u]) /\ JobOK(t)
    BY <1>2, JobContinues DEF HolderInv
  <2>1. CASE InstallCleanup(t)
    <3>1. th[t].pc = "install" /\ cleanup' = [cleanup EXCEPT ![th[t].sid] = CleanupWith({})]
      BY <2>1 DEF InstallCleanup, At
    <3>2. th[t].sid # s
      BY <1>0, <3>1 DEF CleanupWith
    <3> QED
      BY <1>0, <1>1, <2>0, <3>1, <3>2
  <2>2. CASE StartRetry(t)
    <3>1. th[t].pc = "retry"
      BY <2>2 DEF StartRetry, At
    <3>2. CASE cleanup' = cleanup
      BY <1>1, <2>0, <3>1, <3>2
    <3>3. CASE cleanup' # cleanup
      <4>1. /\ cleanup' = [cleanup EXCEPT ![th[t].sid].running = TRUE]
            /\ cleanup[th[t].sid].present
            /\ Enter(t, [th[t] EXCEPT !.pc = "hooks",
                                      !.work = Hooks \ cleanup[th[t].sid].completed,
                                      !.successes = {}])
        BY <2>2, <3>3 DEF StartRetry
      <4>2. CASE th[t].sid = s
        <5>1. th'[t].sid = s /\ th'[t].pc = "hooks"
          <6>1. /\ th'[t] = [th[t] EXCEPT !.pc = "hooks",
                                           !.work = Hooks \ cleanup[th[t].sid].completed,
                                           !.successes = {}]
                /\ th[t] \in ThreadState
            BY <1>0, <4>1, EnterEffect DEF TypeOK
          <6> QED
            BY <4>2, <6>1 DEF ThreadState
        <5>2. cleanup'[s].present
          BY <1>0, <4>1, <4>2
        <5> QED
          BY <5>1, <5>2, BusyNow
      <4>3. CASE th[t].sid # s
        BY <1>0, <1>1, <2>0, <3>1, <4>1, <4>3
      <4> QED
        BY <4>2, <4>3
    <3> QED
      BY <3>2, <3>3
  <2>3. CASE RunHook(t)
    <3>1. cleanup' = cleanup /\ th[t].pc = "hooks"
      BY <2>3 DEF RunHook, At, tables
    <3>2. th'[t].sid = th[t].sid /\ th'[t].pc = "hooks"
      <4>1. PICK work, successes : Enter(t, [th[t] EXCEPT !.work = work, !.successes = successes])
        BY <2>3 DEF RunHook
      <4>2. /\ th'[t] = [th[t] EXCEPT !.work = work, !.successes = successes]
            /\ th[t] \in ThreadState
        BY <1>0, <4>1, EnterEffect DEF TypeOK
      <4> QED
        BY <3>1, <4>2 DEF ThreadState
    <3> QED
      BY <1>0, <1>1, <2>0, <3>1, <3>2, BusyNow
  <2>4. CASE FinishRetry(t)
    <3>1. CASE th[t].sid = s
      <4>1. cleanup[s].present
        BY <1>0, <2>4, <3>1 DEF FinishRetry
      <4>2. ~cleanup'[s].running
        BY <1>0, <2>4, <3>1, <4>1 DEF FinishRetry, CleanupWith, NoCleanup
      <4> QED
        BY <4>2
    <3>2. CASE th[t].sid # s
      <4>1. cleanup'[s] = cleanup[s]
        BY <1>0, <2>4, <3>2 DEF FinishRetry
      <4> QED
        BY <1>1, <2>0, <3>2, <4>1
    <3> QED
      BY <3>1, <3>2
  <2>5. CASE ~(InstallCleanup(t) \/ StartRetry(t) \/ RunHook(t) \/ FinishRetry(t))
    <3>1. cleanup' = cleanup /\ th[t].pc # "hooks"
      BY <1>2, <2>5 DEF Continue, TouchActivity, DropGuard, OwnsRecord, OwnsTombstone, NextSession,
         DeferOrEnd, ForgetActivity, MarkEnded, ClearPolicy, AdmitStart, ClaimSession, BindPolicy,
         UnlockDesktop, SweepActivity, At, tables
    <3> QED
      BY <1>1, <2>0, <3>1
  <2> QED
    BY <2>1, <2>2, <2>3, <2>4, <2>5
<1>3. ASSUME NEW t \in Threads, Request(t) \/ SweepRecords(t)
      PROVE  Busy(s, {"hooks"})' /\ cleanup'[s].present
  <2>1. \A u \in Threads \ {t} : th'[u] = th[u]
    BY <1>3, JobStarts
  <2>2. cleanup' = cleanup /\ th[t].pc = "idle"
    BY <1>3 DEF Request, BeginDispatch, EndSession, EscalateSession, StartSession, CloseTransport,
       RevokeAll, EndAll, SweepRecords, At, tables
  <2> QED
    BY <1>1, <2>1, <2>2
<1>4. CASE (\E r \in Sessions : Expire(r)) \/ UNCHANGED vars
  BY <1>0, <1>4 DEF Expire, vars, Busy
<1> QED
  BY <1>2, <1>3, <1>4 DEF Next, Threads

\* The tables agree, whatever calls, ends, starts and sweeps overlap (session.rs:
\* ended_sessions, LIFECYCLE_RECORDS, the last activity and the cleanup progress
\* of an id), and what waits in them, a pending end or a running cleanup, has the
\* thread that will deal with it.
THEOREM TablesConsistent == Spec => []TablesAgree
<1>1. Init => CallsInv /\ CleanupInv
  <2> SUFFICES ASSUME Init, NEW s \in Sessions
               PROVE  /\ inFlight[s] = 0 /\ ~pendingEnd[s] /\ ~cleanup[s].running
                      /\ inFlight[s] <= Cardinality(Guards(s))
    BY DEF CallsInv, PendingEndHasCall, CleanupInv, RunningCleanupHasThread
  <2>1. inFlight[s] = 0 /\ ~pendingEnd[s] /\ ~cleanup[s].running
    BY DEF Init, NoCleanup
  <2> QED
    BY <2>1, GuardsFinite
<1>2. Spec => [](CallsInv /\ CleanupInv)
  BY <1>1, HolderCorrect, CallsNext, CleanupNext, PTL DEF Spec
<1>3. CallsInv /\ CleanupInv => PendingEndHasCall /\ RunningCleanupHasThread
  BY DEF CallsInv, CleanupInv
<1> QED
  BY <1>2, <1>3, TombstoneExcludes, LiveHasClock, PTL DEF TablesAgree

-----------------------------------------------------------------------------
(* The tables implement SessionEpisode.                                      *)

PhaseMap  == [s \in Sessions |-> Phase(s)]
HolderMap == [s \in Sessions |-> Holder(s)]

LEMMA EpisodeInit == Init => Episode!Init
BY DEF Init, Episode!Init, Phase, Holder

\* A record or tombstone write is one abstract step of that id or a stutter.
LEMMA EpisodeStep ==
    ASSUME HolderInv, [Next]_vars
    PROVE  Episode!Next \/ (PhaseMap' = PhaseMap /\ HolderMap' = HolderMap)
<1> USE NameAssumption DEF None, NotEnded, Unowned
<1>1. /\ ended \in [Sessions -> Owners \cup {NotEnded, Unowned}]
      /\ recOwner \in [Sessions -> Owners \cup {None}]
      /\ \A s \in Sessions : ended[s] # NotEnded => recOwner[s] = None
      /\ \A s \in Sessions : ended[s] # Unowned
  BY DEF HolderInv, TypeOK, TombstoneExcludesRecord
<1>2. CASE UNCHANGED <<ended, recOwner>>
  BY <1>2 DEF PhaseMap, HolderMap, Phase, Holder
<1>3. ASSUME NEW s \in Sessions, NEW o \in Owners,
             Phase(s) = "unknown" \/ Holder(s) = o,
             recOwner' = [recOwner EXCEPT ![s] = o],
             ended' = [ended EXCEPT ![s] = NotEnded]
      PROVE  Episode!Next \/ (PhaseMap' = PhaseMap /\ HolderMap' = HolderMap)
  <2>1. PhaseMap' = [PhaseMap EXCEPT ![s] = "live"]
    BY <1>1, <1>3 DEF PhaseMap, Phase
  <2>2. HolderMap' = [HolderMap EXCEPT ![s] = o]
    BY <1>1, <1>3 DEF HolderMap, Holder
  <2>3. PhaseMap[s] = Phase(s) /\ HolderMap[s] = Holder(s)
    BY DEF PhaseMap, HolderMap
  <2>4. CASE Phase(s) = "unknown"
    <3>1. Episode!Declare(s, o)
      BY <2>1, <2>2, <2>3, <2>4 DEF Episode!Declare, PhaseMap, HolderMap
    <3> QED
      BY <3>1 DEF Episode!Next
  <2>5. CASE Phase(s) = "ended" /\ Holder(s) = o
    <3>1. HolderMap' = HolderMap
      BY <2>2, <2>3, <2>5 DEF HolderMap
    <3>2. Episode!Revive(s)
      BY <2>1, <2>3, <2>5, <3>1 DEF Episode!Revive, PhaseMap, HolderMap
    <3> QED
      BY <3>2 DEF Episode!Next
  <2>6. CASE Phase(s) = "live" /\ Holder(s) = o
    BY <2>1, <2>2, <2>3, <2>6 DEF PhaseMap, HolderMap
  <2> QED
    BY <1>3, <2>4, <2>5, <2>6 DEF Phase
<1>4. ASSUME NEW s \in Sessions, Phase(s) = "live",
             ended' = [ended EXCEPT ![s] = recOwner[s]],
             recOwner' = [recOwner EXCEPT ![s] = None]
      PROVE  Episode!Next
  <2>1. recOwner[s] \in Owners /\ ended[s] = NotEnded
    BY <1>1, <1>4 DEF Phase
  <2>2. PhaseMap' = [PhaseMap EXCEPT ![s] = "ended"]
    BY <1>1, <1>4, <2>1 DEF PhaseMap, Phase
  <2>3. HolderMap' = HolderMap
    BY <1>1, <1>4, <2>1 DEF HolderMap, Holder
  <2>4. Episode!End(s)
    BY <1>4, <2>2, <2>3 DEF Episode!End, PhaseMap, HolderMap
  <2> QED
    BY <2>4 DEF Episode!Next
<1> QED
  BY LifeStep, <1>2, <1>3, <1>4

\* Whatever the interleaving, a session id is declared by one transport, is
\* live or ended ever after, and never changes hands.
THEOREM Implements == Spec => ImplementsEpisode
<1>1. HolderInv /\ [Next]_vars
          => [Episode!Next]_<<[s \in Sessions |-> Phase(s)],
                              [s \in Sessions |-> Holder(s)]>>
  BY EpisodeStep DEF PhaseMap, HolderMap
<1> QED
  BY <1>1, EpisodeInit, HolderCorrect, PTL DEF Spec, ImplementsEpisode, Episode!Spec
=============================================================================
