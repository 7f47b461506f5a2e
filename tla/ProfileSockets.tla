--------------------------- MODULE ProfileSockets ---------------------------
(* Attachments to the user's own browser: the grants of grant.rs, the pool   *)
(* of browser-level sockets of cdp_ws.rs, the reconnect gate of reconnect.rs *)
(* and the engine's operations on them (engine.rs, prepare.rs).  Sessions    *)
(* share one browser, so one endpoint: the pool has at most one entry, the   *)
(* claim marker is that of its port, and there is one gate.                  *)
(*                                                                           *)
(* The pool's lock and the gate are tokio mutexes, held across awaits; the   *)
(* grants, the marker and the pending cleanups are each read or written in   *)
(* one step.  A value that may be absent is a set with at most one member.   *)
(* The platform is the environment: it proves the browser's identity or not, *)
(* turns remote debugging on and off, asks the user.                         *)
EXTENDS Naturals, FiniteSets

CONSTANTS
    Threads,        \* calls under way at once
    Sessions,       \* sessions with an interest in the browser
    MAX_RECONNECT_ATTEMPTS,
    MaxCalls        \* bound: calls begun

ASSUME BudgetAssumption == MAX_RECONNECT_ATTEMPTS \in Nat \ {0} /\ MaxCalls \in Nat
ASSUME ThreadAssumption == "nobody" \notin Threads \cup Sessions

Nobody == "nobody"

VARIABLES
    grants,    \* ExistingProfileGrants.inner, a session in each at most once
    pool,      \* CdpPool.conns
    poolLock,  \* the call that holds it, or was handed it
    gate,      \* ReconnectGates: the leader
    marker,    \* claimed_loopback_ports
    pending,   \* pending_existing_profile_cleanups: sessions that owe one
    releases,  \* spawned release_existing tasks
    ending,    \* the session-end hook, by session
    debugging, \* the browser's listener: off, turned on by the driver, by the user
    call,      \* each thread's call
    begun,     \* calls so far
    slipped    \* history: ownership has been lost in a way listed at Slip

vars == <<grants, pool, poolLock, gate, marker, pending, releases, ending,
          debugging, call, begun, slipped>>

Grant(s, gen, left, cleanup) ==
    [session |-> s, gen |-> gen, left |-> left, cleanup |-> cleanup]
\* Generation 0 is the code's None: a socket no grant owns.
Entry(gen, open) == [gen |-> gen, open |-> open]
\* gen and left copy a grant; old is a generation to replace or to release.
Call(at, s) == [at |-> at, session |-> s, gen |-> 0, left |-> 0, old |-> 0,
                cleanup |-> FALSE, setup |-> FALSE, asked |-> "no"]
Idle   == Call("idle", Nobody)
NoHook == [at |-> "none", owes |-> FALSE]

Init ==
    /\ grants = {} /\ pool = {} /\ pending = {} /\ releases = {}
    /\ poolLock = Nobody /\ gate = Nobody
    /\ marker = FALSE /\ slipped = FALSE /\ begun = 0
    /\ debugging \in {"off", "user"}
    /\ ending = [s \in Sessions |-> NoHook]
    /\ call = [t \in Threads |-> Idle]

Of(s)       == {g \in grants : g.session = s}
At(t, at)   == call[t].at = at
Set(t, c)   == call' = [call EXCEPT ![t] = c]
Goto(t, at) == call' = [call EXCEPT ![t].at = at]

\* Where the call goes next with nothing but its session and its setup.
Turn(t, at) == Set(t, [Call(at, call[t].session) EXCEPT !.setup = call[t].setup])

\* A call that returns frees the gate, and rolls back a setup it never committed.
Leave(t) ==
    /\ Set(t, IF call[t].setup THEN Call("abort", call[t].session) ELSE Idle)
    /\ gate' = IF gate = t THEN Nobody ELSE gate

\* Grants without g, whose duty to clean up passes to another if there is one.
Removed(g) ==
    LET rest == grants \ {g}
    IN  IF g.cleanup /\ rest # {}
          THEN {[grants |-> (rest \ {h}) \cup {[h EXCEPT !.cleanup = TRUE]}, owes |-> FALSE] : h \in rest}
          ELSE {[grants |-> rest, owes |-> g.cleanup]}

ReleaseClaim == marker' = FALSE

\* Call t takes g out and releases the marker, and goes on to release the rest.
Drop(t, g) ==
    \E r \in Removed(g) :
        /\ grants' = r.grants
        /\ ReleaseClaim
        /\ Set(t, [Call(IF r.owes THEN "tidy" ELSE "unpool", call[t].session) EXCEPT
                     !.old = g.gen, !.setup = call[t].setup])

\* What a call finds under its key: nothing, a grant that has expired (idle, too
\* old, its consent or the policy it was given under gone), or a live one.
Missing(t)    == Of(call[t].session) = {} /\ UNCHANGED <<grants, marker>>
Expired(t)    == \E g \in Of(call[t].session) : Drop(t, g)
Live(t, g)    == g \in Of(call[t].session) /\ UNCHANGED <<grants, marker>>
Copy(t, g, at) == Set(t, [call[t] EXCEPT !.at = at, !.gen = g.gen, !.left = g.left])

\* The pool: its lock may have been handed to a call that waits for it.
LockFree(t)   == poolLock \in {Nobody, t}
Owns(e, gen)  == e.gen = gen
Reusable(gen) == \E e \in pool : Owns(e, gen) /\ e.open

-----------------------------------------------------------------------------
(* The end of a grant, on behalf of a call that revokes it or found it       *)
(* expired.                                                                  *)

Revoke(t) ==
    /\ At(t, "revoke")
    /\ \/ Missing(t) /\ Leave(t)
       \/ Expired(t) /\ UNCHANGED gate
    /\ UNCHANGED <<pool, poolLock, pending, releases, ending, debugging, slipped>>

\* The platform restores the setting, or the session owes it.
TidyBrowser(t) ==
    /\ At(t, "tidy")
    /\ Goto(t, "unpool")
    /\ \/ debugging' = "off" /\ UNCHANGED pending
       \/ pending' = pending \cup {call[t].session} /\ UNCHANGED debugging
    /\ UNCHANGED <<grants, pool, poolLock, gate, marker, releases, ending, slipped>>

ReleaseExisting(t) ==
    /\ poolLock = Nobody
    /\ \/ At(t, "unpool") /\ Leave(t)
       \/ At(t, "forget") /\ Set(t, [call[t] EXCEPT !.at = "claim", !.old = 0]) /\ UNCHANGED gate
    /\ pool' = {e \in pool : ~Owns(e, call[t].old)}
    /\ ReleaseClaim
    /\ UNCHANGED <<grants, poolLock, pending, releases, ending, debugging, slipped>>

AbortSetup(t) ==
    /\ At(t, "abort")
    /\ debugging' = "off"
    /\ Set(t, Idle)
    /\ UNCHANGED <<grants, pool, poolLock, gate, marker, pending, releases, ending, slipped>>

-----------------------------------------------------------------------------
(* browser_prepare: attach to the user's profile.                            *)

\* A listener is found, or remote debugging is turned on for this session.
BeginPrepare(t, s) ==
    /\ At(t, "idle")
    /\ Set(t, [Call("prior", s) EXCEPT !.setup = (debugging = "off")])
    /\ debugging' = IF debugging = "off" THEN "driver" ELSE debugging
    /\ UNCHANGED <<grants, pool, poolLock, gate, marker, pending, releases, ending, slipped>>

LookUpPrior(t) ==
    /\ At(t, "prior")
    /\ \/ Missing(t) /\ Set(t, [call[t] EXCEPT !.at = "number", !.cleanup = call[t].setup])
       \/ Expired(t)
       \/ \E g \in Of(call[t].session) :
             /\ Live(t, g)
             /\ Set(t, [call[t] EXCEPT !.at = "number", !.old = g.gen,
                                       !.cleanup = call[t].setup \/ g.cleanup])
    /\ UNCHANGED <<pool, poolLock, gate, pending, releases, ending, debugging, slipped>>

\* mint reads the generation under one lock and inserts under another.
NumberGrant(t) ==
    /\ At(t, "number")
    /\ \E n \in IF Of(call[t].session) = {} THEN {1} ELSE {g.gen + 1 : g \in Of(call[t].session)} :
          Set(t, [call[t] EXCEPT !.at = "mint", !.gen = n])
    /\ UNCHANGED <<grants, pool, poolLock, gate, marker, pending, releases, ending, debugging, slipped>>

\* Mutant of AfterMint: the generation before keeps its socket.
AfterMintClaim(c) == "claim"

AfterMint(c) == IF c.old = 0 THEN "claim" ELSE "forget"

\* The grant takes the place of whatever is there now; the duty to clean up is
\* the one looked up before.
MintGrant(t) ==
    LET c == call[t]
    IN  /\ At(t, "mint")
        /\ grants' = (grants \ Of(c.session)) \cup
                     {Grant(c.session, c.gen, MAX_RECONNECT_ATTEMPTS, c.cleanup)}
        /\ Set(t, [c EXCEPT !.at = AfterMint(c), !.cleanup = FALSE])
        /\ slipped' = (slipped \/ \E g \in Of(c.session) : g.gen # c.old \/ (g.cleanup /\ ~c.cleanup))
        /\ UNCHANGED <<pool, poolLock, gate, marker, pending, releases, ending, debugging>>

\* The socket in hand is the grant's from now on.
Claimed(t) ==
    /\ pool' = {Entry(call[t].gen, TRUE)}
    /\ marker' = TRUE
    /\ poolLock' = Nobody
    /\ IF call[t].setup THEN Turn(t, "commit") ELSE Set(t, Idle)
    /\ slipped' = (slipped \/ ~\E g \in Of(call[t].session) : g.gen = call[t].gen)
    /\ UNCHANGED <<grants, gate, pending, releases, ending, debugging>>

\* Once the user has accepted, a claim that failed is made once more.
ClaimFailed(t) ==
    /\ IF call[t].asked = "accepted"
         THEN Set(t, [call[t] EXCEPT !.at = "claim", !.asked = "again"])
         ELSE Turn(t, "revoke")
    /\ poolLock' = Nobody
    /\ UNCHANGED <<grants, pool, gate, marker, pending, releases, ending, debugging, slipped>>

\* A live socket is taken as it is, a closed one refused; with none, one is
\* dialled with the lock held.
ClaimExisting(t) ==
    /\ At(t, "claim") /\ poolLock = Nobody
    /\ \/ (\E e \in pool : e.open) /\ Claimed(t)
       \/ (\E e \in pool : ~e.open) /\ ClaimFailed(t)
       \/ /\ pool = {}
          /\ poolLock' = t /\ Goto(t, "claimDial")
          /\ UNCHANGED <<grants, pool, gate, marker, pending, releases, ending, debugging, slipped>>

ClaimDialled(t) ==
    /\ At(t, "claimDial")
    /\ \/ debugging # "off" /\ Claimed(t)
       \/ ClaimFailed(t)

\* Commit closes the setup page; if it cannot, the attachment is given up.
CommitSetup(t) ==
    /\ At(t, "commit")
    /\ \/ Set(t, Idle)
       \/ Turn(t, "revoke")
    /\ UNCHANGED <<grants, pool, poolLock, gate, marker, pending, releases, ending, debugging, slipped>>

-----------------------------------------------------------------------------
(* connect_existing_profile: use the attachment, redialling when its socket  *)
(* is dead.                                                                  *)

BeginUse(t, s) ==
    /\ At(t, "idle")
    /\ Set(t, Call("lookup", s))
    /\ UNCHANGED <<grants, pool, poolLock, gate, marker, pending, releases, ending, debugging, slipped>>

\* Twice: before the gate, and as the leader.
LookUpGrant(t) ==
    /\ \/ /\ At(t, "lookup") \/ At(t, "recheck")
          /\ Missing(t) /\ Leave(t)
       \/ /\ At(t, "lookup") \/ At(t, "recheck")
          /\ Expired(t) /\ UNCHANGED gate
       \/ \E g \in Of(call[t].session) :
             /\ Live(t, g) /\ UNCHANGED gate
             /\ \/ At(t, "lookup") /\ Copy(t, g, "reuse")
                \/ At(t, "recheck") /\ Copy(t, g, "leaderReuse")
    /\ UNCHANGED <<pool, poolLock, pending, releases, ending, debugging, slipped>>

GetExisting(t) ==
    /\ poolLock = Nobody
    /\ At(t, "reuse") \/ At(t, "leaderReuse")
    /\ IF Reusable(call[t].gen)
         THEN Leave(t)
         ELSE Goto(t, IF At(t, "reuse") THEN "gate" ELSE "attempt") /\ UNCHANGED gate
    /\ UNCHANGED <<grants, pool, poolLock, marker, pending, releases, ending, debugging, slipped>>

\* Mutant of MayLead: each session has a gate of its own.
MayLeadSession(t) == \A u \in Threads : gate = u => call[u].session # call[t].session

MayLead(t) == gate = Nobody

TakeGate(t) ==
    /\ At(t, "gate") /\ MayLead(t)
    /\ gate' = t /\ Goto(t, "recheck")
    /\ UNCHANGED <<grants, pool, poolLock, marker, pending, releases, ending, debugging, slipped>>

\* Mutant of Budget: attempts are counted and never run out.
BudgetUnbounded(c, g) == TRUE

Budget(c, g) == c.left > 0 /\ g.left > 0

\* One turn of the loop: out of attempts or time, no longer the approved
\* browser, not proven now, or a generation is spent on a redial.
AttemptReconnect(t) ==
    LET c == call[t]
    IN  /\ At(t, "attempt")
        /\ \/ Turn(t, "revoke") /\ UNCHANGED <<grants, gate>>
           \/ Leave(t) /\ UNCHANGED grants
           \/ \E g \in Of(c.session) :
                 /\ Budget(c, g)
                 /\ grants' = (grants \ {g}) \cup {[g EXCEPT !.gen = @ + 1, !.left = @ - 1]}
                 /\ Set(t, [c EXCEPT !.at = "peek", !.old = c.gen, !.gen = g.gen + 1, !.left = 0])
                 /\ UNCHANGED gate
        /\ UNCHANGED <<pool, poolLock, marker, pending, releases, ending, debugging, slipped>>

\* The redial ended: without a socket of its generation in the pool it leaves
\* behind whatever is there.
Redialled(t, ok) ==
    /\ Turn(t, IF ok THEN "dialled" ELSE "failed")
    /\ slipped' = (slipped \/ ~(\E e \in pool' : Owns(e, call[t].gen))
                           \/ ~\E g \in Of(call[t].session) : g.gen = call[t].gen)

Polled(t) == call[t].asked # "asking"

PeekPool(t) ==
    /\ At(t, "peek") /\ LockFree(t) /\ Polled(t)
    /\ poolLock' = Nobody
    /\ UNCHANGED pool
    /\ \/ (\E e \in pool : e.gen > call[t].old) /\ Redialled(t, FALSE)
       \/ Reusable(call[t].old) /\ Redialled(t, TRUE)
       \/ /\ ~(\E e \in pool : e.gen > call[t].old) /\ ~Reusable(call[t].old)
          /\ Goto(t, "dial") /\ UNCHANGED slipped
    /\ UNCHANGED <<grants, gate, marker, pending, releases, ending, debugging>>

\* The pool is not locked while the socket is dialled.
Dial(t) ==
    /\ At(t, "dial") /\ Polled(t)
    /\ UNCHANGED pool
    /\ \/ debugging # "off" /\ Goto(t, "install") /\ UNCHANGED slipped
       \/ Redialled(t, FALSE)
    /\ UNCHANGED <<grants, poolLock, gate, marker, pending, releases, ending, debugging>>

InstallSocket(t) ==
    /\ At(t, "install") /\ LockFree(t) /\ Polled(t)
    /\ poolLock' = Nobody
    /\ IF \E e \in pool : e.gen > call[t].old
         THEN UNCHANGED pool /\ Redialled(t, Reusable(call[t].gen))
         ELSE pool' = {Entry(call[t].gen, TRUE)} /\ Redialled(t, TRUE)
    /\ UNCHANGED <<grants, gate, marker, pending, releases, ending, debugging>>

\* Both outcomes look the grant up and expect to find one; the call dies of a
\* panic if it is not there.
AfterRedial(t) ==
    /\ At(t, "dialled") \/ At(t, "failed")
    /\ \/ Missing(t) /\ Leave(t)
       \/ Expired(t) /\ UNCHANGED gate
       \/ \E g \in Of(call[t].session) :
             /\ Live(t, g)
             /\ IF At(t, "dialled") THEN Leave(t) ELSE Copy(t, g, "attempt") /\ UNCHANGED gate
    /\ UNCHANGED <<pool, poolLock, pending, releases, ending, debugging, slipped>>

-----------------------------------------------------------------------------
(* The browser may ask the user: after half a second the driver looks.  A    *)
(* claim goes on meanwhile; a redial is not polled until there is an answer, *)
(* but may be handed the pool's lock it waits for.                           *)

Claiming(t)   == call[t].at \in {"claim", "claimDial"}
Redialling(t) == call[t].at \in {"peek", "dial", "install"}

AskUser(t) ==
    /\ call[t].asked = "no"
    /\ \/ At(t, "claimDial") \/ At(t, "dial")
       \/ call[t].at \in {"claim", "peek", "install"} /\ poolLock # Nobody
    /\ Set(t, [call[t] EXCEPT !.asked = "asking"])
    /\ UNCHANGED <<grants, pool, poolLock, gate, marker, pending, releases, ending, debugging, slipped>>

HandLock(t) ==
    /\ call[t].at \in {"peek", "install"} /\ ~Polled(t) /\ poolLock = Nobody
    /\ poolLock' = t
    /\ UNCHANGED <<grants, pool, gate, marker, pending, releases, ending, debugging, call, slipped>>

\* Mutant of HangUp: the dial is left pending while the grant is revoked.
HangUpLater(t) == UNCHANGED poolLock

HangUp(t) == poolLock' = IF poolLock = t THEN Nobody ELSE poolLock

\* Without consent the dial is cancelled, which gives back the lock, before
\* the grant is revoked.
UserAnswers(t) ==
    /\ call[t].asked = "asking" /\ (Claiming(t) \/ Redialling(t))
    /\ \/ /\ \E a \in IF Claiming(t) THEN {"accepted", "again"} ELSE {"again"} :
                Set(t, [call[t] EXCEPT !.asked = a])
          /\ UNCHANGED <<poolLock, gate, slipped>>
       \/ /\ Turn(t, "revoke") /\ UNCHANGED gate
          /\ HangUp(t)
          /\ slipped' = (slipped \/ Redialling(t))
       \/ /\ Redialling(t) /\ Leave(t)
          /\ HangUp(t)
          /\ slipped' = TRUE
    /\ UNCHANGED <<grants, pool, marker, pending, releases, ending, debugging>>

-----------------------------------------------------------------------------
(* connect: a session without a grant uses the same endpoint.                *)

BeginConnect(t) ==
    /\ At(t, "idle")
    /\ Set(t, Call("marked", Nobody))
    /\ UNCHANGED <<grants, pool, poolLock, gate, marker, pending, releases, ending, debugging, slipped>>

\* The first failure evicts what is in the pool, whoever owns it.
ConnectFailed(t) ==
    Set(t, IF call[t].asked = "no" THEN [call[t] EXCEPT !.at = "evict"] ELSE Idle)

ReadMarker(t) ==
    /\ At(t, "marked")
    /\ IF marker THEN ConnectFailed(t) ELSE Goto(t, "get")
    /\ UNCHANGED <<grants, pool, poolLock, gate, marker, pending, releases, ending, debugging, slipped>>

GetSocket(t) ==
    /\ At(t, "get") /\ poolLock = Nobody
    /\ \/ (\E e \in pool : e.gen # 0) /\ ConnectFailed(t) /\ UNCHANGED <<pool, poolLock>>
       \/ (\E e \in pool : e.gen = 0 /\ e.open) /\ Set(t, Idle) /\ UNCHANGED <<pool, poolLock>>
       \/ /\ \A e \in pool : e.gen = 0 /\ ~e.open
          /\ pool' = {} /\ poolLock' = t /\ Goto(t, "getDial")
    /\ UNCHANGED <<grants, gate, marker, pending, releases, ending, debugging, slipped>>

GetDialled(t) ==
    /\ At(t, "getDial")
    /\ poolLock' = Nobody
    /\ \/ debugging # "off" /\ pool' = {Entry(0, TRUE)} /\ Set(t, Idle)
       \/ ConnectFailed(t) /\ UNCHANGED pool
    /\ UNCHANGED <<grants, gate, marker, pending, releases, ending, debugging, slipped>>

Evict(t) ==
    /\ At(t, "evict") /\ poolLock = Nobody
    /\ pool' = {}
    /\ Set(t, [call[t] EXCEPT !.at = "marked", !.asked = "again"])
    /\ UNCHANGED <<grants, poolLock, gate, marker, pending, releases, ending, debugging, slipped>>

-----------------------------------------------------------------------------
(* The session-end hook, and the task it leaves to the async runtime: a      *)
(* sweep runs it on a thread that has none.                                  *)

EndSession(s) ==
    /\ ending[s].at = "none" /\ (Of(s) # {} \/ s \in pending)
    /\ pending' = pending \ {s}
    /\ \/ Of(s) = {}
          /\ ending' = [ending EXCEPT ![s] = [at |-> "tidy", owes |-> TRUE]]
          /\ UNCHANGED <<grants, releases, marker, slipped>>
       \/ \E g \in Of(s), async \in BOOLEAN : \E r \in Removed(g) :
             /\ grants' = r.grants
             /\ ending' = [ending EXCEPT ![s] = [at |-> "tidy", owes |-> r.owes \/ s \in pending]]
             /\ ReleaseClaim
             /\ releases' = IF async THEN releases \cup {g.gen} ELSE releases
             /\ slipped' = (slipped \/ ~async)
    /\ UNCHANGED <<pool, poolLock, gate, debugging, call>>

\* What the hook owed at its start replaces what the session owes now.
EndTidiesBrowser(s) ==
    /\ ending[s].at = "tidy"
    /\ ending' = [ending EXCEPT ![s] = NoHook]
    /\ \/ debugging' = (IF ending[s].owes THEN "off" ELSE debugging) /\ pending' = pending \ {s}
       \/ ending[s].owes /\ pending' = pending \cup {s} /\ UNCHANGED debugging
    /\ slipped' = (slipped \/ (s \in pending /\ ~ending[s].owes))
    /\ UNCHANGED <<grants, pool, poolLock, gate, marker, releases, call>>

ReleaseTask(gen) ==
    /\ poolLock = Nobody
    /\ pool' = {e \in pool : ~Owns(e, gen)}
    /\ ReleaseClaim
    /\ releases' = releases \ {gen}
    /\ UNCHANGED <<grants, poolLock, gate, pending, ending, debugging, call, slipped>>

-----------------------------------------------------------------------------
(* The browser closes the socket.                                            *)

CloseSocket ==
    /\ \E e \in pool : e.open /\ pool' = {[e EXCEPT !.open = FALSE]}
    /\ UNCHANGED <<grants, poolLock, gate, marker, pending, releases, ending, debugging, call, slipped>>

CallStep(t) ==
    \/ Revoke(t) \/ TidyBrowser(t) \/ ReleaseExisting(t) \/ AbortSetup(t)
    \/ LookUpPrior(t) \/ NumberGrant(t) \/ MintGrant(t) \/ ClaimExisting(t) \/ ClaimDialled(t) \/ CommitSetup(t)
    \/ LookUpGrant(t) \/ GetExisting(t) \/ TakeGate(t) \/ AttemptReconnect(t)
    \/ PeekPool(t) \/ Dial(t) \/ InstallSocket(t) \/ AfterRedial(t) \/ UserAnswers(t)
    \/ ReadMarker(t) \/ GetSocket(t) \/ GetDialled(t) \/ Evict(t)

Begin ==
    /\ begun < MaxCalls /\ begun' = begun + 1
    /\ \/ \E t \in Threads, s \in Sessions : BeginPrepare(t, s) \/ BeginUse(t, s)
       \/ \E t \in Threads : BeginConnect(t)
       \/ \E s \in Sessions : EndSession(s)

Step ==
    \/ \E t \in Threads : CallStep(t) \/ AskUser(t) \/ HandLock(t)
    \/ \E s \in Sessions : EndTidiesBrowser(s)
    \/ \E gen \in releases : ReleaseTask(gen)
    \/ CloseSocket

Next == Begin \/ (Step /\ UNCHANGED begun)

Spec == Init /\ [][Next]_vars

-----------------------------------------------------------------------------

Places == {"idle", "revoke", "tidy", "unpool", "abort",
           "prior", "number", "mint", "forget", "claim", "claimDial", "commit",
           "lookup", "reuse", "gate", "recheck", "leaderReuse", "attempt",
           "peek", "dial", "install", "dialled", "failed",
           "marked", "get", "getDial", "evict"}

TypeOK ==
    /\ grants \subseteq [session : Sessions, gen : Nat, left : 0..MAX_RECONNECT_ATTEMPTS, cleanup : BOOLEAN]
    /\ \A g, h \in grants : g.session = h.session => g = h
    /\ pool \subseteq [gen : Nat, open : BOOLEAN]
    /\ \A e, f \in pool : e = f
    /\ poolLock \in Threads \cup {Nobody} /\ gate \in Threads \cup {Nobody}
    /\ marker \in BOOLEAN /\ slipped \in BOOLEAN
    /\ pending \subseteq Sessions
    /\ releases \subseteq Nat
    /\ ending \in [Sessions -> [at : {"none", "tidy"}, owes : BOOLEAN]]
    /\ debugging \in {"off", "driver", "user"}
    /\ call \in [Threads -> [at : Places, session : Sessions \cup {Nobody}, gen : Nat,
                             left : 0..MAX_RECONNECT_ATTEMPTS, old : Nat, cleanup : BOOLEAN,
                             setup : BOOLEAN, asked : {"no", "asking", "accepted", "again"}]]

Quiet ==
    /\ \A t \in Threads : At(t, "idle")
    /\ \A s \in Sessions : ending[s] = NoHook
    /\ releases = {}

\* Neither lock is part of a circle: who has the pool's waits only for the
\* browser or the user, who leads waits only for the pool's; nobody keeps
\* either past the end of a call (prepare.rs 1108, engine.rs 947: the dial is
\* cancelled before the revocation that needs the lock).
Leading == {"recheck", "leaderReuse", "attempt", "peek", "dial", "install", "dialled", "failed"}
LockHoldersProceed ==
    /\ \A t \in Threads : poolLock = t => call[t].at \in {"claimDial", "getDial", "peek", "install"}
    /\ \A t \in Threads : gate = t => call[t].at \in Leading \cup {"revoke", "tidy", "unpool"}

\* However many sessions notice that the browser's socket is dead, one of them
\* at a time proves the endpoint and redials it (reconnect.rs, header).
OneRedial == \A t, u \in Threads : call[t].at \in Leading /\ call[u].at \in Leading => t = u

\* When nothing is under way, what a grant owned has gone with it.  A socket of
\* the pool or a mark on the port (cdp_ws.rs 585) left behind would refuse the
\* endpoint to every other use; remote debugging that the driver turned on is
\* some grant's to turn off, or owed by a session whose clean-up failed
\* (grant.rs 218).
SocketHasGrant  == \A e \in pool : e.gen # 0 => \E g \in grants : g.gen = e.gen
MarkerHasGrant  == marker => grants # {}
SettingHasGrant == debugging = "driver" => pending # {} \/ \E g \in grants : g.cleanup
NothingOutlivesItsGrant == Quiet /\ ~slipped => SocketHasGrant /\ MarkerHasGrant /\ SettingHasGrant

=============================================================================
