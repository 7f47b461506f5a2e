------------------------ MODULE ProfileSocketsProofs ------------------------
(* Theorems about ProfileSockets, for any number of calls and sessions.      *)
EXTENDS ProfileSockets, TLAPS

-----------------------------------------------------------------------------
(* Types.                                                                    *)

GrantRecords ==
    [session : Sessions, gen : Nat, left : 0..MAX_RECONNECT_ATTEMPTS, cleanup : BOOLEAN]
CallRecords ==
    [at : Places, session : Sessions \cup {Nobody}, gen : Nat,
     left : 0..MAX_RECONNECT_ATTEMPTS, old : Nat, cleanup : BOOLEAN, setup : BOOLEAN,
     asked : {"no", "asking", "accepted", "again"}]

\* At most one grant a session, at most one socket.
GrantsOK(gs) == gs \subseteq GrantRecords /\ \A g, h \in gs : g.session = h.session => g = h
PoolOK   == pool \subseteq [gen : Nat, open : BOOLEAN] /\ \A e, f \in pool : e = f
CallsOK  == call \in [Threads -> CallRecords]
LocksOK  == poolLock \in Threads \cup {Nobody} /\ gate \in Threads \cup {Nobody}
TablesOK == /\ marker \in BOOLEAN /\ slipped \in BOOLEAN
            /\ pending \subseteq Sessions /\ releases \subseteq Nat
            /\ ending \in [Sessions -> [at : {"none", "tidy"}, owes : BOOLEAN]]
            /\ debugging \in {"off", "driver", "user"}

Types == GrantsOK(grants) /\ PoolOK /\ CallsOK /\ LocksOK /\ TablesOK

-----------------------------------------------------------------------------
(* The two locks.                                                            *)

\* Whoever is past the gate holds it.
LeaderHasGate == \A t \in Threads : call[t].at \in Leading => gate = t

LockInv == LeaderHasGate /\ LockHoldersProceed

-----------------------------------------------------------------------------
(* What a grant owned.                                                       *)

\* A socket whose grant is gone is about to be taken from the pool, or a redial
\* is under way, which ends with the grant's socket in the pool or is listed.
Releasing(c, gen) == c.at \in {"tidy", "unpool", "forget"} /\ c.old = gen
SocketIsOwned(e) ==
    \/ e.gen = 0
    \/ \E g \in grants : g.gen = e.gen
    \/ e.gen \in releases
    \/ \E t \in Threads : Releasing(call[t], e.gen) \/ Redialling(t)

\* The setting the driver turned on is a grant's, or owed, or that of a call that
\* has yet to give it to a grant or turn it off.
Settling(c) == \/ c.at \in {"tidy", "abort"}
               \/ c.setup /\ c.at \notin {"forget", "claim", "claimDial", "commit"}
SettingIsOwned ==
    \/ debugging # "driver"
    \/ pending # {}
    \/ \E g \in grants : g.cleanup
    \/ \E s \in Sessions : ending[s].at = "tidy" /\ ending[s].owes
    \/ \E t \in Threads : Settling(call[t])

\* A call that turned the setting on means to have its grant turn it off; one of
\* a session without a grant has not turned it on.  A grant is minted, and a setting
\* owed, in the name of a session.
Meant(c) == /\ c.at \in {"number", "mint"} /\ c.setup => c.cleanup
            /\ c.at \in {"idle", "marked", "get", "getDial", "evict"} => ~c.setup
            /\ c.at \in {"prior", "number", "mint", "tidy"} => c.session # Nobody

OwnedInv ==
    /\ \A t \in Threads : Meant(call[t])
    /\ slipped \/ ((\A e \in pool : SocketIsOwned(e)) /\ MarkerHasGrant /\ SettingIsOwned)

ProfileInv == Types /\ LockInv /\ OwnedInv

LEMMA TypeIsTypes == TypeOK <=> Types
BY DEF TypeOK, Types, GrantsOK, GrantRecords, PoolOK, CallsOK, CallRecords, LocksOK, TablesOK

LEMMA TypeInit == Init => Types
<1> SUFFICES ASSUME Init PROVE Types
  OBVIOUS
<1>1. Idle \in CallRecords
  BY BudgetAssumption DEF Idle, Call, CallRecords, Places
<1>2. CallsOK
  BY <1>1 DEF Init, CallsOK
<1>3. GrantsOK(grants) /\ PoolOK /\ LocksOK /\ TablesOK
  BY DEF Init, GrantsOK, PoolOK, LocksOK, TablesOK, NoHook
<1> QED
  BY <1>2, <1>3 DEF Types

\* A call written in one of the ways the actions write it.
LEMMA CallTyped ==
    ASSUME NEW at \in Places, NEW s \in Sessions \cup {Nobody}
    PROVE  Call(at, s) \in CallRecords
BY BudgetAssumption DEF Call, CallRecords

LEMMA SetTyped ==
    ASSUME CallsOK, NEW t \in Threads, NEW c \in CallRecords, Set(t, c)
    PROVE  CallsOK' /\ call'[t] = c /\ \A u \in Threads \ {t} : call'[u] = call[u]
BY DEF Set, CallsOK

LEMMA GotoTyped ==
    ASSUME CallsOK, NEW t \in Threads, NEW at \in Places, Goto(t, at)
    PROVE  /\ CallsOK' /\ call'[t] = [call[t] EXCEPT !.at = at]
           /\ \A u \in Threads \ {t} : call'[u] = call[u]
BY DEF Goto, CallsOK, CallRecords

LEMMA TurnTyped ==
    ASSUME CallsOK, NEW t \in Threads, NEW at \in Places, Turn(t, at)
    PROVE  /\ CallsOK' /\ \A u \in Threads \ {t} : call'[u] = call[u]
           /\ call'[t] = [Call(at, call[t].session) EXCEPT !.setup = call[t].setup]
<1>1. call[t] \in CallRecords
  BY DEF CallsOK
<1>2. [Call(at, call[t].session) EXCEPT !.setup = call[t].setup] \in CallRecords
  BY <1>1, CallTyped DEF CallRecords
<1> QED
  BY <1>2, SetTyped DEF Turn

LEMMA LeaveTyped ==
    ASSUME CallsOK, LocksOK, NEW t \in Threads, Leave(t)
    PROVE  /\ CallsOK' /\ gate' \in Threads \cup {Nobody}
           /\ \A u \in Threads \ {t} : call'[u] = call[u]
           /\ call'[t].at \in {"idle", "abort"} /\ ~call'[t].setup
           /\ call[t].setup => call'[t].at = "abort"
           /\ gate' # t
           /\ gate # t => gate' = gate
<1>1. call[t] \in CallRecords
  BY DEF CallsOK
<1>2. Call("abort", call[t].session) \in CallRecords /\ Idle \in CallRecords
  BY <1>1, CallTyped DEF CallRecords, Idle, Places
<1>3. Call("abort", call[t].session).at = "abort" /\ ~Call("abort", call[t].session).setup
  BY DEF Call
<1>4. Idle.at = "idle" /\ ~Idle.setup
  BY DEF Idle, Call
<1> QED
  BY <1>2, <1>3, <1>4, SetTyped, ThreadAssumption DEF Leave, LocksOK, Nobody

\* The grants without one of them, and what becomes of its duty.
LEMMA RemovedFacts ==
    ASSUME GrantsOK(grants), NEW g \in grants, NEW r \in Removed(g)
    PROVE  /\ GrantsOK(r.grants) /\ r.owes \in BOOLEAN
           /\ \A h \in grants \ {g} : \E k \in r.grants : k.gen = h.gen
           /\ \A h \in grants : h.cleanup => r.owes \/ \E k \in r.grants : k.cleanup
<1> DEFINE rest == grants \ {g}
<1>1. g \in GrantRecords /\ \A h \in grants : h \in GrantRecords
  BY DEF GrantsOK
<1>2. CASE g.cleanup /\ rest # {}
  <2>1. PICK h \in rest : r = [grants |-> (rest \ {h}) \cup {[h EXCEPT !.cleanup = TRUE]}, owes |-> FALSE]
    BY <1>2 DEF Removed
  <2> DEFINE k == [h EXCEPT !.cleanup = TRUE]
  <2>2. k \in GrantRecords /\ k.session = h.session /\ k.gen = h.gen /\ k.cleanup
    BY <1>1 DEF GrantRecords
  <2>3. r.grants = (rest \ {h}) \cup {k} /\ r.owes = FALSE
    BY <2>1
  <2> HIDE DEF k
  <2>4. GrantsOK(r.grants)
    BY <1>1, <2>2, <2>3 DEF GrantsOK
  <2> QED
    BY <2>2, <2>3, <2>4
<1>3. CASE ~(g.cleanup /\ rest # {})
  <2>1. r.grants = rest /\ r.owes = g.cleanup
    BY <1>3 DEF Removed
  <2>2. GrantsOK(rest)
    BY DEF GrantsOK
  <2> QED
    BY <1>1, <1>3, <2>1, <2>2 DEF GrantRecords
<1> QED
  BY <1>2, <1>3

LEMMA DropTyped ==
    ASSUME CallsOK, GrantsOK(grants), NEW t \in Threads, NEW g \in Of(call[t].session), Drop(t, g)
    PROVE  /\ CallsOK' /\ GrantsOK(grants') /\ marker' = FALSE
           /\ \A u \in Threads \ {t} : call'[u] = call[u]
           /\ call'[t].at \in {"tidy", "unpool"} /\ call'[t].setup = call[t].setup
           /\ call'[t].old = g.gen /\ call'[t].session # Nobody
           /\ \A h \in grants \ {g} : \E k \in grants' : k.gen = h.gen
           /\ (\E h \in grants : h.cleanup) =>
                  call'[t].at = "tidy" \/ \E k \in grants' : k.cleanup
<1>1. call[t] \in CallRecords /\ g \in grants /\ g \in GrantRecords
  BY DEF CallsOK, GrantsOK, Of
<1>2. PICK r \in Removed(g) :
          /\ grants' = r.grants
          /\ ReleaseClaim
          /\ Set(t, [Call(IF r.owes THEN "tidy" ELSE "unpool", call[t].session) EXCEPT
                       !.old = g.gen, !.setup = call[t].setup])
  BY DEF Drop
<1> DEFINE at == IF r.owes THEN "tidy" ELSE "unpool"
           c == [Call(at, call[t].session) EXCEPT !.old = g.gen, !.setup = call[t].setup]
<1>3. at \in Places
  BY DEF Places
<1>4. Call(at, call[t].session) \in CallRecords /\ Call(at, call[t].session).at = at
  <2>1. call[t].session \in Sessions \cup {Nobody}
    BY <1>1 DEF CallRecords
  <2> QED
    BY <1>3, <2>1, CallTyped DEF Call
<1>5. /\ c \in CallRecords /\ c.at = at /\ c.old = g.gen /\ c.setup = call[t].setup
      /\ c.session # Nobody
  <2>1. call[t].session = g.session /\ g.session \in Sessions /\ g.session # Nobody
    BY <1>1, ThreadAssumption DEF Of, GrantRecords, Nobody
  <2>2. Call(at, call[t].session).session = call[t].session
    BY DEF Call
  <2> QED
    BY <1>1, <1>4, <2>1, <2>2 DEF CallRecords, GrantRecords
<1>6. Set(t, c)
  BY <1>2
<1> HIDE DEF c
<1>7. CallsOK' /\ call'[t] = c /\ \A u \in Threads \ {t} : call'[u] = call[u]
  BY <1>5, <1>6, SetTyped
<1> QED
  BY <1>1, <1>2, <1>5, <1>7, RemovedFacts DEF ReleaseClaim

-----------------------------------------------------------------------------
(* What a step of a call may do to its locks and to what is owned.           *)

LockHolders == {"claimDial", "getDial", "peek", "install"}
GateHolders == Leading \cup {"revoke", "tidy", "unpool"}

\* Call t takes or gives back a lock for itself, at a place where it may hold it.
LockMove(t) ==
    /\ poolLock' = t => call'[t].at \in LockHolders
    /\ poolLock' # t => poolLock' \in {poolLock, Nobody}
    /\ gate' = t => call'[t].at \in GateHolders /\ gate \in {t, Nobody}
    /\ gate' # t => gate' = gate \/ (gate = t /\ gate' = Nobody)
    /\ call'[t].at \in Leading => gate' = t

OthersKept(t) == \A u \in Threads \ {t} : call'[u] = call[u]

LEMMA LockStep ==
    ASSUME LockInv, LocksOK, NEW t \in Threads, OthersKept(t), LockMove(t)
    PROVE  LockInv'
<1>1. LeaderHasGate'
  BY ThreadAssumption DEF LockInv, LeaderHasGate, LocksOK, OthersKept, LockMove, Nobody
<1>2. ASSUME NEW u \in Threads, poolLock' = u PROVE call'[u].at \in LockHolders
  BY <1>2, ThreadAssumption
     DEF LockInv, LockHoldersProceed, LocksOK, OthersKept, LockMove, Nobody, LockHolders
<1>3. ASSUME NEW u \in Threads, gate' = u PROVE call'[u].at \in GateHolders
  BY <1>3, ThreadAssumption
     DEF LockInv, LockHoldersProceed, LocksOK, OthersKept, LockMove, Nobody, GateHolders
<1> QED
  BY <1>1, <1>2, <1>3 DEF LockInv, LockHoldersProceed, LockHolders, GateHolders

\* What stands for a socket or for the setting goes on doing so.
SocketMove(t) ==
    /\ Redialling(t) => Redialling(t)'
    /\ \A e \in pool' : Releasing(call[t], e.gen) => Releasing(call'[t], e.gen)
SettingMove(t) == Settling(call[t]) => Settling(call'[t])

LEMMA SocketKept ==
    ASSUME \A e \in pool : SocketIsOwned(e), NEW t \in Threads, OthersKept(t), SocketMove(t),
           pool' \subseteq pool, releases' = releases,
           \A g \in grants : \/ g.gen = 0 \/ \E h \in grants' : h.gen = g.gen
                             \/ Releasing(call'[t], g.gen)
                             \/ Redialling(t)'
    PROVE  \A e \in pool' : SocketIsOwned(e)'
<1> SUFFICES ASSUME NEW e \in pool' PROVE SocketIsOwned(e)'
  OBVIOUS
<1>1. SocketIsOwned(e)
  OBVIOUS
<1>2. CASE \E u \in Threads : Releasing(call[u], e.gen) \/ Redialling(u)
  BY <1>2 DEF SocketMove, OthersKept, SocketIsOwned, Redialling
<1>3. CASE \E g \in grants : g.gen = e.gen
  BY <1>3 DEF SocketIsOwned
<1> QED
  BY <1>1, <1>2, <1>3 DEF SocketIsOwned

LEMMA SettingKept ==
    ASSUME SettingIsOwned, NEW t \in Threads, OthersKept(t), SettingMove(t),
           debugging' \in {debugging, "off"}, ending' = ending,
           pending # {} => pending' # {},
           (\E g \in grants : g.cleanup) => (\E g \in grants' : g.cleanup) \/ Settling(call'[t])
    PROVE  SettingIsOwned'
<1>1. CASE \E u \in Threads : Settling(call[u])
  BY <1>1 DEF SettingMove, OthersKept, SettingIsOwned
<1>2. CASE ~\E u \in Threads : Settling(call[u])
  BY <1>2 DEF SettingIsOwned
<1> QED
  BY <1>1, <1>2

\* A step that changes nothing but the call and its locks.
Plain(t) ==
    /\ UNCHANGED <<grants, pool, marker, pending, releases, ending, debugging>>
    /\ CallsOK' /\ LocksOK' /\ OthersKept(t) /\ LockMove(t) /\ Meant(call'[t])
    /\ slipped' \in BOOLEAN
    /\ ~slipped' => ~slipped /\ SocketMove(t) /\ SettingMove(t)

LEMMA MeantStep ==
    ASSUME OwnedInv, NEW t \in Threads, OthersKept(t), Meant(call'[t])
    PROVE  \A u \in Threads : Meant(call[u])'
BY DEF OwnedInv, OthersKept

LEMMA PlainStep ==
    ASSUME ProfileInv, NEW t \in Threads, Plain(t)
    PROVE  ProfileInv'
<1> USE DEF ProfileInv, Plain
<1>1. Types'
  BY DEF Types, GrantsOK, PoolOK, TablesOK
<1>2. LockInv'
  BY LockStep DEF Types
<1>3. ASSUME ~slipped'
      PROVE  (\A e \in pool : SocketIsOwned(e))' /\ MarkerHasGrant' /\ SettingIsOwned'
  <2>1. (\A e \in pool : SocketIsOwned(e)) /\ MarkerHasGrant /\ SettingIsOwned
    BY <1>3 DEF OwnedInv
  <2>2. (\A e \in pool : SocketIsOwned(e))'
    BY <1>3, <2>1, SocketKept
  <2>3. SettingIsOwned'
    BY <1>3, <2>1, SettingKept
  <2> QED
    BY <2>1, <2>2, <2>3 DEF MarkerHasGrant
<1>4. OwnedInv'
  BY <1>3, MeantStep DEF OwnedInv
<1> QED
  BY <1>1, <1>2, <1>4

\* A grant is found expired: whoever finds it goes on to release what it owned.
LEMMA ExpiredStep ==
    ASSUME ProfileInv, NEW t \in Threads, Expired(t),
           UNCHANGED <<pool, poolLock, gate, pending, releases, ending, debugging, slipped>>,
           call[t].at \in {"revoke", "prior", "lookup", "recheck", "dialled", "failed"}
    PROVE  ProfileInv'
<1> USE DEF ProfileInv
<1>1. PICK g \in Of(call[t].session) : Drop(t, g)
  BY DEF Expired
<1>2. /\ CallsOK' /\ GrantsOK(grants') /\ marker' = FALSE
      /\ \A u \in Threads \ {t} : call'[u] = call[u]
      /\ call'[t].at \in {"tidy", "unpool"} /\ call'[t].setup = call[t].setup
      /\ call'[t].old = g.gen /\ call'[t].session # Nobody
      /\ \A h \in grants \ {g} : \E k \in grants' : k.gen = h.gen
      /\ (\E h \in grants : h.cleanup) =>
             call'[t].at = "tidy" \/ \E k \in grants' : k.cleanup
  BY <1>1, DropTyped DEF Types
<1>3. Types'
  BY <1>2 DEF Types, PoolOK, LocksOK, TablesOK
<1>4. OthersKept(t) /\ Meant(call'[t])
  BY <1>2 DEF OthersKept, Meant
<1>5. LockInv'
  <2>1. LockMove(t)
    <3>1. poolLock # t /\ poolLock' = poolLock /\ gate' = gate
      BY DEF LockInv, LockHoldersProceed
    <3>2. call'[t].at \in GateHolders /\ call'[t].at \notin Leading
      BY <1>2 DEF GateHolders, Leading
    <3> QED
      BY <3>1, <3>2 DEF LockMove
  <2> QED
    BY <1>4, <2>1, LockStep DEF Types
<1>6. ASSUME ~slipped
      PROVE  (\A e \in pool : SocketIsOwned(e))' /\ MarkerHasGrant' /\ SettingIsOwned'
  <2>1. (\A e \in pool : SocketIsOwned(e)) /\ MarkerHasGrant /\ SettingIsOwned
    BY <1>6 DEF OwnedInv
  <2>2. SocketMove(t) /\ SettingMove(t)
    BY <1>2 DEF SocketMove, Redialling, Releasing, SettingMove, Settling
  <2>3. (\A e \in pool : SocketIsOwned(e))'
    <3>1. \A h \in grants : (\E k \in grants' : k.gen = h.gen) \/ Releasing(call'[t], h.gen)
      BY <1>2 DEF Releasing
    <3> QED
      BY <1>4, <2>1, <2>2, <3>1, SocketKept
  <2>4. SettingIsOwned'
    <3>1. (\E h \in grants : h.cleanup) => (\E k \in grants' : k.cleanup) \/ Settling(call'[t])
      BY <1>2 DEF Settling
    <3> QED
      BY <1>4, <2>1, <2>2, <3>1, SettingKept
  <2> QED
    BY <1>2, <2>3, <2>4 DEF MarkerHasGrant
<1>7. OwnedInv'
  BY <1>4, <1>6, MeantStep DEF OwnedInv
<1> QED
  BY <1>3, <1>5, <1>7

-----------------------------------------------------------------------------
(* Each step, beginning with those that only move the call.                  *)

LEMMA CallFacts ==
    ASSUME ProfileInv, NEW t \in Threads
    PROVE  /\ call[t] \in CallRecords /\ Meant(call[t])
           /\ poolLock = t => call[t].at \in LockHolders
           /\ gate = t => call[t].at \in GateHolders
           /\ call[t].at \in Leading => gate = t
           /\ CallsOK /\ LocksOK /\ t # Nobody
BY ThreadAssumption DEF ProfileInv, Types, CallsOK, LockInv, LeaderHasGate, LockHoldersProceed,
   LockHolders, GateHolders, OwnedInv, Nobody

\* The call returns.
LEMMA LeaveStep ==
    ASSUME ProfileInv, NEW t \in Threads, Leave(t),
           call[t].at \notin LockHolders \cup {"dial", "tidy", "unpool", "forget", "abort"},
           UNCHANGED <<grants, pool, poolLock, marker, pending, releases, ending, debugging, slipped>>
    PROVE  ProfileInv'
<1>1. /\ CallsOK' /\ gate' \in Threads \cup {Nobody}
      /\ \A u \in Threads \ {t} : call'[u] = call[u]
      /\ call'[t].at \in {"idle", "abort"} /\ ~call'[t].setup
      /\ call[t].setup => call'[t].at = "abort"
      /\ gate' # t
      /\ gate # t => gate' = gate
  BY CallFacts, LeaveTyped
<1>2. gate' = IF gate = t THEN Nobody ELSE gate
  BY DEF Leave
<1>3. LockMove(t) /\ LocksOK'
  BY <1>1, <1>2, CallFacts DEF LockMove, Leading, LocksOK
<1>4. Meant(call'[t])
  BY <1>1 DEF Meant
<1>5. SocketMove(t) /\ SettingMove(t)
  BY <1>1 DEF SocketMove, SettingMove, Settling, Releasing, Redialling, LockHolders
<1>6. Plain(t)
  BY <1>1, <1>3, <1>4, <1>5 DEF Plain, OthersKept, ProfileInv, Types, TablesOK
<1> QED
  BY <1>6, PlainStep

\* The call goes on elsewhere and keeps the locks it has.
Onward(c, d) ==
    /\ d.setup = c.setup
    /\ d.at \notin {"idle", "marked", "get", "getDial", "evict", "prior", "tidy"}
    /\ d.at \in {"number", "mint"} => d.session # Nobody /\ (d.setup => d.cleanup)
    /\ c.at \notin {"dial", "tidy", "unpool", "forget", "abort"}
    /\ d.at \notin {"forget", "claim", "claimDial", "commit"} \/ c.at \in {"claim", "claimDial"}

LEMMA OnwardStep ==
    ASSUME ProfileInv, NEW t \in Threads, NEW d \in CallRecords, Set(t, d),
           Onward(call[t], d), call[t].at \notin LockHolders,
           d.at \in Leading => gate = t, gate = t => d.at \in GateHolders,
           UNCHANGED <<grants, pool, poolLock, gate, marker, pending, releases, ending,
                       debugging, slipped>>
    PROVE  ProfileInv'
<1>1. CallsOK' /\ call'[t] = d /\ \A u \in Threads \ {t} : call'[u] = call[u]
  BY CallFacts, SetTyped
<1>2. LockMove(t) /\ LocksOK'
  BY <1>1, CallFacts DEF LockMove, LocksOK
<1>3. Meant(call'[t])
  BY <1>1 DEF Meant, Onward
<1>4. SocketMove(t) /\ SettingMove(t)
  BY <1>1 DEF SocketMove, SettingMove, Settling, Releasing, Redialling, LockHolders, Onward
<1>5. Plain(t)
  BY <1>1, <1>2, <1>3, <1>4 DEF Plain, OthersKept, ProfileInv, Types, TablesOK
<1> QED
  BY <1>5, PlainStep

\* What a call turns into when it keeps nothing but its session and its setup.
LEMMA TurnFacts ==
    ASSUME NEW c \in CallRecords, NEW at \in Places
    PROVE  LET d == [Call(at, c.session) EXCEPT !.setup = c.setup]
           IN  d \in CallRecords /\ d.at = at /\ d.setup = c.setup
<1>1. Call(at, c.session) \in CallRecords
  BY CallTyped DEF CallRecords
<1> QED
  BY <1>1 DEF Call, CallRecords

LEMMA TurnStep ==
    ASSUME ProfileInv, NEW t \in Threads, Turn(t, "revoke"),
           call[t].at \in {"commit", "attempt"},
           UNCHANGED <<grants, pool, poolLock, gate, marker, pending, releases, ending,
                       debugging, slipped>>
    PROVE  ProfileInv'
<1> DEFINE d == [Call("revoke", call[t].session) EXCEPT !.setup = call[t].setup]
<1>1. d \in CallRecords /\ d.at = "revoke" /\ d.setup = call[t].setup
  BY CallFacts, TurnFacts DEF Places
<1>2. Set(t, d)
  BY DEF Turn
<1> HIDE DEF d
<1>3. Onward(call[t], d) /\ call[t].at \notin LockHolders /\ d.at \in GateHolders /\ d.at \notin Leading
  BY <1>1 DEF Onward, LockHolders, GateHolders, Leading
<1> QED
  BY <1>1, <1>2, <1>3, OnwardStep

LEMMA RevokeStep == ASSUME ProfileInv, NEW t \in Threads, Revoke(t) PROVE ProfileInv'
<1>1. CASE Missing(t) /\ Leave(t)
  BY <1>1, LeaveStep DEF Revoke, Missing, At, LockHolders
<1>2. CASE Expired(t) /\ UNCHANGED gate
  BY <1>2, ExpiredStep DEF Revoke, At
<1> QED
  BY <1>1, <1>2 DEF Revoke

LEMMA LookUpPriorStep == ASSUME ProfileInv, NEW t \in Threads, LookUpPrior(t) PROVE ProfileInv'
<1>0. /\ call[t].at = "prior" /\ call[t] \in CallRecords /\ call[t].session # Nobody
      /\ UNCHANGED <<pool, poolLock, gate, pending, releases, ending, debugging, slipped>>
  BY CallFacts DEF LookUpPrior, At, Meant
<1>g. gate # t
  BY <1>0, CallFacts DEF GateHolders, Leading
<1>1. CASE Missing(t) /\ Set(t, [call[t] EXCEPT !.at = "number", !.cleanup = call[t].setup])
  <2> DEFINE d == [call[t] EXCEPT !.at = "number", !.cleanup = call[t].setup]
  <2>1. /\ d \in CallRecords /\ d.at = "number" /\ d.setup = call[t].setup /\ d.cleanup = call[t].setup
        /\ d.session # Nobody
    BY <1>0 DEF CallRecords, Places
  <2>2. Set(t, d)
    BY <1>1
  <2> HIDE DEF d
  <2>3. Onward(call[t], d) /\ call[t].at \notin LockHolders /\ d.at \notin Leading
    BY <1>0, <2>1 DEF Onward, LockHolders, Leading
  <2> QED
    BY <1>0, <1>1, <1>g, <2>1, <2>2, <2>3, OnwardStep DEF Missing
<1>2. CASE Expired(t)
  BY <1>0, <1>2, ExpiredStep
<1>3. ASSUME NEW g \in Of(call[t].session), Live(t, g),
             Set(t, [call[t] EXCEPT !.at = "number", !.old = g.gen,
                                    !.cleanup = call[t].setup \/ g.cleanup])
      PROVE  ProfileInv'
  <2> DEFINE d == [call[t] EXCEPT !.at = "number", !.old = g.gen,
                                  !.cleanup = call[t].setup \/ g.cleanup]
  <2>0. g \in GrantRecords
    BY DEF ProfileInv, Types, GrantsOK, Of
  <2>1. /\ d \in CallRecords /\ d.at = "number" /\ d.setup = call[t].setup
        /\ d.setup => d.cleanup
        /\ d.session # Nobody
    BY <1>0, <2>0 DEF CallRecords, GrantRecords, Places
  <2>2. Set(t, d)
    BY <1>3
  <2> HIDE DEF d
  <2>3. Onward(call[t], d) /\ call[t].at \notin LockHolders /\ d.at \notin Leading
    BY <1>0, <2>1 DEF Onward, LockHolders, Leading
  <2> QED
    BY <1>0, <1>3, <1>g, <2>1, <2>2, <2>3, OnwardStep DEF Live
<1> QED
  BY <1>1, <1>2, <1>3 DEF LookUpPrior

LEMMA NumberGrantStep == ASSUME ProfileInv, NEW t \in Threads, NumberGrant(t) PROVE ProfileInv'
<1>0. /\ call[t].at = "number" /\ call[t] \in CallRecords /\ Meant(call[t])
      /\ UNCHANGED <<grants, pool, poolLock, gate, marker, pending, releases, ending, debugging, slipped>>
  BY CallFacts DEF NumberGrant, At
<1>g. gate # t
  BY <1>0, CallFacts DEF GateHolders, Leading
<1>1. PICK n \in IF Of(call[t].session) = {} THEN {1} ELSE {g.gen + 1 : g \in Of(call[t].session)} :
          Set(t, [call[t] EXCEPT !.at = "mint", !.gen = n])
  BY DEF NumberGrant
<1>2. n \in Nat
  <2>1. \A g \in Of(call[t].session) : g.gen \in Nat
    BY DEF ProfileInv, Types, GrantsOK, GrantRecords, Of
  <2> QED
    BY <1>1, <2>1
<1> DEFINE d == [call[t] EXCEPT !.at = "mint", !.gen = n]
<1>3. /\ d \in CallRecords /\ d.at = "mint" /\ d.setup = call[t].setup /\ d.cleanup = call[t].cleanup
      /\ d.session = call[t].session
  BY <1>0, <1>2 DEF CallRecords, Places
<1>4. Set(t, d)
  BY <1>1
<1> HIDE DEF d
<1>5. Onward(call[t], d) /\ call[t].at \notin LockHolders /\ d.at \notin Leading
  BY <1>0, <1>3 DEF Onward, LockHolders, Leading, Meant
<1> QED
  BY <1>0, <1>g, <1>3, <1>4, <1>5, OnwardStep

LEMMA LookUpGrantStep == ASSUME ProfileInv, NEW t \in Threads, LookUpGrant(t) PROVE ProfileInv'
<1>0. /\ call[t].at \in {"lookup", "recheck"} /\ call[t] \in CallRecords
      /\ UNCHANGED <<pool, poolLock, pending, releases, ending, debugging, slipped>>
  BY CallFacts DEF LookUpGrant, At
<1>1. CASE Missing(t) /\ Leave(t)
  BY <1>0, <1>1, LeaveStep DEF Missing, LockHolders
<1>2. CASE Expired(t) /\ UNCHANGED gate
  BY <1>0, <1>2, ExpiredStep
<1>3. ASSUME NEW g \in Of(call[t].session), Live(t, g), UNCHANGED gate,
             NEW at, \/ call[t].at = "lookup" /\ at = "reuse"
                     \/ call[t].at = "recheck" /\ at = "leaderReuse",
             Copy(t, g, at)
      PROVE  ProfileInv'
  <2> DEFINE d == [call[t] EXCEPT !.at = at, !.gen = g.gen, !.left = g.left]
  <2>0. g \in GrantRecords
    BY DEF ProfileInv, Types, GrantsOK, Of
  <2>1. d \in CallRecords /\ d.at = at /\ d.setup = call[t].setup
    BY <1>0, <1>3, <2>0 DEF CallRecords, GrantRecords, Places
  <2>2. Set(t, d)
    BY <1>3 DEF Copy
  <2> HIDE DEF d
  <2>3. Onward(call[t], d) /\ call[t].at \notin LockHolders
    BY <1>0, <1>3, <2>1 DEF Onward, LockHolders
  <2>4. (d.at \in Leading => gate = t) /\ (gate = t => d.at \in GateHolders)
    BY <1>0, <1>3, <2>1, CallFacts DEF Leading, GateHolders
  <2> QED
    BY <1>0, <1>3, <2>1, <2>2, <2>3, <2>4, OnwardStep DEF Live
<1> QED
  BY <1>1, <1>2, <1>3 DEF LookUpGrant, At

LEMMA GetExistingStep == ASSUME ProfileInv, NEW t \in Threads, GetExisting(t) PROVE ProfileInv'
<1>0. /\ call[t].at \in {"reuse", "leaderReuse"} /\ call[t] \in CallRecords
      /\ UNCHANGED <<grants, pool, poolLock, marker, pending, releases, ending, debugging, slipped>>
  BY CallFacts DEF GetExisting, At
<1>1. CASE Leave(t)
  BY <1>0, <1>1, LeaveStep DEF LockHolders
<1>2. CASE Goto(t, IF At(t, "reuse") THEN "gate" ELSE "attempt") /\ UNCHANGED gate
  <2> DEFINE at == IF At(t, "reuse") THEN "gate" ELSE "attempt"
             d == [call[t] EXCEPT !.at = at]
  <2>1. d \in CallRecords /\ d.at = at /\ d.setup = call[t].setup
    BY <1>0 DEF CallRecords, Places
  <2>2. Set(t, d)
    BY <1>2 DEF Set, Goto
  <2>3. Onward(call[t], d) /\ call[t].at \notin LockHolders
    BY <1>0, <2>1 DEF Onward, LockHolders
  <2>4. (d.at \in Leading => gate = t) /\ (gate = t => d.at \in GateHolders)
    BY <1>0, <2>1, CallFacts DEF Leading, GateHolders, At
  <2> HIDE DEF d
  <2> QED
    BY <1>0, <1>2, <2>1, <2>2, <2>3, <2>4, OnwardStep
<1> QED
  BY <1>1, <1>2 DEF GetExisting

LEMMA TakeGateStep == ASSUME ProfileInv, NEW t \in Threads, TakeGate(t) PROVE ProfileInv'
<1>0. /\ call[t].at = "gate" /\ call[t] \in CallRecords /\ gate = Nobody /\ gate' = t
      /\ UNCHANGED <<grants, pool, poolLock, marker, pending, releases, ending, debugging, slipped>>
  BY CallFacts DEF TakeGate, At, MayLead
<1>1. /\ CallsOK' /\ call'[t] = [call[t] EXCEPT !.at = "recheck"]
      /\ \A u \in Threads \ {t} : call'[u] = call[u]
  <2>1. Goto(t, "recheck") /\ "recheck" \in Places
    BY DEF TakeGate, Places
  <2> QED
    BY <2>1, CallFacts, GotoTyped
<1>2. call'[t].at = "recheck" /\ call'[t].setup = call[t].setup
  BY <1>0, <1>1 DEF CallRecords
<1>3. LockMove(t) /\ LocksOK'
  BY <1>0, <1>2, CallFacts DEF LockMove, LocksOK, GateHolders, Leading, LockHolders
<1>4. Meant(call'[t]) /\ SocketMove(t) /\ SettingMove(t)
  BY <1>0, <1>2 DEF Meant, SocketMove, SettingMove, Settling, Releasing, Redialling
<1>5. Plain(t)
  BY <1>0, <1>1, <1>3, <1>4 DEF Plain, OthersKept, ProfileInv, Types, TablesOK
<1> QED
  BY <1>5, PlainStep

\* A generation is spent: from here the redial stands for whatever is in the pool.
LEMMA SpendStep ==
    ASSUME ProfileInv, NEW t \in Threads, call[t].at = "attempt",
           NEW g \in Of(call[t].session), g.left > 0,
           grants' = (grants \ {g}) \cup {[g EXCEPT !.gen = @ + 1, !.left = @ - 1]},
           Set(t, [call[t] EXCEPT !.at = "peek", !.old = call[t].gen, !.gen = g.gen + 1, !.left = 0]),
           UNCHANGED <<pool, poolLock, gate, marker, pending, releases, ending, debugging, slipped>>
    PROVE  ProfileInv'
<1>0. /\ call[t] \in CallRecords /\ gate = t /\ poolLock # t
      /\ g \in grants /\ g \in GrantRecords /\ GrantsOK(grants)
  <2>1. g \in grants /\ GrantsOK(grants)
    BY DEF ProfileInv, Types, Of
  <2>2. g \in GrantRecords
    BY <2>1 DEF GrantsOK
  <2> QED
    BY <2>1, <2>2, CallFacts DEF Leading, LockHolders
<1> DEFINE h == [g EXCEPT !.gen = @ + 1, !.left = @ - 1]
           d == [call[t] EXCEPT !.at = "peek", !.old = call[t].gen, !.gen = g.gen + 1, !.left = 0]
<1>1. h \in GrantRecords /\ h.session = g.session /\ h.cleanup = g.cleanup
  <2>1. g.left - 1 \in 0..MAX_RECONNECT_ATTEMPTS /\ g.gen + 1 \in Nat
    BY <1>0, BudgetAssumption DEF GrantRecords
  <2> QED
    BY <1>0, <2>1 DEF GrantRecords
<1>2. d \in CallRecords /\ d.at = "peek" /\ d.setup = call[t].setup
  <2>1. call[t].gen \in Nat /\ g.gen + 1 \in Nat /\ 0 \in 0..MAX_RECONNECT_ATTEMPTS
    BY <1>0, BudgetAssumption DEF CallRecords, GrantRecords
  <2>2. "peek" \in Places
    BY DEF Places
  <2> QED
    BY <1>0, <2>1, <2>2 DEF CallRecords
<1>3. grants' = (grants \ {g}) \cup {h} /\ Set(t, d)
  OBVIOUS
<1> HIDE DEF h, d
<1>4. CallsOK' /\ call'[t] = d /\ \A u \in Threads \ {t} : call'[u] = call[u]
  BY <1>2, <1>3, CallFacts, SetTyped
<1>5. GrantsOK(grants')
  BY <1>0, <1>1, <1>3 DEF GrantsOK
<1>6. Types'
  BY <1>4, <1>5 DEF ProfileInv, Types, PoolOK, LocksOK, TablesOK
<1>7. OthersKept(t) /\ Meant(call'[t]) /\ SocketMove(t) /\ SettingMove(t)
  BY <1>2, <1>4 DEF OthersKept, Meant, SocketMove, SettingMove, Settling, Releasing, Redialling
<1>8. LockInv'
  <2>1. LockMove(t)
    BY <1>0, <1>2, <1>4 DEF LockMove, GateHolders, Leading
  <2> QED
    BY <1>7, <2>1, LockStep DEF ProfileInv, Types
<1>9. ASSUME ~slipped
      PROVE  (\A e \in pool : SocketIsOwned(e))' /\ MarkerHasGrant' /\ SettingIsOwned'
  <2>1. Redialling(t)' /\ SettingIsOwned
    BY <1>2, <1>4, <1>9 DEF Redialling, ProfileInv, OwnedInv
  <2>2. (\E k \in grants : k.cleanup) => \E k \in grants' : k.cleanup
    BY <1>1, <1>3
  <2>3. SettingIsOwned'
    BY <1>7, <2>1, <2>2, SettingKept
  <2> QED
    BY <1>3, <2>1, <2>3 DEF SocketIsOwned, MarkerHasGrant
<1>10. OwnedInv'
  BY <1>7, <1>9, MeantStep DEF ProfileInv, OwnedInv
<1> QED
  BY <1>6, <1>8, <1>10 DEF ProfileInv

LEMMA AttemptStep == ASSUME ProfileInv, NEW t \in Threads, AttemptReconnect(t) PROVE ProfileInv'
<1>0. /\ call[t].at = "attempt"
      /\ UNCHANGED <<pool, poolLock, marker, pending, releases, ending, debugging, slipped>>
  BY DEF AttemptReconnect, At
<1>1. CASE Turn(t, "revoke") /\ UNCHANGED <<grants, gate>>
  BY <1>0, <1>1, TurnStep
<1>2. CASE Leave(t) /\ UNCHANGED grants
  BY <1>0, <1>2, LeaveStep DEF LockHolders
<1>3. ASSUME NEW g \in Of(call[t].session), Budget(call[t], g),
             grants' = (grants \ {g}) \cup {[g EXCEPT !.gen = @ + 1, !.left = @ - 1]},
             Set(t, [call[t] EXCEPT !.at = "peek", !.old = call[t].gen, !.gen = g.gen + 1, !.left = 0]),
             UNCHANGED gate
      PROVE  ProfileInv'
  BY <1>0, <1>3, SpendStep DEF Budget
<1> QED
  BY <1>1, <1>2, <1>3 DEF AttemptReconnect

\* A redial that ends as it should leaves its own socket in the pool, and its grant.
LEMMA RedialledStep ==
    ASSUME ProfileInv, NEW t \in Threads, NEW ok \in BOOLEAN, Redialled(t, ok),
           Redialling(t), poolLock' # t, poolLock' \in {poolLock, Nobody},
           pool' = pool \/ pool' = {Entry(call[t].gen, TRUE)},
           UNCHANGED <<grants, gate, marker, pending, releases, ending, debugging>>
    PROVE  ProfileInv'
<1>0. call[t] \in CallRecords /\ gate = t /\ LocksOK
  BY CallFacts DEF Redialling, Leading
<1> DEFINE at == IF ok THEN "dialled" ELSE "failed"
           d == [Call(at, call[t].session) EXCEPT !.setup = call[t].setup]
<1>1. d \in CallRecords /\ d.at = at /\ d.setup = call[t].setup
  <2>1. at \in Places
    BY DEF Places
  <2> QED
    BY <1>0, <2>1, TurnFacts
<1>2. Set(t, d)
  BY DEF Redialled, Turn
<1> HIDE DEF d
<1>3. CallsOK' /\ call'[t] = d /\ \A u \in Threads \ {t} : call'[u] = call[u]
  BY <1>1, <1>2, CallFacts, SetTyped
<1>4. PoolOK'
  <2>1. Entry(call[t].gen, TRUE) \in [gen : Nat, open : BOOLEAN]
    BY <1>0 DEF Entry, CallRecords
  <2>2. PoolOK
    BY DEF ProfileInv, Types
  <2> QED
    BY <2>1, <2>2 DEF PoolOK
<1>5. slipped' = (slipped \/ ~(\E e \in pool' : Owns(e, call[t].gen))
                          \/ ~\E g \in Of(call[t].session) : g.gen = call[t].gen)
  BY DEF Redialled
<1>6. Types'
  BY <1>0, <1>3, <1>4, <1>5 DEF ProfileInv, Types, LocksOK, TablesOK
<1>7. OthersKept(t) /\ Meant(call'[t]) /\ SettingMove(t)
  BY <1>1, <1>3 DEF OthersKept, Meant, SettingMove, Settling, Redialling
<1>8. LockInv'
  <2>1. LockMove(t)
    BY <1>0, <1>1, <1>3 DEF LockMove, GateHolders, Leading
  <2> QED
    BY <1>7, <2>1, LockStep DEF ProfileInv, Types
<1>9. ASSUME ~slipped'
      PROVE  (\A e \in pool : SocketIsOwned(e))' /\ MarkerHasGrant' /\ SettingIsOwned'
  <2>1. ~slipped /\ MarkerHasGrant /\ SettingIsOwned
    BY <1>5, <1>9 DEF ProfileInv, OwnedInv
  <2>2. PICK e \in pool' : e.gen = call[t].gen
    BY <1>5, <1>9 DEF Owns
  <2>3. PICK g \in grants : g.gen = call[t].gen
    BY <1>5, <1>9 DEF Of
  <2>4. \A f \in pool' : f = e
    BY <1>4 DEF PoolOK
  <2>5. (\A f \in pool : SocketIsOwned(f))'
    BY <2>2, <2>3, <2>4 DEF SocketIsOwned
  <2>6. SettingIsOwned'
    BY <1>7, <2>1, SettingKept
  <2> QED
    BY <2>1, <2>5, <2>6 DEF MarkerHasGrant
<1>10. OwnedInv'
  BY <1>7, <1>9, MeantStep DEF ProfileInv, OwnedInv
<1> QED
  BY <1>6, <1>8, <1>10 DEF ProfileInv

\* The redial goes on: peek, dial, install.
LEMMA RedialOnStep ==
    ASSUME ProfileInv, NEW t \in Threads, Redialling(t),
           NEW at \in {"dial", "install"}, Goto(t, at),
           poolLock' # t, poolLock' \in {poolLock, Nobody},
           UNCHANGED <<grants, pool, gate, marker, pending, releases, ending, debugging, slipped>>
    PROVE  ProfileInv'
<1>0. call[t] \in CallRecords /\ gate = t /\ LocksOK
  BY CallFacts DEF Redialling, Leading
<1>1. /\ CallsOK' /\ call'[t] = [call[t] EXCEPT !.at = at]
      /\ \A u \in Threads \ {t} : call'[u] = call[u]
  <2>1. at \in Places
    BY DEF Places
  <2> QED
    BY <2>1, CallFacts, GotoTyped
<1>2. call'[t].at = at /\ call'[t].setup = call[t].setup
  BY <1>0, <1>1 DEF CallRecords
<1>3. LockMove(t) /\ LocksOK'
  BY <1>0, <1>2 DEF LockMove, LocksOK, GateHolders, Leading
<1>4. Meant(call'[t]) /\ SocketMove(t) /\ SettingMove(t)
  BY <1>2 DEF Meant, SocketMove, SettingMove, Settling, Releasing, Redialling
<1>5. Plain(t)
  BY <1>1, <1>3, <1>4 DEF Plain, OthersKept, ProfileInv, Types, TablesOK
<1> QED
  BY <1>5, PlainStep

LEMMA RedialStep ==
    ASSUME ProfileInv, NEW t \in Threads, PeekPool(t) \/ Dial(t) \/ InstallSocket(t)
    PROVE  ProfileInv'
<1>0. Redialling(t) /\ t # Nobody
  BY CallFacts DEF PeekPool, Dial, InstallSocket, At, Redialling
<1>1. CASE PeekPool(t)
  <2>0. /\ poolLock' = Nobody /\ pool' = pool
        /\ UNCHANGED <<grants, gate, marker, pending, releases, ending, debugging>>
    BY <1>1 DEF PeekPool
  <2>1. CASE Redialled(t, FALSE) \/ Redialled(t, TRUE)
    BY <1>0, <2>0, <2>1, RedialledStep
  <2>2. CASE Goto(t, "dial") /\ UNCHANGED slipped
    BY <1>0, <2>0, <2>2, RedialOnStep
  <2> QED
    BY <1>1, <2>1, <2>2 DEF PeekPool
<1>2. CASE Dial(t)
  <2>0. /\ poolLock' = poolLock /\ poolLock # t /\ pool' = pool
        /\ UNCHANGED <<grants, gate, marker, pending, releases, ending, debugging>>
    BY <1>2, CallFacts DEF Dial, At, LockHolders
  <2>1. CASE Redialled(t, FALSE)
    BY <1>0, <2>0, <2>1, RedialledStep
  <2>2. CASE Goto(t, "install") /\ UNCHANGED slipped
    BY <1>0, <2>0, <2>2, RedialOnStep
  <2> QED
    BY <1>2, <2>1, <2>2 DEF Dial
<1>3. CASE InstallSocket(t)
  <2>0. /\ poolLock' = Nobody
        /\ UNCHANGED <<grants, gate, marker, pending, releases, ending, debugging>>
    BY <1>3 DEF InstallSocket
  <2>1. ASSUME NEW ok \in BOOLEAN, Redialled(t, ok),
               pool' = pool \/ pool' = {Entry(call[t].gen, TRUE)}
        PROVE  ProfileInv'
    BY <1>0, <2>0, <2>1, RedialledStep
  <2>2. Reusable(call[t].gen) \in BOOLEAN
    BY DEF Reusable
  <2> QED
    BY <1>3, <2>1, <2>2 DEF InstallSocket
<1> QED
  BY <1>1, <1>2, <1>3

LEMMA AfterRedialStep == ASSUME ProfileInv, NEW t \in Threads, AfterRedial(t) PROVE ProfileInv'
<1>0. /\ call[t].at \in {"dialled", "failed"} /\ call[t] \in CallRecords /\ gate = t
      /\ UNCHANGED <<pool, poolLock, pending, releases, ending, debugging, slipped>>
  BY CallFacts DEF AfterRedial, At, Leading
<1>1. CASE Leave(t) /\ UNCHANGED <<grants, marker>>
  BY <1>0, <1>1, LeaveStep DEF LockHolders
<1>2. CASE Expired(t) /\ UNCHANGED gate
  BY <1>0, <1>2, ExpiredStep
<1>3. ASSUME NEW g \in Of(call[t].session), Live(t, g), Copy(t, g, "attempt"), UNCHANGED gate
      PROVE  ProfileInv'
  <2> DEFINE d == [call[t] EXCEPT !.at = "attempt", !.gen = g.gen, !.left = g.left]
  <2>0. g \in GrantRecords
    BY DEF ProfileInv, Types, GrantsOK, Of
  <2>1. d \in CallRecords /\ d.at = "attempt" /\ d.setup = call[t].setup
    BY <1>0, <2>0 DEF CallRecords, GrantRecords, Places
  <2>2. Set(t, d)
    BY <1>3 DEF Copy
  <2> HIDE DEF d
  <2>3. Onward(call[t], d) /\ call[t].at \notin LockHolders /\ d.at \in GateHolders
    BY <1>0, <2>1 DEF Onward, LockHolders, GateHolders, Leading
  <2> QED
    BY <1>0, <1>3, <2>1, <2>2, <2>3, OnwardStep DEF Live
<1> QED
  BY <1>1, <1>2, <1>3 DEF AfterRedial, Missing, Live

LEMMA AskUserStep == ASSUME ProfileInv, NEW t \in Threads, AskUser(t) PROVE ProfileInv'
<1>0. /\ call[t] \in CallRecords /\ Meant(call[t])
      /\ Set(t, [call[t] EXCEPT !.asked = "asking"])
      /\ UNCHANGED <<grants, pool, poolLock, gate, marker, pending, releases, ending, debugging, slipped>>
  BY CallFacts DEF AskUser
<1> DEFINE d == [call[t] EXCEPT !.asked = "asking"]
<1>1. /\ d \in CallRecords /\ d.at = call[t].at /\ d.setup = call[t].setup
      /\ d.cleanup = call[t].cleanup /\ d.old = call[t].old /\ d.session = call[t].session
  BY <1>0 DEF CallRecords
<1>2. Set(t, d)
  BY <1>0
<1> HIDE DEF d
<1>3. CallsOK' /\ call'[t] = d /\ \A u \in Threads \ {t} : call'[u] = call[u]
  BY <1>1, <1>2, CallFacts, SetTyped
<1>4. LockMove(t) /\ LocksOK'
  BY <1>0, <1>1, <1>3, CallFacts DEF LockMove, LocksOK
<1>5. Meant(call'[t]) /\ SocketMove(t) /\ SettingMove(t)
  BY <1>0, <1>1, <1>3 DEF Meant, SocketMove, SettingMove, Settling, Releasing, Redialling
<1>6. Plain(t)
  BY <1>0, <1>3, <1>4, <1>5 DEF Plain, OthersKept, ProfileInv, Types, TablesOK
<1> QED
  BY <1>6, PlainStep

LEMMA HandLockStep == ASSUME ProfileInv, NEW t \in Threads, HandLock(t) PROVE ProfileInv'
<1>0. /\ call[t].at \in {"peek", "install"} /\ poolLock' = t /\ gate = t /\ call' = call
      /\ UNCHANGED <<grants, pool, gate, marker, pending, releases, ending, debugging, slipped>>
      /\ CallsOK /\ LocksOK /\ Meant(call[t])
  BY CallFacts DEF HandLock, Leading
<1>1. LockMove(t) /\ LocksOK'
  BY <1>0 DEF LockMove, LocksOK, LockHolders, GateHolders, Leading
<1>2. Meant(call'[t]) /\ SocketMove(t) /\ SettingMove(t) /\ OthersKept(t) /\ CallsOK'
  BY <1>0 DEF SocketMove, SettingMove, OthersKept, Redialling, CallsOK
<1>3. Plain(t)
  BY <1>0, <1>1, <1>2 DEF Plain, ProfileInv, Types, TablesOK
<1> QED
  BY <1>3, PlainStep

\* The user answers: the call goes on as it was, or hangs up and gives back the
\* lock it may have been handed.
LEMMA UserAnswersStep == ASSUME ProfileInv, NEW t \in Threads, UserAnswers(t) PROVE ProfileInv'
<1>0. /\ call[t] \in CallRecords /\ Meant(call[t]) /\ (Claiming(t) \/ Redialling(t))
      /\ t # Nobody /\ LocksOK
      /\ UNCHANGED <<grants, pool, marker, pending, releases, ending, debugging>>
  BY CallFacts DEF UserAnswers
<1>1. ASSUME NEW a \in {"accepted", "again"}, Set(t, [call[t] EXCEPT !.asked = a]),
             UNCHANGED <<poolLock, gate, slipped>>
      PROVE  ProfileInv'
  <2> DEFINE d == [call[t] EXCEPT !.asked = a]
  <2>1. /\ d \in CallRecords /\ d.at = call[t].at /\ d.setup = call[t].setup
        /\ d.cleanup = call[t].cleanup /\ d.old = call[t].old /\ d.session = call[t].session
    BY <1>0 DEF CallRecords
  <2>2. Set(t, d)
    BY <1>1
  <2> HIDE DEF d
  <2>3. CallsOK' /\ call'[t] = d /\ \A u \in Threads \ {t} : call'[u] = call[u]
    BY <2>1, <2>2, CallFacts, SetTyped
  <2>4. LockMove(t) /\ LocksOK'
    BY <1>1, <2>1, <2>3, CallFacts DEF LockMove, LocksOK
  <2>5. Meant(call'[t]) /\ SocketMove(t) /\ SettingMove(t)
    BY <1>0, <2>1, <2>3 DEF Meant, SocketMove, SettingMove, Settling, Releasing, Redialling
  <2>6. Plain(t)
    BY <1>0, <1>1, <2>3, <2>4, <2>5 DEF Plain, OthersKept, ProfileInv, Types, TablesOK
  <2> QED
    BY <2>6, PlainStep
<1>2. HangUp(t) => poolLock' # t /\ poolLock' \in {poolLock, Nobody}
  BY <1>0 DEF HangUp
<1>3. CASE Turn(t, "revoke") /\ UNCHANGED gate /\ HangUp(t) /\ slipped' = (slipped \/ Redialling(t))
  <2> DEFINE d == [Call("revoke", call[t].session) EXCEPT !.setup = call[t].setup]
  <2>1. d \in CallRecords /\ d.at = "revoke" /\ d.setup = call[t].setup
    BY <1>0, TurnFacts DEF Places
  <2>2. Set(t, d)
    BY <1>3 DEF Turn
  <2> HIDE DEF d
  <2>3. CallsOK' /\ call'[t] = d /\ \A u \in Threads \ {t} : call'[u] = call[u]
    BY <2>1, <2>2, CallFacts, SetTyped
  <2>4. LockMove(t) /\ LocksOK'
    BY <1>0, <1>2, <1>3, <2>1, <2>3 DEF LockMove, LocksOK, GateHolders, Leading
  <2>5. Meant(call'[t])
    BY <2>1, <2>3 DEF Meant
  <2>6. ~slipped' => ~slipped /\ SocketMove(t) /\ SettingMove(t)
    BY <1>0, <1>3, <2>1, <2>3
       DEF SocketMove, SettingMove, Settling, Releasing, Redialling, Claiming
  <2>7. Plain(t)
    BY <1>0, <1>3, <2>3, <2>4, <2>5, <2>6 DEF Plain, OthersKept, ProfileInv, Types, TablesOK
  <2> QED
    BY <2>7, PlainStep
<1>4. CASE Leave(t) /\ HangUp(t) /\ slipped' = TRUE
  <2>1. /\ CallsOK' /\ gate' \in Threads \cup {Nobody}
        /\ \A u \in Threads \ {t} : call'[u] = call[u]
        /\ call'[t].at \in {"idle", "abort"} /\ ~call'[t].setup
        /\ gate' # t
    BY <1>4, CallFacts, LeaveTyped
  <2>2. gate' = IF gate = t THEN Nobody ELSE gate
    BY <1>4 DEF Leave
  <2>3. LockMove(t) /\ LocksOK'
    BY <1>0, <1>2, <1>4, <2>1, <2>2 DEF LockMove, Leading, LocksOK
  <2>4. Plain(t)
    BY <1>0, <1>4, <2>1, <2>3 DEF Plain, Meant, OthersKept
  <2> QED
    BY <2>4, PlainStep
<1> QED
  BY <1>1, <1>3, <1>4 DEF UserAnswers

\* The claim: its socket is the grant's from now on.
LEMMA ClaimedStep ==
    ASSUME ProfileInv, NEW t \in Threads, Claiming(t), Claimed(t) PROVE ProfileInv'
<1>0. /\ call[t] \in CallRecords /\ LocksOK /\ t # Nobody /\ gate # t
      /\ UNCHANGED <<grants, gate, pending, releases, ending, debugging>>
      /\ pool' = {Entry(call[t].gen, TRUE)} /\ marker' = TRUE /\ poolLock' = Nobody
      /\ slipped' = (slipped \/ ~\E g \in Of(call[t].session) : g.gen = call[t].gen)
  BY CallFacts DEF Claimed, Claiming, GateHolders, Leading
<1>1. /\ CallsOK' /\ \A u \in Threads \ {t} : call'[u] = call[u]
      /\ call'[t].at \in {"commit", "idle"} /\ (call'[t].at = "idle" => ~call'[t].setup)
  <2>1. CASE call[t].setup
    <3>1. Turn(t, "commit") /\ "commit" \in Places
      BY <2>1 DEF Claimed, Places
    <3>2. /\ CallsOK' /\ \A u \in Threads \ {t} : call'[u] = call[u]
          /\ call'[t] = [Call("commit", call[t].session) EXCEPT !.setup = call[t].setup]
      BY <3>1, CallFacts, TurnTyped
    <3> QED
      BY <1>0, <3>1, <3>2, TurnFacts
  <2>2. CASE ~call[t].setup
    <3>1. Set(t, Idle) /\ Idle \in CallRecords /\ Idle.at = "idle" /\ ~Idle.setup
      BY <2>2, CallTyped DEF Claimed, Idle, Call, Places
    <3> QED
      BY <3>1, CallFacts, SetTyped
  <2> QED
    BY <2>1, <2>2
<1>2. PoolOK'
  <2>1. Entry(call[t].gen, TRUE) \in [gen : Nat, open : BOOLEAN]
    BY <1>0 DEF Entry, CallRecords
  <2> QED
    BY <1>0, <2>1 DEF PoolOK
<1>3. Types'
  BY <1>0, <1>1, <1>2 DEF ProfileInv, Types, LocksOK, TablesOK
<1>4. OthersKept(t) /\ Meant(call'[t]) /\ SettingMove(t)
  BY <1>1 DEF OthersKept, Meant, SettingMove, Settling, Claiming
<1>5. LockInv'
  <2>1. LockMove(t)
    BY <1>0, <1>1 DEF LockMove, Leading
  <2> QED
    BY <1>4, <2>1, LockStep DEF ProfileInv, Types
<1>6. ASSUME ~slipped'
      PROVE  (\A e \in pool : SocketIsOwned(e))' /\ MarkerHasGrant' /\ SettingIsOwned'
  <2>1. SettingIsOwned
    BY <1>0, <1>6 DEF ProfileInv, OwnedInv
  <2>2. PICK g \in grants : g.gen = call[t].gen
    BY <1>0, <1>6 DEF Of
  <2>3. (\A e \in pool : SocketIsOwned(e))'
    BY <1>0, <2>2 DEF SocketIsOwned, Entry
  <2>4. SettingIsOwned'
    BY <1>0, <1>4, <2>1, SettingKept
  <2> QED
    BY <1>0, <2>2, <2>3, <2>4 DEF MarkerHasGrant
<1>7. OwnedInv'
  BY <1>4, <1>6, MeantStep DEF ProfileInv, OwnedInv
<1> QED
  BY <1>3, <1>5, <1>7 DEF ProfileInv

LEMMA ClaimFailedStep ==
    ASSUME ProfileInv, NEW t \in Threads, Claiming(t), ClaimFailed(t) PROVE ProfileInv'
<1>0. /\ call[t] \in CallRecords /\ LocksOK /\ t # Nobody /\ gate # t /\ poolLock' = Nobody
      /\ UNCHANGED <<grants, pool, gate, marker, pending, releases, ending, debugging, slipped>>
  BY CallFacts DEF ClaimFailed, Claiming, GateHolders, Leading
<1>1. /\ CallsOK' /\ \A u \in Threads \ {t} : call'[u] = call[u]
      /\ call'[t].at \in {"claim", "revoke"}
  <2>1. CASE call[t].asked = "accepted"
    <3>1. Set(t, [call[t] EXCEPT !.at = "claim", !.asked = "again"])
      BY <2>1 DEF ClaimFailed
    <3>2. /\ [call[t] EXCEPT !.at = "claim", !.asked = "again"] \in CallRecords
          /\ [call[t] EXCEPT !.at = "claim", !.asked = "again"].at = "claim"
      BY <1>0 DEF CallRecords, Places
    <3> QED
      BY <3>1, <3>2, CallFacts, SetTyped
  <2>2. CASE call[t].asked # "accepted"
    <3>1. Turn(t, "revoke") /\ "revoke" \in Places
      BY <2>2 DEF ClaimFailed, Places
    <3>2. /\ CallsOK' /\ \A u \in Threads \ {t} : call'[u] = call[u]
          /\ call'[t] = [Call("revoke", call[t].session) EXCEPT !.setup = call[t].setup]
      BY <3>1, CallFacts, TurnTyped
    <3> QED
      BY <1>0, <3>1, <3>2, TurnFacts
  <2> QED
    BY <2>1, <2>2
<1>2. LockMove(t) /\ LocksOK'
  BY <1>0, <1>1 DEF LockMove, LocksOK, Leading
<1>3. Meant(call'[t]) /\ SocketMove(t) /\ SettingMove(t)
  BY <1>1 DEF Meant, SocketMove, SettingMove, Settling, Releasing, Redialling, Claiming
<1>4. Plain(t)
  BY <1>0, <1>1, <1>2, <1>3 DEF Plain, OthersKept, ProfileInv, Types, TablesOK
<1> QED
  BY <1>4, PlainStep

\* A dial under the pool's lock begins.
LEMMA LockedDialStep ==
    ASSUME ProfileInv, NEW t \in Threads, NEW at \in {"claimDial", "getDial"}, Goto(t, at),
           \/ call[t].at = "claim" /\ at = "claimDial"
           \/ call[t].at = "get" /\ at = "getDial",
           poolLock' = t, pool' \subseteq pool,
           UNCHANGED <<grants, gate, marker, pending, releases, ending, debugging, slipped>>
    PROVE  ProfileInv'
<1>0. call[t] \in CallRecords /\ Meant(call[t]) /\ LocksOK /\ t # Nobody /\ gate # t
  BY CallFacts DEF GateHolders, Leading
<1>1. /\ CallsOK' /\ call'[t] = [call[t] EXCEPT !.at = at]
      /\ \A u \in Threads \ {t} : call'[u] = call[u]
  <2>1. at \in Places
    BY DEF Places
  <2> QED
    BY <2>1, CallFacts, GotoTyped
<1>2. call'[t].at = at /\ call'[t].setup = call[t].setup
  BY <1>0, <1>1 DEF CallRecords
<1>3. Types'
  BY <1>0, <1>1 DEF ProfileInv, Types, PoolOK, LocksOK, TablesOK
<1>4. OthersKept(t) /\ Meant(call'[t]) /\ SocketMove(t) /\ SettingMove(t)
  BY <1>0, <1>1, <1>2
     DEF OthersKept, Meant, SocketMove, SettingMove, Settling, Releasing, Redialling
<1>5. LockInv'
  <2>1. LockMove(t)
    BY <1>0, <1>2 DEF LockMove, LockHolders, Leading
  <2> QED
    BY <1>4, <2>1, LockStep DEF ProfileInv, Types
<1>6. ASSUME ~slipped
      PROVE  (\A e \in pool : SocketIsOwned(e))' /\ MarkerHasGrant' /\ SettingIsOwned'
  <2>1. (\A e \in pool : SocketIsOwned(e)) /\ MarkerHasGrant /\ SettingIsOwned
    BY <1>6 DEF ProfileInv, OwnedInv
  <2>2. (\A e \in pool : SocketIsOwned(e))'
    BY <1>4, <2>1, SocketKept
  <2>3. SettingIsOwned'
    BY <1>4, <2>1, SettingKept
  <2> QED
    BY <2>1, <2>2, <2>3 DEF MarkerHasGrant
<1>7. OwnedInv'
  BY <1>4, <1>6, MeantStep DEF ProfileInv, OwnedInv
<1> QED
  BY <1>3, <1>5, <1>7 DEF ProfileInv

LEMMA ClaimStep ==
    ASSUME ProfileInv, NEW t \in Threads, ClaimExisting(t) \/ ClaimDialled(t)
    PROVE  ProfileInv'
<1>0. Claiming(t)
  BY DEF ClaimExisting, ClaimDialled, At, Claiming
<1>1. CASE Claimed(t)
  BY <1>0, <1>1, ClaimedStep
<1>2. CASE ClaimFailed(t)
  BY <1>0, <1>2, ClaimFailedStep
<1>3. CASE /\ At(t, "claim") /\ poolLock' = t /\ Goto(t, "claimDial")
           /\ UNCHANGED <<grants, pool, gate, marker, pending, releases, ending, debugging, slipped>>
  BY <1>3, LockedDialStep DEF At
<1> QED
  BY <1>1, <1>2, <1>3 DEF ClaimExisting, ClaimDialled

LEMMA CommitStep == ASSUME ProfileInv, NEW t \in Threads, CommitSetup(t) PROVE ProfileInv'
<1>0. /\ call[t].at = "commit" /\ LocksOK /\ gate # t /\ poolLock # t
      /\ UNCHANGED <<grants, pool, poolLock, gate, marker, pending, releases, ending, debugging, slipped>>
  BY CallFacts DEF CommitSetup, At, LockHolders, GateHolders, Leading
<1>1. CASE Turn(t, "revoke")
  BY <1>0, <1>1, TurnStep
<1>2. CASE Set(t, Idle)
  <2>1. Idle \in CallRecords /\ Idle.at = "idle" /\ ~Idle.setup
    BY CallTyped DEF Idle, Call, Places
  <2>2. CallsOK' /\ call'[t] = Idle /\ \A u \in Threads \ {t} : call'[u] = call[u]
    BY <1>2, <2>1, CallFacts, SetTyped
  <2>3. LockMove(t) /\ LocksOK'
    BY <1>0, <2>1, <2>2 DEF LockMove, LocksOK, Leading
  <2>4. Meant(call'[t]) /\ SocketMove(t) /\ SettingMove(t)
    BY <1>0, <2>1, <2>2 DEF Meant, SocketMove, SettingMove, Settling, Releasing, Redialling
  <2>5. Plain(t)
    BY <1>0, <2>2, <2>3, <2>4 DEF Plain, OthersKept, ProfileInv, Types, TablesOK
  <2> QED
    BY <2>5, PlainStep
<1> QED
  BY <1>1, <1>2 DEF CommitSetup

\* A step that gives up some of what is owned.
Retire(t) ==
    /\ CallsOK' /\ LocksOK' /\ OthersKept(t) /\ LockMove(t) /\ Meant(call'[t]) /\ SocketMove(t)
    /\ SettingMove(t) \/ debugging' = "off" \/ pending' # {}
    /\ pool' \subseteq pool /\ marker' \in {marker, FALSE} /\ debugging' \in {debugging, "off"}
    /\ pending \subseteq pending' /\ pending' \subseteq Sessions
    /\ UNCHANGED <<grants, releases, ending, slipped>>

LEMMA RetireStep ==
    ASSUME ProfileInv, NEW t \in Threads, Retire(t)
    PROVE  ProfileInv'
<1> USE DEF ProfileInv, Retire
<1>1. Types'
  <2>1. PoolOK' /\ GrantsOK(grants')
    BY DEF Types, PoolOK
  <2>2. TablesOK'
    BY DEF Types, TablesOK
  <2> QED
    BY <2>1, <2>2 DEF Types
<1>2. LockInv'
  BY LockStep DEF Types
<1>3. ASSUME ~slipped
      PROVE  (\A e \in pool : SocketIsOwned(e))' /\ MarkerHasGrant' /\ SettingIsOwned'
  <2>1. (\A e \in pool : SocketIsOwned(e)) /\ MarkerHasGrant /\ SettingIsOwned
    BY <1>3 DEF OwnedInv
  <2>2. (\A e \in pool : SocketIsOwned(e))'
    BY <2>1, SocketKept
  <2>3. SettingIsOwned'
    <3>1. CASE SettingMove(t)
      BY <2>1, <3>1, SettingKept
    <3>2. CASE debugging' = "off" \/ pending' # {}
      BY <3>2 DEF SettingIsOwned
    <3> QED
      BY <3>1, <3>2
  <2>4. marker' => marker
    BY DEF Types, TablesOK
  <2> QED
    BY <2>1, <2>2, <2>3, <2>4 DEF MarkerHasGrant
<1>4. OwnedInv'
  BY <1>3, MeantStep DEF OwnedInv
<1> QED
  BY <1>1, <1>2, <1>4

LEMMA ReleaseStep == ASSUME ProfileInv, NEW t \in Threads, ReleaseExisting(t) PROVE ProfileInv'
<1>0. /\ call[t].at \in {"unpool", "forget"} /\ call[t] \in CallRecords /\ LocksOK /\ poolLock # t
      /\ pool' = {e \in pool : ~Owns(e, call[t].old)} /\ marker' = FALSE
      /\ UNCHANGED <<grants, poolLock, pending, releases, ending, debugging, slipped>>
  BY CallFacts DEF ReleaseExisting, At, ReleaseClaim, LockHolders
<1>1. SocketMove(t)
  BY <1>0 DEF SocketMove, Releasing, Redialling, Owns
<1>2. CASE At(t, "unpool") /\ Leave(t)
  <2>1. /\ CallsOK' /\ gate' \in Threads \cup {Nobody}
        /\ \A u \in Threads \ {t} : call'[u] = call[u]
        /\ call'[t].at \in {"idle", "abort"} /\ ~call'[t].setup
        /\ call[t].setup => call'[t].at = "abort"
        /\ gate' # t
    BY <1>2, CallFacts, LeaveTyped
  <2>2. gate' = IF gate = t THEN Nobody ELSE gate
    BY <1>2 DEF Leave
  <2>3. LockMove(t) /\ LocksOK'
    BY <1>0, <2>1, <2>2 DEF LockMove, Leading, LocksOK
  <2>4. Meant(call'[t]) /\ SettingMove(t)
    BY <1>2, <2>1 DEF Meant, SettingMove, Settling, At
  <2>5. Retire(t)
    BY <1>0, <1>1, <2>1, <2>3, <2>4 DEF Retire, OthersKept, ProfileInv, Types, TablesOK
  <2> QED
    BY <2>5, RetireStep
<1>3. CASE At(t, "forget") /\ Set(t, [call[t] EXCEPT !.at = "claim", !.old = 0]) /\ UNCHANGED gate
  <2> DEFINE d == [call[t] EXCEPT !.at = "claim", !.old = 0]
  <2>1. d \in CallRecords /\ d.at = "claim" /\ d.setup = call[t].setup
    BY <1>0 DEF CallRecords, Places
  <2>2. Set(t, d)
    BY <1>3
  <2> HIDE DEF d
  <2>3. CallsOK' /\ call'[t] = d /\ \A u \in Threads \ {t} : call'[u] = call[u]
    BY <2>1, <2>2, CallFacts, SetTyped
  <2>4. gate # t
    BY <1>3, CallFacts DEF At, GateHolders, Leading
  <2>5. LockMove(t) /\ LocksOK'
    BY <1>0, <1>3, <2>1, <2>3, <2>4 DEF LockMove, Leading, LocksOK
  <2>6. Meant(call'[t]) /\ SettingMove(t)
    BY <1>3, <2>1, <2>3 DEF Meant, SettingMove, Settling, At
  <2>7. Retire(t)
    BY <1>0, <1>1, <2>3, <2>5, <2>6 DEF Retire, OthersKept, ProfileInv, Types, TablesOK
  <2> QED
    BY <2>7, RetireStep
<1> QED
  BY <1>2, <1>3 DEF ReleaseExisting

LEMMA TidyStep == ASSUME ProfileInv, NEW t \in Threads, TidyBrowser(t) PROVE ProfileInv'
<1>0. /\ call[t].at = "tidy" /\ call[t] \in CallRecords /\ LocksOK /\ poolLock # t
      /\ UNCHANGED <<grants, pool, poolLock, gate, marker, releases, ending, slipped>>
      /\ Goto(t, "unpool") /\ "unpool" \in Places
  BY CallFacts DEF TidyBrowser, At, LockHolders, Places
<1>1. /\ CallsOK' /\ call'[t] = [call[t] EXCEPT !.at = "unpool"]
      /\ \A u \in Threads \ {t} : call'[u] = call[u]
  BY <1>0, CallFacts, GotoTyped
<1>2. call'[t].at = "unpool" /\ call'[t].old = call[t].old
  BY <1>0, <1>1 DEF CallRecords
<1>3. LockMove(t) /\ LocksOK'
  BY <1>0, <1>2 DEF LockMove, GateHolders, Leading, LocksOK
<1>4. Meant(call'[t]) /\ SocketMove(t)
  BY <1>0, <1>2 DEF Meant, SocketMove, Releasing, Redialling
<1>5. /\ debugging' = "off" \/ pending' # {}
      /\ debugging' \in {debugging, "off"}
      /\ pending \subseteq pending' /\ pending' \subseteq Sessions
  <2>1. call[t].session \in Sessions
    BY <1>0, CallFacts DEF Meant, CallRecords
  <2> QED
    BY <2>1 DEF TidyBrowser, ProfileInv, Types, TablesOK
<1> QED
  BY <1>0, <1>1, <1>3, <1>4, <1>5, RetireStep DEF Retire, OthersKept

LEMMA AbortStep == ASSUME ProfileInv, NEW t \in Threads, AbortSetup(t) PROVE ProfileInv'
<1>0. /\ call[t].at = "abort" /\ LocksOK /\ poolLock # t /\ gate # t
      /\ UNCHANGED <<grants, pool, poolLock, gate, marker, pending, releases, ending, slipped>>
      /\ debugging' = "off" /\ Set(t, Idle)
  BY CallFacts DEF AbortSetup, At, LockHolders, GateHolders, Leading
<1>1. Idle \in CallRecords /\ Idle.at = "idle" /\ ~Idle.setup
  BY CallTyped DEF Idle, Call, Places
<1>2. CallsOK' /\ call'[t] = Idle /\ \A u \in Threads \ {t} : call'[u] = call[u]
  BY <1>0, <1>1, CallFacts, SetTyped
<1>3. LockMove(t) /\ LocksOK'
  BY <1>0, <1>1, <1>2 DEF LockMove, Leading, LocksOK
<1>4. Meant(call'[t]) /\ SocketMove(t)
  BY <1>0, <1>1, <1>2 DEF Meant, SocketMove, Releasing, Redialling
<1>5. Retire(t)
  BY <1>0, <1>2, <1>3, <1>4 DEF Retire, OthersKept, ProfileInv, Types, TablesOK
<1> QED
  BY <1>5, RetireStep

\* The new grant takes over the duty of the one it replaces and of a setup.
LEMMA MintStep == ASSUME ProfileInv, NEW t \in Threads, MintGrant(t) PROVE ProfileInv'
<1> DEFINE c == call[t]
           g0 == Grant(c.session, c.gen, MAX_RECONNECT_ATTEMPTS, c.cleanup)
           d == [c EXCEPT !.at = AfterMint(c), !.cleanup = FALSE]
<1>0. /\ c.at = "mint" /\ c \in CallRecords /\ Meant(c) /\ c.session \in Sessions
      /\ LocksOK /\ poolLock # t /\ gate # t /\ GrantsOK(grants)
      /\ UNCHANGED <<pool, poolLock, gate, marker, pending, releases, ending, debugging>>
  BY CallFacts DEF MintGrant, At, LockHolders, GateHolders, Leading, Meant, CallRecords,
     ProfileInv, Types
<1>1. /\ grants' = (grants \ Of(c.session)) \cup {g0} /\ Set(t, d)
      /\ slipped' = (slipped \/ \E g \in Of(c.session) : g.gen # c.old \/ (g.cleanup /\ ~c.cleanup))
  BY DEF MintGrant
<1>2. g0 \in GrantRecords /\ g0.session = c.session /\ g0.cleanup = c.cleanup
  BY <1>0, BudgetAssumption DEF Grant, GrantRecords, CallRecords
<1>3. /\ d \in CallRecords /\ d.at = AfterMint(c) /\ d.old = c.old
      /\ d.at \in {"claim", "forget"} /\ (c.old # 0 => d.at = "forget")
  <2>1. AfterMint(c) \in {"claim", "forget"} /\ AfterMint(c) \in Places
        /\ (c.old # 0 => AfterMint(c) = "forget")
    BY DEF AfterMint, Places
  <2> QED
    BY <1>0, <2>1 DEF CallRecords
<1> HIDE DEF g0, d
<1>4. CallsOK' /\ call'[t] = d /\ \A u \in Threads \ {t} : call'[u] = call[u]
  BY <1>1, <1>3, CallFacts, SetTyped
<1>5. GrantsOK(grants')
  BY <1>0, <1>1, <1>2 DEF GrantsOK, Of
<1>6. Types'
  BY <1>0, <1>1, <1>4, <1>5 DEF ProfileInv, Types, PoolOK, LocksOK, TablesOK
<1>7. OthersKept(t) /\ Meant(call'[t]) /\ SocketMove(t)
  BY <1>0, <1>3, <1>4 DEF OthersKept, Meant, SocketMove, Releasing, Redialling
<1>8. LockInv'
  <2>1. LockMove(t)
    BY <1>0, <1>3, <1>4 DEF LockMove, Leading
  <2> QED
    BY <1>0, <1>7, <2>1, LockStep DEF ProfileInv
<1>9. ASSUME ~slipped'
      PROVE  (\A e \in pool : SocketIsOwned(e))' /\ MarkerHasGrant' /\ SettingIsOwned'
  <2>1. (\A e \in pool : SocketIsOwned(e)) /\ SettingIsOwned
    BY <1>1, <1>9 DEF ProfileInv, OwnedInv
  <2>2. (\A e \in pool : SocketIsOwned(e))'
    <3>1. ASSUME NEW g \in grants
          PROVE  g.gen = 0 \/ (\E h \in grants' : h.gen = g.gen) \/ Releasing(call'[t], g.gen)
      <4>1. CASE g \in Of(c.session)
        BY <1>1, <1>3, <1>4, <1>9, <4>1 DEF Releasing
      <4>2. CASE g \notin Of(c.session)
        BY <1>1, <4>2
      <4> QED
        BY <4>1, <4>2
    <3> QED
      BY <1>0, <1>7, <2>1, <3>1, SocketKept
  <2>3. SettingIsOwned'
    <3>1. CASE c.cleanup
      BY <1>1, <1>2, <3>1 DEF SettingIsOwned
    <3>2. CASE ~c.cleanup
      <4>1. \A g \in grants : g.cleanup => g \in grants'
        BY <1>1, <1>9, <3>2 DEF Of
      <4>2. SettingMove(t)
        BY <1>0, <3>2 DEF SettingMove, Settling, Meant
      <4> QED
        BY <1>0, <1>7, <2>1, <4>1, <4>2, SettingKept
    <3> QED
      BY <3>1, <3>2
  <2> QED
    BY <1>1, <2>2, <2>3 DEF MarkerHasGrant
<1>10. OwnedInv'
  BY <1>7, <1>9, MeantStep DEF ProfileInv, OwnedInv
<1> QED
  BY <1>6, <1>8, <1>10 DEF ProfileInv

\* A setup that turns the setting on answers for it from the start.
LEMMA BeginPrepareStep ==
    ASSUME ProfileInv, NEW t \in Threads, NEW s \in Sessions, BeginPrepare(t, s)
    PROVE  ProfileInv'
<1> DEFINE d == [Call("prior", s) EXCEPT !.setup = (debugging = "off")]
<1>0. /\ call[t].at = "idle" /\ Meant(call[t]) /\ LocksOK /\ poolLock # t /\ gate # t
      /\ UNCHANGED <<grants, pool, poolLock, gate, marker, pending, releases, ending, slipped>>
      /\ debugging' = (IF debugging = "off" THEN "driver" ELSE debugging)
      /\ s # Nobody
  BY CallFacts, ThreadAssumption
     DEF BeginPrepare, At, LockHolders, GateHolders, Leading, Nobody
<1>1. Set(t, d)
  BY DEF BeginPrepare
<1>2. /\ d \in CallRecords /\ d.at = "prior" /\ d.setup = (debugging = "off")
      /\ d.session = s
  <2>1. Call("prior", s) \in CallRecords
    BY CallTyped DEF Places
  <2>2. Call("prior", s).at = "prior" /\ Call("prior", s).session = s
    BY DEF Call
  <2> QED
    BY <2>1, <2>2 DEF CallRecords
<1> HIDE DEF d
<1>3. CallsOK' /\ call'[t] = d /\ \A u \in Threads \ {t} : call'[u] = call[u]
  BY <1>1, <1>2, CallFacts, SetTyped
<1>4. Types'
  BY <1>0, <1>3 DEF ProfileInv, Types, GrantsOK, PoolOK, LocksOK, TablesOK
<1>5. OthersKept(t) /\ Meant(call'[t]) /\ SocketMove(t) /\ SettingMove(t)
  BY <1>0, <1>2, <1>3
     DEF OthersKept, Meant, SocketMove, SettingMove, Settling, Releasing, Redialling
<1>6. LockInv'
  <2>1. LockMove(t)
    BY <1>0, <1>2, <1>3 DEF LockMove, Leading
  <2> QED
    BY <1>0, <1>5, <2>1, LockStep DEF ProfileInv
<1>7. ASSUME ~slipped
      PROVE  (\A e \in pool : SocketIsOwned(e))' /\ MarkerHasGrant' /\ SettingIsOwned'
  <2>1. (\A e \in pool : SocketIsOwned(e)) /\ MarkerHasGrant /\ SettingIsOwned
    BY <1>7 DEF ProfileInv, OwnedInv
  <2>2. (\A e \in pool : SocketIsOwned(e))'
    BY <1>0, <1>5, <2>1, SocketKept
  <2>3. SettingIsOwned'
    <3>1. CASE debugging = "off"
      BY <1>2, <1>3, <3>1 DEF SettingIsOwned, Settling
    <3>2. CASE debugging # "off"
      BY <1>0, <1>5, <2>1, <3>2, SettingKept
    <3> QED
      BY <3>1, <3>2
  <2> QED
    BY <1>0, <2>1, <2>2, <2>3 DEF MarkerHasGrant
<1>8. OwnedInv'
  BY <1>0, <1>5, <1>7, MeantStep DEF ProfileInv, OwnedInv
<1> QED
  BY <1>4, <1>6, <1>8 DEF ProfileInv

\* The other calls begin, and one that wants the endpoint for itself moves.
FreePlaces == {"idle", "marked", "get", "getDial", "evict", "lookup"}

LEMMA FreeStep ==
    ASSUME ProfileInv, NEW t \in Threads, NEW d \in CallRecords, Set(t, d),
           call[t].at \in {"idle", "marked", "get", "getDial", "evict"},
           d.at \in FreePlaces, ~d.setup,
           poolLock' \in {poolLock, Nobody}, poolLock' # t,
           pool' \subseteq pool,
           UNCHANGED <<grants, gate, marker, pending, releases, ending, debugging, slipped>>
    PROVE  ProfileInv'
<1>0. Meant(call[t]) /\ LocksOK /\ gate # t
  BY CallFacts DEF GateHolders, Leading
<1>1. CallsOK' /\ call'[t] = d /\ \A u \in Threads \ {t} : call'[u] = call[u]
  BY CallFacts, SetTyped
<1>2. LockMove(t) /\ LocksOK'
  BY <1>0, <1>1 DEF LockMove, LocksOK, Leading, FreePlaces
<1>3. Meant(call'[t]) /\ SocketMove(t) /\ SettingMove(t)
  BY <1>0, <1>1 DEF Meant, SocketMove, SettingMove, Settling, Releasing, Redialling, FreePlaces
<1>4. Retire(t)
  BY <1>1, <1>2, <1>3 DEF Retire, OthersKept, ProfileInv, Types, TablesOK
<1> QED
  BY <1>4, RetireStep

LEMMA FreeCalls ==
    /\ Idle \in CallRecords /\ Idle.at \in FreePlaces /\ ~Idle.setup
    /\ \A s \in Sessions \cup {Nobody}, at \in FreePlaces :
           Call(at, s) \in CallRecords /\ Call(at, s).at = at /\ ~Call(at, s).setup
<1>1. FreePlaces \subseteq Places /\ "idle" \in FreePlaces
  BY DEF FreePlaces, Places
<1>2. \A s \in Sessions \cup {Nobody}, at \in FreePlaces :
          Call(at, s) \in CallRecords /\ Call(at, s).at = at /\ ~Call(at, s).setup
  <2>1. \A s, at : Call(at, s).at = at /\ ~Call(at, s).setup
    BY DEF Call
  <2> QED
    BY <1>1, <2>1, CallTyped
<1> QED
  BY <1>1, <1>2 DEF Idle

LEMMA BeginCallStep ==
    ASSUME ProfileInv, NEW t \in Threads,
           BeginConnect(t) \/ \E s \in Sessions : BeginUse(t, s)
    PROVE  ProfileInv'
<1>0. poolLock # t /\ call[t].at = "idle"
  BY CallFacts DEF BeginConnect, BeginUse, At, LockHolders
<1>1. PICK s \in Sessions \cup {Nobody}, at \in {"marked", "lookup"} : Set(t, Call(at, s))
  BY DEF BeginConnect, BeginUse
<1>2. UNCHANGED <<grants, pool, poolLock, gate, marker, pending, releases, ending, debugging, slipped>>
  BY DEF BeginConnect, BeginUse
<1>3. at \in FreePlaces
  BY DEF FreePlaces
<1> QED
  BY <1>0, <1>1, <1>2, <1>3, FreeCalls, FreeStep

LEMMA ConnectFailedCall ==
    ASSUME ProfileInv, NEW t \in Threads, ConnectFailed(t),
           call[t].at \in {"marked", "get", "getDial", "evict"}
    PROVE  \E d \in CallRecords : Set(t, d) /\ d.at \in FreePlaces /\ ~d.setup
<1>0. call[t] \in CallRecords /\ ~call[t].setup
  BY CallFacts DEF Meant
<1>1. CASE call[t].asked = "no"
  <2> DEFINE d == [call[t] EXCEPT !.at = "evict"]
  <2>1. d \in CallRecords /\ d.at \in FreePlaces /\ ~d.setup
    BY <1>0 DEF CallRecords, Places, FreePlaces
  <2> QED
    BY <1>1, <2>1 DEF ConnectFailed
<1>2. CASE call[t].asked # "no"
  BY <1>2, FreeCalls DEF ConnectFailed
<1> QED
  BY <1>1, <1>2

LEMMA ConnectStep ==
    ASSUME ProfileInv, NEW t \in Threads, ReadMarker(t) \/ GetSocket(t) \/ Evict(t)
    PROVE  ProfileInv'
<1>0. /\ call[t].at \in {"marked", "get", "evict"} /\ call[t] \in CallRecords /\ ~call[t].setup
      /\ poolLock # t
      /\ UNCHANGED <<grants, gate, marker, pending, releases, ending, debugging, slipped>>
  BY CallFacts DEF ReadMarker, GetSocket, Evict, At, Meant, LockHolders
<1>1. CASE ConnectFailed(t) /\ UNCHANGED <<pool, poolLock>>
  BY <1>0, <1>1, ConnectFailedCall, FreeStep
<1>2. CASE Set(t, Idle) /\ UNCHANGED <<pool, poolLock>>
  BY <1>0, <1>2, FreeCalls, FreeStep
<1>3. CASE Goto(t, "get") /\ UNCHANGED <<pool, poolLock>>
  <2> DEFINE d == [call[t] EXCEPT !.at = "get"]
  <2>1. d \in CallRecords /\ d.at \in FreePlaces /\ ~d.setup
    BY <1>0 DEF CallRecords, Places, FreePlaces
  <2>2. Set(t, d)
    BY <1>3 DEF Goto, Set
  <2> HIDE DEF d
  <2> QED
    BY <1>0, <1>3, <2>1, <2>2, FreeStep
<1>4. CASE At(t, "get") /\ pool' = {} /\ poolLock' = t /\ Goto(t, "getDial")
  BY <1>0, <1>4, LockedDialStep DEF At
<1>5. CASE Evict(t)
  <2> DEFINE d == [call[t] EXCEPT !.at = "marked", !.asked = "again"]
  <2>1. d \in CallRecords /\ d.at \in FreePlaces /\ ~d.setup
    BY <1>0 DEF CallRecords, Places, FreePlaces
  <2>2. Set(t, d) /\ pool' = {} /\ poolLock' = poolLock
    BY <1>5 DEF Evict
  <2> HIDE DEF d
  <2> QED
    BY <1>0, <2>1, <2>2, FreeStep
<1> QED
  BY <1>0, <1>1, <1>2, <1>3, <1>4, <1>5 DEF ReadMarker, GetSocket

\* A socket that no grant owns.
LEMMA GetDialledStep == ASSUME ProfileInv, NEW t \in Threads, GetDialled(t) PROVE ProfileInv'
<1>0. /\ call[t].at = "getDial" /\ ~call[t].setup /\ t # Nobody /\ LocksOK /\ gate # t
      /\ poolLock' = Nobody
      /\ UNCHANGED <<grants, gate, marker, pending, releases, ending, debugging, slipped>>
  BY CallFacts DEF GetDialled, At, Meant, GateHolders, Leading
<1>1. CASE ConnectFailed(t) /\ UNCHANGED pool
  BY <1>0, <1>1, ConnectFailedCall, FreeStep
<1>2. CASE pool' = {Entry(0, TRUE)} /\ Set(t, Idle)
  <2>1. CallsOK' /\ call'[t] = Idle /\ \A u \in Threads \ {t} : call'[u] = call[u]
    BY <1>2, FreeCalls, CallFacts, SetTyped
  <2>2. Idle.at = "idle" /\ ~Idle.setup
    BY DEF Idle, Call
  <2>3. Types'
    <3>1. PoolOK'
      BY <1>2 DEF PoolOK, Entry
    <3> QED
      BY <1>0, <2>1, <3>1 DEF ProfileInv, Types, GrantsOK, LocksOK, TablesOK
  <2>4. OthersKept(t) /\ Meant(call'[t]) /\ SettingMove(t)
    BY <1>0, <2>1, <2>2 DEF OthersKept, Meant, SettingMove, Settling
  <2>5. LockInv'
    <3>1. LockMove(t)
      BY <1>0, <2>1, <2>2 DEF LockMove, Leading
    <3> QED
      BY <1>0, <2>4, <3>1, LockStep DEF ProfileInv
  <2>6. ASSUME ~slipped
        PROVE  (\A e \in pool : SocketIsOwned(e))' /\ MarkerHasGrant' /\ SettingIsOwned'
    <3>1. MarkerHasGrant /\ SettingIsOwned
      BY <2>6 DEF ProfileInv, OwnedInv
    <3>2. (\A e \in pool : SocketIsOwned(e))'
      BY <1>2 DEF SocketIsOwned, Entry
    <3>3. SettingIsOwned'
      BY <1>0, <2>4, <3>1, SettingKept
    <3> QED
      BY <1>0, <3>1, <3>2, <3>3 DEF MarkerHasGrant
  <2>7. OwnedInv'
    BY <1>0, <2>4, <2>6, MeantStep DEF ProfileInv, OwnedInv
  <2> QED
    BY <2>3, <2>5, <2>7 DEF ProfileInv
<1> QED
  BY <1>1, <1>2 DEF GetDialled

-----------------------------------------------------------------------------
(* The session-end hook, its task, and the browser.                          *)

\* Steps of nobody's call.
LEMMA EnvironmentStep ==
    ASSUME ProfileInv, UNCHANGED <<call, poolLock, gate>>,
           GrantsOK(grants'), PoolOK', TablesOK',
           ~slipped' => /\ (\A e \in pool : SocketIsOwned(e))'
                        /\ MarkerHasGrant' /\ SettingIsOwned'
    PROVE  ProfileInv'
BY DEF ProfileInv, Types, CallsOK, LocksOK, LockInv, LeaderHasGate, LockHoldersProceed, OwnedInv

LEMMA EndSessionStep == ASSUME ProfileInv, NEW s \in Sessions, EndSession(s) PROVE ProfileInv'
<1>0. /\ UNCHANGED <<pool, poolLock, gate, debugging, call>> /\ pending' = pending \ {s}
      /\ GrantsOK(grants) /\ PoolOK /\ TablesOK
  BY DEF EndSession, ProfileInv, Types
<1>1. CASE Of(s) = {}
  <2>1. /\ ending' = [ending EXCEPT ![s] = [at |-> "tidy", owes |-> TRUE]]
        /\ UNCHANGED <<grants, releases, marker, slipped>>
    BY <1>1 DEF EndSession
  <2>2. TablesOK' /\ PoolOK' /\ ending'[s].at = "tidy" /\ ending'[s].owes
    BY <1>0, <2>1 DEF TablesOK, PoolOK
  <2>3. ASSUME ~slipped'
        PROVE  (\A e \in pool : SocketIsOwned(e))' /\ MarkerHasGrant' /\ SettingIsOwned'
    <3>1. (\A e \in pool : SocketIsOwned(e)) /\ MarkerHasGrant /\ ~slipped
      BY <2>1, <2>3 DEF ProfileInv, OwnedInv
    <3>2. SettingIsOwned'
      BY <2>2 DEF SettingIsOwned
    <3> QED
      BY <1>0, <2>1, <3>1, <3>2 DEF MarkerHasGrant, SocketIsOwned, Redialling
  <2> QED
    BY <1>0, <2>1, <2>2, <2>3, EnvironmentStep
<1>2. CASE Of(s) # {}
  <2>0. PICK g \in Of(s), async \in BOOLEAN :
            \E r \in Removed(g) :
                /\ grants' = r.grants
                /\ ending' = [ending EXCEPT ![s] = [at |-> "tidy", owes |-> r.owes \/ s \in pending]]
                /\ ReleaseClaim
                /\ releases' = (IF async THEN releases \cup {g.gen} ELSE releases)
                /\ slipped' = (slipped \/ ~async)
    BY <1>2 DEF EndSession
  <2>1. PICK r \in Removed(g) :
            /\ grants' = r.grants
            /\ ending' = [ending EXCEPT ![s] = [at |-> "tidy", owes |-> r.owes \/ s \in pending]]
            /\ ReleaseClaim
            /\ releases' = (IF async THEN releases \cup {g.gen} ELSE releases)
            /\ slipped' = (slipped \/ ~async)
    BY <2>0
  <2>2. /\ g \in grants /\ g \in GrantRecords /\ GrantsOK(grants') /\ r.owes \in BOOLEAN
        /\ \A h \in grants \ {g} : \E k \in grants' : k.gen = h.gen
        /\ \A h \in grants : h.cleanup => r.owes \/ \E k \in grants' : k.cleanup
    <3>1. g \in grants /\ g \in GrantRecords
      BY <1>0 DEF Of, GrantsOK
    <3> QED
      BY <1>0, <2>1, <3>1, RemovedFacts
  <2>3. /\ marker' = FALSE
        /\ ending' \in [Sessions -> [at : {"none", "tidy"}, owes : BOOLEAN]]
        /\ ending'[s].at = "tidy" /\ ending'[s].owes = (r.owes \/ s \in pending)
        /\ \A z \in Sessions \ {s} : ending'[z] = ending[z]
        /\ slipped' \in BOOLEAN /\ releases' \subseteq Nat
    BY <1>0, <2>1, <2>2 DEF ReleaseClaim, TablesOK, GrantRecords
  <2>4. TablesOK' /\ PoolOK'
    BY <1>0, <2>3 DEF TablesOK, PoolOK
  <2>5. ASSUME ~slipped'
        PROVE  (\A e \in pool : SocketIsOwned(e))' /\ MarkerHasGrant' /\ SettingIsOwned'
    <3>1. /\ \A e \in pool : SocketIsOwned(e)
          /\ SettingIsOwned /\ ~slipped /\ releases' = releases \cup {g.gen}
      BY <2>1, <2>5 DEF ProfileInv, OwnedInv
    <3>2. ASSUME NEW e \in pool PROVE SocketIsOwned(e)'
      <4>1. CASE \E h \in grants : h.gen = e.gen
        BY <2>2, <3>1, <4>1 DEF SocketIsOwned
      <4>2. CASE ~\E h \in grants : h.gen = e.gen
        BY <1>0, <3>1, <3>2, <4>2 DEF SocketIsOwned, Redialling
      <4> QED
        BY <4>1, <4>2
    <3>3. SettingIsOwned'
      <4>1. CASE pending # {}
        <5>1. pending' # {} \/ s \in pending
          BY <1>0, <4>1
        <5> QED
          BY <2>3, <5>1 DEF SettingIsOwned
      <4>2. CASE \E h \in grants : h.cleanup
        BY <2>2, <2>3, <4>2 DEF SettingIsOwned
      <4>3. CASE \E z \in Sessions : ending[z].at = "tidy" /\ ending[z].owes
        <5>1. ending[s].at = "none"
          BY DEF EndSession
        <5> QED
          BY <2>3, <4>3, <5>1 DEF SettingIsOwned
      <4>4. CASE debugging # "driver" \/ \E t \in Threads : Settling(call[t])
        BY <1>0, <4>4 DEF SettingIsOwned
      <4> QED
        BY <3>1, <4>1, <4>2, <4>3, <4>4 DEF SettingIsOwned
    <3> QED
      BY <1>0, <2>3, <3>2, <3>3 DEF MarkerHasGrant
  <2> QED
    BY <1>0, <2>2, <2>4, <2>5, EnvironmentStep
<1> QED
  BY <1>1, <1>2

LEMMA EndTidiesStep == ASSUME ProfileInv, NEW s \in Sessions, EndTidiesBrowser(s) PROVE ProfileInv'
<1>0. /\ ending[s].at = "tidy" /\ ending' = [ending EXCEPT ![s] = NoHook]
      /\ slipped' = (slipped \/ (s \in pending /\ ~ending[s].owes))
      /\ UNCHANGED <<grants, pool, poolLock, gate, marker, releases, call>>
      /\ GrantsOK(grants) /\ PoolOK /\ TablesOK
  BY DEF EndTidiesBrowser, ProfileInv, Types
<1>1. \/ debugging' = (IF ending[s].owes THEN "off" ELSE debugging) /\ pending' = pending \ {s}
      \/ ending[s].owes /\ pending' = pending \cup {s} /\ debugging' = debugging
  BY DEF EndTidiesBrowser
<1>2. GrantsOK(grants') /\ PoolOK' /\ TablesOK'
  <2>1. ending' \in [Sessions -> [at : {"none", "tidy"}, owes : BOOLEAN]]
    BY <1>0 DEF TablesOK, NoHook
  <2>2. slipped' \in BOOLEAN /\ pending' \subseteq Sessions /\ debugging' \in {"off", "driver", "user"}
    BY <1>0, <1>1 DEF TablesOK
  <2> QED
    BY <1>0, <2>1, <2>2 DEF TablesOK, PoolOK
<1>3. ASSUME ~slipped'
      PROVE  (\A e \in pool : SocketIsOwned(e))' /\ MarkerHasGrant' /\ SettingIsOwned'
  <2>1. /\ (\A e \in pool : SocketIsOwned(e)) /\ MarkerHasGrant /\ SettingIsOwned
        /\ ~(s \in pending /\ ~ending[s].owes)
    BY <1>0, <1>3 DEF ProfileInv, OwnedInv
  <2>2. (\A e \in pool : SocketIsOwned(e))' /\ MarkerHasGrant'
    BY <1>0, <2>1 DEF SocketIsOwned, MarkerHasGrant, Redialling
  <2>3. SettingIsOwned'
    <3>1. CASE ending[s].owes
      BY <1>1, <3>1 DEF SettingIsOwned
    <3>2. CASE ~ending[s].owes
      <4>1. debugging' = debugging /\ pending' = pending
        BY <1>1, <2>1, <3>2
      <4>2. \A z \in Sessions : ending[z].owes => ending'[z] = ending[z]
        BY <1>0, <3>2 DEF TablesOK
      <4> QED
        BY <1>0, <2>1, <4>1, <4>2 DEF SettingIsOwned
    <3> QED
      BY <3>1, <3>2
  <2> QED
    BY <2>2, <2>3
<1> QED
  BY <1>0, <1>2, <1>3, EnvironmentStep

LEMMA ReleaseTaskStep == ASSUME ProfileInv, NEW gen \in releases, ReleaseTask(gen) PROVE ProfileInv'
<1>0. /\ pool' = {e \in pool : ~Owns(e, gen)} /\ marker' = FALSE /\ releases' = releases \ {gen}
      /\ UNCHANGED <<grants, poolLock, gate, pending, ending, debugging, call, slipped>>
      /\ GrantsOK(grants) /\ PoolOK /\ TablesOK
  BY DEF ReleaseTask, ReleaseClaim, ProfileInv, Types
<1>1. GrantsOK(grants') /\ PoolOK' /\ TablesOK'
  BY <1>0 DEF TablesOK, PoolOK
<1>2. ASSUME ~slipped'
      PROVE  (\A e \in pool : SocketIsOwned(e))' /\ MarkerHasGrant' /\ SettingIsOwned'
  <2>1. (\A e \in pool : SocketIsOwned(e)) /\ SettingIsOwned
    BY <1>0, <1>2 DEF ProfileInv, OwnedInv
  <2>2. (\A e \in pool : SocketIsOwned(e))'
    BY <1>0, <2>1 DEF SocketIsOwned, Owns, Redialling
  <2>3. SettingIsOwned'
    BY <1>0, <2>1 DEF SettingIsOwned
  <2> QED
    BY <1>0, <2>2, <2>3 DEF MarkerHasGrant
<1> QED
  BY <1>0, <1>1, <1>2, EnvironmentStep

LEMMA CloseSocketStep == ASSUME ProfileInv, CloseSocket PROVE ProfileInv'
<1>0. /\ UNCHANGED <<grants, poolLock, gate, marker, pending, releases, ending, debugging, call, slipped>>
      /\ GrantsOK(grants) /\ PoolOK /\ TablesOK
  BY DEF CloseSocket, ProfileInv, Types
<1>1. PICK e \in pool : pool' = {[e EXCEPT !.open = FALSE]}
  BY DEF CloseSocket
<1> DEFINE f == [e EXCEPT !.open = FALSE]
<1>2. f \in [gen : Nat, open : BOOLEAN] /\ f.gen = e.gen
  BY <1>0 DEF PoolOK
<1>3. pool' = {f}
  BY <1>1
<1> HIDE DEF f
<1>4. GrantsOK(grants') /\ PoolOK' /\ TablesOK'
  BY <1>0, <1>2, <1>3 DEF TablesOK, PoolOK
<1>5. ASSUME ~slipped'
      PROVE  (\A g \in pool : SocketIsOwned(g))' /\ MarkerHasGrant' /\ SettingIsOwned'
  <2>1. SocketIsOwned(e) /\ MarkerHasGrant /\ SettingIsOwned
    BY <1>0, <1>5 DEF ProfileInv, OwnedInv
  <2>2. SocketIsOwned(f)'
    BY <1>0, <1>2, <2>1 DEF SocketIsOwned, Redialling
  <2> QED
    BY <1>0, <1>3, <2>1, <2>2 DEF MarkerHasGrant, SettingIsOwned
<1> QED
  BY <1>0, <1>4, <1>5, EnvironmentStep

-----------------------------------------------------------------------------
(* The invariant.                                                            *)

LEMMA ProfileInit == Init => ProfileInv
<1> SUFFICES ASSUME Init PROVE ProfileInv
  OBVIOUS
<1>1. Idle.at = "idle" /\ ~Idle.setup
  BY DEF Idle, Call
<1>2. \A t \in Threads : call[t] = Idle /\ t # Nobody
  BY ThreadAssumption DEF Init, Nobody
<1>3. LockInv
  BY <1>1, <1>2 DEF Init, LockInv, LeaderHasGate, LockHoldersProceed, Leading
<1>4. OwnedInv
  BY <1>1, <1>2 DEF Init, OwnedInv, Meant, MarkerHasGrant, SettingIsOwned
<1> QED
  BY <1>3, <1>4, TypeInit DEF ProfileInv

LEMMA ProfileNext == ProfileInv /\ [Next]_vars => ProfileInv'
<1> SUFFICES ASSUME ProfileInv, [Next]_vars PROVE ProfileInv'
  OBVIOUS
<1>1. ASSUME NEW t \in Threads, CallStep(t) PROVE ProfileInv'
  <2>1. CASE Revoke(t) \/ TidyBrowser(t) \/ ReleaseExisting(t) \/ AbortSetup(t)
    BY <2>1, RevokeStep, TidyStep, ReleaseStep, AbortStep
  <2>2. CASE LookUpPrior(t) \/ NumberGrant(t) \/ MintGrant(t) \/ ClaimExisting(t) \/ ClaimDialled(t)
             \/ CommitSetup(t)
    BY <2>2, LookUpPriorStep, NumberGrantStep, MintStep, ClaimStep, CommitStep
  <2>3. CASE LookUpGrant(t) \/ GetExisting(t) \/ TakeGate(t) \/ AttemptReconnect(t)
    BY <2>3, LookUpGrantStep, GetExistingStep, TakeGateStep, AttemptStep
  <2>4. CASE PeekPool(t) \/ Dial(t) \/ InstallSocket(t) \/ AfterRedial(t) \/ UserAnswers(t)
    BY <2>4, RedialStep, AfterRedialStep, UserAnswersStep
  <2>5. CASE ReadMarker(t) \/ GetSocket(t) \/ GetDialled(t) \/ Evict(t)
    BY <2>5, ConnectStep, GetDialledStep
  <2> QED
    BY <1>1, <2>1, <2>2, <2>3, <2>4, <2>5 DEF CallStep
<1>2. CASE Begin
  BY <1>2, BeginPrepareStep, BeginCallStep, EndSessionStep DEF Begin
<1>3. CASE Step
  BY <1>1, <1>3, AskUserStep, HandLockStep, EndTidiesStep, ReleaseTaskStep, CloseSocketStep DEF Step
<1>4. CASE UNCHANGED vars
  BY <1>4 DEF vars, ProfileInv, Types, GrantsOK, PoolOK, CallsOK, LocksOK, TablesOK, LockInv,
     LeaderHasGate, LockHoldersProceed, OwnedInv, SocketIsOwned, Redialling, MarkerHasGrant,
     SettingIsOwned, Meant
<1> QED
  BY <1>2, <1>3, <1>4 DEF Next

\* The inductive invariant: the types, who holds the locks, and that whatever a
\* grant owned is a grant's or about to be given up (grant.rs, cdp_ws.rs, engine.rs).
THEOREM ProfileCorrect == Spec => []ProfileInv
BY ProfileInit, ProfileNext, PTL DEF Spec

\* At most one grant a session and one socket to the endpoint, and a call is at
\* one of its places with the record it can have there (grant.rs, cdp_ws.rs).
THEOREM TypeCorrect == Spec => []TypeOK
<1>1. ProfileInv => TypeOK
  BY TypeIsTypes DEF ProfileInv
<1> QED
  BY <1>1, ProfileCorrect, PTL

\* The pool's lock and the reconnect gate are part of no circle: whoever holds one
\* waits for the browser, the user or, at the gate, for the pool's (cdp_ws.rs).
THEOREM HoldersProceed == Spec => []LockHoldersProceed
<1>1. ProfileInv => LockHoldersProceed
  BY DEF ProfileInv, LockInv
<1> QED
  BY <1>1, ProfileCorrect, PTL

\* However many sessions find the socket dead, one at a time redials (reconnect.rs).
THEOREM RedialsAlone == Spec => []OneRedial
<1>1. ProfileInv => OneRedial
  BY DEF ProfileInv, LockInv, LeaderHasGate, OneRedial
<1> QED
  BY <1>1, ProfileCorrect, PTL

\* Once nothing is under way, what a grant owned has gone with it: its socket, the
\* mark on its port and the setting that was turned on for it (grant.rs, engine.rs).
THEOREM NothingOutlives == Spec => []NothingOutlivesItsGrant
<1>1. ASSUME ProfileInv, Quiet, ~slipped
      PROVE  SocketHasGrant /\ MarkerHasGrant /\ SettingHasGrant
  <2>1. /\ \A e \in pool : SocketIsOwned(e)
        /\ MarkerHasGrant /\ SettingIsOwned /\ \A t \in Threads : Meant(call[t])
    BY <1>1 DEF ProfileInv, OwnedInv
  <2>2. /\ \A t \in Threads : call[t].at = "idle" /\ ~Settling(call[t]) /\ ~Redialling(t)
        /\ releases = {} /\ \A s \in Sessions : ending[s].at = "none"
    BY <1>1, <2>1 DEF Quiet, At, Settling, Redialling, Meant, NoHook
  <2>3. SocketHasGrant
    BY <2>1, <2>2 DEF SocketHasGrant, SocketIsOwned, Releasing
  <2>4. SettingHasGrant
    BY <2>1, <2>2 DEF SettingHasGrant, SettingIsOwned
  <2> QED
    BY <2>1, <2>3, <2>4
<1>2. ProfileInv => NothingOutlivesItsGrant
  BY <1>1 DEF NothingOutlivesItsGrant
<1> QED
  BY <1>2, ProfileCorrect, PTL
=============================================================================
