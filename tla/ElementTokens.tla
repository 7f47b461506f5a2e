---------------------------- MODULE ElementTokens ----------------------------
(* Element tokens (element_token.rs) over the cached accessibility trees     *)
(* (element_cache.rs and the platforms' cache.rs, tools of platform-macos    *)
(* and platform-windows).  A snapshot of a window puts its tree in the       *)
(* runtime's cache and registers itself in the lane of the process: two      *)
(* locks, on macOS with a screenshot awaited in between.  An action resolves *)
(* its token in the lane and looks the element up in the cache: two locks.   *)
(* A call may be cancelled (sdk/abi.rs): its future goes with what it holds, *)
(* and what it gave to a blocking worker goes on.                            *)
(*                                                                           *)
(* One process is modelled, with its windows: lanes and caches of different  *)
(* processes share nothing.  Elements are told apart by the tree they were   *)
(* found in; a token stands for some element of its snapshot's tree.         *)
EXTENDS Naturals, FiniteSets

CONSTANTS
    Tasks,           \* calls under way at once
    Scopes,          \* runtimes, each with its cache
    Windows,         \* windows of the process
    LRU_CAP_PER_PID,
    IdRange,         \* 2^32
    MaxWalks,        \* bound: trees walked
    MaxActions       \* bound: element actions begun

ASSUME BoundAssumption == MaxWalks \in Nat /\ MaxActions \in Nat /\ LRU_CAP_PER_PID \in Nat \ {0}
\* "we never reuse an id during the process lifetime" (element_token.rs:238).
ASSUME IdAssumption    == IdRange \in Nat /\ MaxWalks + 1 < IdRange
ASSUME TaskAssumption  == IsFiniteSet(Tasks) /\ IsFiniteSet(Scopes)

NoTree == 0
Trees  == 1..MaxWalks

VARIABLES
    lanes,    \* TokenRegistry, by scope: the snapshots that resolve
    pushed,   \* snapshots registered so far, their order in a lane
    counter,  \* SNAPSHOT_COUNTER
    cache,    \* ElementCache, by scope and window: a tree, NoTree if it has no elements
    refs,     \* references to the elements of a tree: the cache's and the guards'
    walked,   \* trees so far
    source,   \* of each tree: the scope and window it was walked in
    lost,     \* trees walked that no cache took and nothing releases
    tokens,   \* tokens handed out
    live,     \* runtimes that are not shut down
    task,
    actions,  \* actions begun
    raced     \* history: the windows on which a snapshot met another call or was dropped half-way

vars == <<lanes, pushed, counter, cache, refs, walked, source, lost, tokens, live, task, actions, raced>>

Nowhere == [scope |-> "none", window |-> "none"]
Place(sc, w) == [scope |-> sc, window |-> w]
Token(id, tree) == [id |-> id, tree |-> tree]
NoToken == Token(0, NoTree)
\* place: where the snapshot is taken or the token resolved to; token: the one minted
\* or resolved; tree: the one walked, or the one the action's element is in.
Task(at, place, token, tree) == [at |-> at, place |-> place, token |-> token, tree |-> tree]
Idle == Task("idle", Nowhere, NoToken, NoTree)

Init ==
    /\ lanes = [sc \in Scopes |-> {}]
    /\ pushed = 0 /\ counter = 1
    /\ cache = [sc \in Scopes |-> [w \in Windows |-> NoTree]]
    /\ refs = [t \in Trees |-> 0]
    /\ walked = 0 /\ source = [t \in Trees |-> Nowhere]
    /\ lost = {} /\ tokens = {}
    /\ live = Scopes
    /\ task = [k \in Tasks |-> Idle]
    /\ actions = 0 /\ raced = {}

At(k, at) == task[k].at = at
Cached(p) == cache[p.scope][p.window]
\* A snapshot that has its tree in the cache and not yet its entry in the lane.
Capture == {"capture", "minted"}
\* Another call is between its two locks on the window.
Busy(k, p, places) == \E j \in Tasks \ {k} : task[j].at \in places /\ task[j].place = p

\* Mutant of Released: the references of a tree that goes are forgotten, not released.
ReleasedNever(rs, tree) == rs

\* CachedSnapshot::drop releases what the entry held.
Released(rs, tree) == [t \in Trees |-> IF t = tree THEN rs[t] - 1 ELSE rs[t]]
Replace(p, tree) ==
    /\ cache' = [cache EXCEPT ![p.scope][p.window] = tree]
    /\ refs'  = Released(refs, Cached(p))

-----------------------------------------------------------------------------
(* get_window_state                                                          *)

\* The walk retains every element for the cache.
Walk(k, p) ==
    /\ At(k, "idle") /\ walked < MaxWalks /\ p.scope \in live
    /\ walked' = walked + 1
    /\ source' = [source EXCEPT ![walked'] = p]
    /\ refs'   = [refs EXCEPT ![walked'] = 1]
    /\ task'   = [task EXCEPT ![k] = Task("walked", p, NoToken, walked')]
    /\ UNCHANGED <<lanes, pushed, counter, cache, lost, tokens, live, actions, raced>>

UpdateCache(k) ==
    LET c == task[k]
    IN  /\ At(k, "walked")
        /\ Replace(c.place, c.tree)
        /\ task'  = [task EXCEPT ![k].at = "capture"]
        /\ raced' = IF Busy(k, c.place, Capture \cup {"resolved"}) THEN raced \cup {c.place} ELSE raced
        /\ UNCHANGED <<lanes, pushed, counter, walked, source, lost, tokens, live, actions>>

\* A snapshot that only observes, or whose walk outlasts its deadline or its
\* caller, caches nothing: no one releases what the walk retained.
LoseTree(k) ==
    /\ At(k, "walked")
    /\ lost' = lost \cup {task[k].tree}
    /\ task' = [task EXCEPT ![k] = Idle]
    /\ UNCHANGED <<lanes, pushed, counter, cache, refs, walked, source, tokens, live, actions, raced>>

\* The window is not found: nothing is walked, the window's entry is emptied and
\* no token promised.
ForgetTree(k, p) ==
    /\ At(k, "idle") /\ p.scope \in live
    /\ Replace(p, NoTree)
    /\ UNCHANGED <<lanes, pushed, counter, walked, source, lost, tokens, live, task, actions, raced>>

\* Mutant of NextId: only the low bits of the counter are kept.
NextIdTruncated(n) == (n + 1) % 2

NextId(n) == (n + 1) % IdRange

\* The identifier is minted before the lane is locked.
MintSnapshot(k) ==
    /\ At(k, "capture")
    /\ task'    = [task EXCEPT ![k].at = "minted", ![k].token = Token(counter, task[k].tree)]
    /\ counter' = NextId(counter)
    /\ UNCHANGED <<lanes, pushed, cache, refs, walked, source, lost, tokens, live, actions, raced>>

Entry(id, w, nth) == [id |-> id, window |-> w, nth |-> nth]

\* The lane with a new entry, without older ones of the window and, beyond the cap,
\* without the one that was pushed first.
Registered(lane, e) ==
    LET kept == {f \in lane : f.window # e.window} \cup {e}
    IN  IF Cardinality(kept) <= LRU_CAP_PER_PID THEN kept
        ELSE {f \in kept : \E g \in kept : g.nth < f.nth}

RegisterSnapshot(k) ==
    LET c == task[k]
    IN  /\ At(k, "minted")
        /\ lanes'  = [lanes EXCEPT ![c.place.scope] =
                                    Registered(@, Entry(c.token.id, c.place.window, pushed))]
        /\ pushed' = pushed + 1
        /\ tokens' = tokens \cup {c.token}
        /\ task'   = [task EXCEPT ![k] = Idle]
        /\ UNCHANGED <<counter, cache, refs, walked, source, lost, live, actions, raced>>

\* The call is cancelled while the screenshot is taken.
DropSnapshot(k) ==
    /\ At(k, "capture")
    /\ task'  = [task EXCEPT ![k] = Idle]
    /\ raced' = raced \cup {task[k].place}
    /\ UNCHANGED <<lanes, pushed, counter, cache, refs, walked, source, lost, tokens, live, actions>>

-----------------------------------------------------------------------------
(* An element action                                                         *)

\* Mutant of Lane: the lanes are keyed by the process alone.
LaneOfProcess(sc) == UNION {lanes[r] : r \in Scopes}

Lane(sc) == lanes[sc]

\* Mutant of Retained: the guard does not count.
RetainedUncounted(rs, tree) == rs

Retained(rs, tree) == [rs EXCEPT ![tree] = @ + 1]

\* A token that is in no lane of the caller's runtime is refused.
ResolveToken(k, sc, token) ==
    /\ At(k, "idle") /\ actions < MaxActions /\ sc \in live
    /\ \E e \in Lane(sc) :
          LET p == Place(sc, e.window)
          IN  /\ e.id = token.id
              /\ task'  = [task EXCEPT ![k] = Task("resolved", p, token, NoTree)]
              /\ raced' = IF Busy(k, p, Capture) THEN raced \cup {p} ELSE raced
    /\ actions' = actions + 1
    /\ UNCHANGED <<lanes, pushed, counter, cache, refs, walked, source, lost, tokens, live>>

\* Looked up and retained under the cache's lock; with no such element the
\* action is refused.
RetainElement(k) ==
    LET tree == Cached(task[k].place)
    IN  /\ At(k, "resolved")
        /\ IF tree = NoTree
             THEN task' = [task EXCEPT ![k] = Idle] /\ UNCHANGED refs
             ELSE /\ task' = [task EXCEPT ![k].at = "act", ![k].tree = tree]
                  /\ refs' = Retained(refs, tree)
        /\ UNCHANGED <<lanes, pushed, counter, cache, walked, source, lost, tokens, live, actions, raced>>

\* The action is done, refused by its gate, or dropped before it has a worker: the
\* guard goes.
ReleaseElement(k) ==
    /\ At(k, "act")
    /\ refs' = Released(refs, task[k].tree)
    /\ task' = [task EXCEPT ![k] = Idle]
    /\ UNCHANGED <<lanes, pushed, counter, cache, walked, source, lost, tokens, live, actions, raced>>

\* The call is cancelled: before it looked its element up, or when a worker has the
\* element's pointer.  The guard is in the future that goes, not in the worker.
DropAction(k) ==
    /\ \/ /\ At(k, "resolved")
          /\ task' = [task EXCEPT ![k] = Idle] /\ UNCHANGED refs
       \/ /\ At(k, "act")
          /\ task' = [task EXCEPT ![k].at = "stray"] /\ refs' = Released(refs, task[k].tree)
    /\ UNCHANGED <<lanes, pushed, counter, cache, walked, source, lost, tokens, live, actions, raced>>

StrayEnds(k) ==
    /\ At(k, "stray")
    /\ task' = [task EXCEPT ![k] = Idle]
    /\ UNCHANGED <<lanes, pushed, counter, cache, refs, walked, source, lost, tokens, live,
                   actions, raced>>

-----------------------------------------------------------------------------

\* A runtime is shut down when its calls have drained (Recording); the workers of
\* cancelled ones are not waited for.
ClearRuntimeScope(sc) ==
    /\ sc \in live /\ \A k \in Tasks : task[k].place.scope = sc => At(k, "stray")
    /\ live'  = live \ {sc}
    /\ lanes' = [lanes EXCEPT ![sc] = {}]
    /\ UNCHANGED <<pushed, counter, cache, refs, walked, source, lost, tokens, task, actions, raced>>

Next ==
    \/ \E k \in Tasks :
          \/ \E sc \in Scopes, w \in Windows : Walk(k, Place(sc, w)) \/ ForgetTree(k, Place(sc, w))
          \/ \E sc \in Scopes, token \in tokens : ResolveToken(k, sc, token)
          \/ UpdateCache(k) \/ LoseTree(k) \/ DropSnapshot(k)
          \/ MintSnapshot(k) \/ RegisterSnapshot(k)
          \/ RetainElement(k) \/ ReleaseElement(k) \/ DropAction(k) \/ StrayEnds(k)
    \/ \E sc \in Scopes : ClearRuntimeScope(sc)

Spec == Init /\ [][Next]_vars

-----------------------------------------------------------------------------

Somewhere == [scope : Scopes \cup {"none"}, window : Windows \cup {"none"}]

Entries    == [id : 1..MaxWalks, window : Windows, nth : Nat]
Handles    == [id : 1..MaxWalks, tree : Trees]
Stages     == {"idle", "walked", "capture", "minted", "resolved", "act", "stray"}
TaskStates == [at : Stages, place : Somewhere, token : Handles \cup {NoToken}, tree : 0..MaxWalks]

TypeOK ==
    /\ lanes \in [Scopes -> SUBSET Entries] /\ pushed \in Nat
    /\ \A sc \in Scopes : Cardinality(lanes[sc]) <= LRU_CAP_PER_PID
    /\ counter \in 1..(MaxWalks + 1)
    /\ cache \in [Scopes -> [Windows -> 0..MaxWalks]]
    /\ refs \in [Trees -> Nat]
    /\ walked \in 0..MaxWalks /\ source \in [Trees -> Somewhere]
    /\ lost \subseteq Trees
    /\ tokens \subseteq Handles
    /\ live \subseteq Scopes
    /\ task \in [Tasks -> TaskStates]
    /\ actions \in 0..MaxActions /\ raced \subseteq Somewhere

\* A token acts on an element of its own snapshot's tree or is refused
\* (element_token.rs 14), on a window of a runtime on which no snapshot met another
\* call or was dropped before it registered.  Whatever races, and whatever the worker
\* of a cancelled call still does, it never acts in another window, or in a tree of
\* another runtime that looks at the same one.
Acting(k)     == task[k].at \in {"act", "stray"}
SameTree(k)   == task[k].tree = task[k].token.tree
SameWindow(k) == source[task[k].tree] = source[task[k].token.tree]
TokenHitsItsTree ==
    \A k \in Tasks : Acting(k) => SameWindow(k) /\ (task[k].place \in raced \/ SameTree(k))

\* What was walked is counted once for the cache's entry and once for the guard of
\* each call that acts on it, cancelled or not at any of their steps, so that the last
\* of them releases it and none does it twice (cache.rs, RetainedElement); a tree that
\* the cache never took is never released.
References(t) == Cardinality({k \in Tasks : At(k, "act") /\ task[k].tree = t}) +
                 Cardinality({k \in Tasks : At(k, "walked") /\ task[k].tree = t}) +
                 Cardinality({sc \in Scopes : \E w \in Windows : cache[sc][w] = t})
ReferencesBalance == \A t \in Trees : refs[t] = References(t) + (IF t \in lost THEN 1 ELSE 0)

\* A token that a runtime refuses, because its snapshot was superseded or evicted or
\* was taken in another runtime, is refused there for good: no later snapshot, of
\* whichever runtime and in whatever order they are minted and registered, makes it
\* resolve (element_token.rs 118-121).
Refused(sc, lane, token) == \A e \in lane[sc] : e.id # token.id
StaleStaysStale ==
    [][\A sc \in Scopes, token \in tokens :
          Refused(sc, lanes, token) => Refused(sc, lanes', token)]_vars

-----------------------------------------------------------------------------
(* What the repository says and the code does not do.                        *)

\* A snapshot invalidates the tokens before it "at the same boundary as the cache
\* replacement" (element_token.rs 129), so that a stale token gets an error and is
\* never mapped to another tree's element (the test at 600).
StaleTokenIsRefused == \A k \in Tasks : At(k, "act") => SameTree(k)

\* "Only the newest snapshot for each (pid, window_id) remains valid"
\* (element_token.rs 56), identifiers being "monotonic" (76): but they are minted
\* before the lane is locked, so the older of two may be the one that is kept.
OnlyNewestResolves ==
    \A sc \in Scopes : \A e \in lanes[sc], token \in tokens :
        source[token.tree] = Place(sc, e.window) => token.id <= e.id

\* An element is retained "so it can't be freed by a concurrent get_window_state"
\* while a click is mid-flight (click.rs 426): but the guard goes with a cancelled
\* call, and the worker that performs the action goes on with the bare pointer.
ActionHoldsElement == \A k \in Tasks : Acting(k) => refs[task[k].tree] > 0
=============================================================================
