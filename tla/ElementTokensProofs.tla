------------------------ MODULE ElementTokensProofs ------------------------
(* Theorems about ElementTokens, for any number of calls, runtimes, windows  *)
(* and snapshots.                                                            *)
EXTENDS ElementTokens, Integers, FiniteSetTheorems, WellFoundedInduction, TLAPS

-----------------------------------------------------------------------------
(* Types.  A reference count is only known to be an integer until it is      *)
(* known what it counts.                                                     *)

Located(p) == p.scope \in Scopes /\ p.window \in Windows

WellPlaced(c) ==
    /\ c.at \in {"walked", "capture", "minted", "resolved"} => Located(c.place)
    /\ c.at \in {"walked", "capture", "minted", "act", "stray"} => c.tree \in Trees
    /\ c.at = "minted" => c.token \in Handles

Typed ==
    /\ lanes \in [Scopes -> SUBSET Entries] /\ pushed \in Nat
    /\ counter \in Nat \ {0}
    /\ cache \in [Scopes -> [Windows -> 0..MaxWalks]]
    /\ refs \in [Trees -> Int]
    /\ walked \in 0..MaxWalks /\ source \in [Trees -> Somewhere]
    /\ lost \subseteq Trees /\ tokens \subseteq Handles
    /\ live \subseteq Scopes
    /\ task \in [Tasks -> TaskStates]
    /\ actions \in 0..MaxActions /\ raced \subseteq Somewhere
    /\ \A k \in Tasks : WellPlaced(task[k])

\* Snapshots that may still be registered.
Unregistered == {k \in Tasks : task[k].at \in {"walked", "capture"}}
Counted == counter + Cardinality(Unregistered) <= walked + 1

LEMMA NewTaskType ==
    ASSUME NEW at \in Stages, NEW p \in Somewhere, NEW token \in Handles \cup {NoToken},
           NEW tree \in 0..MaxWalks
    PROVE  Task(at, p, token, tree) \in TaskStates
BY DEF Task, TaskStates

LEMMA TaskFields ==
    ASSUME NEW c \in TaskStates
    PROVE  /\ c.at \in Stages /\ c.place \in Somewhere /\ c.token \in Handles \cup {NoToken}
           /\ c.tree \in 0..MaxWalks
BY DEF TaskStates

LEMMA TypeOfIdle == Idle \in TaskStates
<1>1. Nowhere \in Somewhere
  BY DEF Nowhere, Somewhere
<1>2. NoTree \in 0..MaxWalks /\ "idle" \in Stages
  BY BoundAssumption DEF NoTree, Stages
<1> QED
  BY <1>1, <1>2, NewTaskType DEF Idle

LEMMA PlaceType ==
    ASSUME NEW sc \in Scopes, NEW w \in Windows
    PROVE  /\ Place(sc, w) \in Somewhere /\ Located(Place(sc, w))
           /\ Place(sc, w).scope = sc /\ Place(sc, w).window = w
BY DEF Place, Somewhere, Located

\* A call that goes from one stage to the next.
LEMMA Moved ==
    ASSUME Typed, NEW k \in Tasks, NEW at \in Stages, task' = [task EXCEPT ![k].at = at]
    PROVE  /\ task' \in [Tasks -> TaskStates]
           /\ task'[k].at = at /\ task'[k].place = task[k].place
           /\ task'[k].token = task[k].token /\ task'[k].tree = task[k].tree
           /\ \A j \in Tasks \ {k} : task'[j] = task[j]
<1>1. task \in [Tasks -> TaskStates] /\ task[k] \in TaskStates
  BY DEF Typed
<1>2. task' = [task EXCEPT ![k] = [task[k] EXCEPT !.at = at]]
  BY <1>1
<1>3. [task[k] EXCEPT !.at = at] \in TaskStates
  BY <1>1 DEF TaskStates
<1>4. task'[k] = [task[k] EXCEPT !.at = at]
  BY <1>1, <1>2
<1>5. /\ task'[k].at = at /\ task'[k].place = task[k].place
      /\ task'[k].token = task[k].token /\ task'[k].tree = task[k].tree
  BY <1>1, <1>4 DEF TaskStates
<1> QED
  BY <1>1, <1>2, <1>3, <1>5

\* A call that begins or returns.
LEMMA Renewed ==
    ASSUME Typed, NEW k \in Tasks, NEW at \in Stages, NEW p \in Somewhere,
           NEW token \in Handles \cup {NoToken}, NEW tree \in 0..MaxWalks,
           task' = [task EXCEPT ![k] = Task(at, p, token, tree)]
    PROVE  /\ task' \in [Tasks -> TaskStates]
           /\ task'[k].at = at /\ task'[k].place = p
           /\ task'[k].token = token /\ task'[k].tree = tree
           /\ \A j \in Tasks \ {k} : task'[j] = task[j]
<1>1. task \in [Tasks -> TaskStates]
  BY DEF Typed
<1>2. Task(at, p, token, tree) \in TaskStates
  BY NewTaskType
<1>3. task'[k] = Task(at, p, token, tree)
  BY <1>1
<1> QED
  BY <1>1, <1>2, <1>3 DEF Task

LEMMA Rested ==
    ASSUME Typed, NEW k \in Tasks, task' = [task EXCEPT ![k] = Idle]
    PROVE  /\ task' \in [Tasks -> TaskStates] /\ task'[k].at = "idle"
           /\ \A j \in Tasks \ {k} : task'[j] = task[j]
<1>1. task \in [Tasks -> TaskStates] /\ Idle.at = "idle"
  BY DEF Typed, Idle, Task
<1> QED
  BY <1>1, TypeOfIdle

\* An action that got hold of its element.
LEMMA BeginsToAct ==
    ASSUME Typed, NEW k \in Tasks, NEW tree \in 0..MaxWalks,
           task' = [task EXCEPT ![k].at = "act", ![k].tree = tree]
    PROVE  /\ task' \in [Tasks -> TaskStates]
           /\ task'[k].at = "act" /\ task'[k].tree = tree
           /\ task'[k].token = task[k].token /\ task'[k].place = task[k].place
           /\ \A j \in Tasks \ {k} : task'[j] = task[j]
<1>1. task \in [Tasks -> TaskStates] /\ task[k] \in TaskStates
  BY DEF Typed
<1> DEFINE r == [task[k] EXCEPT !.at = "act", !.tree = tree]
<1>2. /\ r \in TaskStates /\ r.at = "act" /\ r.tree = tree
      /\ r.token = task[k].token /\ r.place = task[k].place
  BY <1>1 DEF TaskStates, Stages
<1>3. task' = [task EXCEPT ![k] = r]
  BY <1>1
<1> HIDE DEF r
<1> QED
  BY <1>1, <1>2, <1>3

\* A snapshot that got its identifier.
LEMMA GetsToken ==
    ASSUME Typed, NEW k \in Tasks, NEW token \in Handles,
           task' = [task EXCEPT ![k].at = "minted", ![k].token = token]
    PROVE  /\ task' \in [Tasks -> TaskStates]
           /\ task'[k].at = "minted" /\ task'[k].token = token
           /\ task'[k].tree = task[k].tree /\ task'[k].place = task[k].place
           /\ \A j \in Tasks \ {k} : task'[j] = task[j]
<1>1. task \in [Tasks -> TaskStates] /\ task[k] \in TaskStates
  BY DEF Typed
<1> DEFINE r == [task[k] EXCEPT !.at = "minted", !.token = token]
<1>2. /\ r \in TaskStates /\ r.at = "minted" /\ r.token = token
      /\ r.tree = task[k].tree /\ r.place = task[k].place
  BY <1>1 DEF TaskStates, Stages
<1>3. task' = [task EXCEPT ![k] = r]
  BY <1>1
<1> HIDE DEF r
<1> QED
  BY <1>1, <1>2, <1>3

LEMMA UpdateType ==
    ASSUME NEW S, NEW T, NEW f \in [S -> T], NEW x, NEW v \in T
    PROVE  [f EXCEPT ![x] = v] \in [S -> T]
OBVIOUS

LEMMA ReplaceType ==
    ASSUME Typed, NEW p, NEW tree \in 0..MaxWalks, Replace(p, tree)
    PROVE  cache' \in [Scopes -> [Windows -> 0..MaxWalks]] /\ refs' \in [Trees -> Int]
<1>1. cache' \in [Scopes -> [Windows -> 0..MaxWalks]]
  BY DEF Replace, Typed
<1>2. refs' \in [Trees -> Int]
  BY DEF Replace, Released, Typed
<1> QED
  BY <1>1, <1>2

-----------------------------------------------------------------------------
(* No identifier comes round: every one that is minted was walked for.       *)

LEMMA Pending ==
    /\ IsFiniteSet(Unregistered) /\ Cardinality(Unregistered) \in Nat
    /\ \A k \in Unregistered :
          Cardinality(Unregistered \ {k}) = Cardinality(Unregistered) - 1
    /\ \A k \in Tasks \ Unregistered :
          Cardinality(Unregistered \cup {k}) = Cardinality(Unregistered) + 1
<1>1. IsFiniteSet(Unregistered)
  BY TaskAssumption, FS_Subset DEF Unregistered
<1> QED
  BY <1>1, FS_CardinalityType, FS_AddElement, FS_RemoveElement

LEMMA NextIdIsNew ==
    ASSUME Typed, Counted, NEW k \in Unregistered
    PROVE  counter \in 1..MaxWalks /\ NextId(counter) = counter + 1
<1>1. Cardinality(Unregistered) \in Nat /\ Cardinality(Unregistered) # 0
  BY Pending, FS_EmptySet
<1>2. counter \in Nat \ {0} /\ walked \in Nat /\ walked <= MaxWalks /\ MaxWalks \in Nat
  BY BoundAssumption DEF Typed
<1>3. counter <= MaxWalks
  BY <1>1, <1>2 DEF Counted
<1>4. counter + 1 \in Nat /\ IdRange \in Nat /\ counter + 1 < IdRange
  BY <1>2, <1>3, IdAssumption
<1>5. \A m, n \in Nat : m < n => m % n = m
  OBVIOUS
<1> QED
  BY <1>2, <1>3, <1>4, <1>5 DEF NextId

LEMMA CountedKeeps ==
    ASSUME Typed, Counted, Unregistered' = Unregistered, UNCHANGED <<counter, walked>>
    PROVE  Counted'
BY DEF Counted

Sound == Typed /\ Counted

LEMMA SoundInit == Init => Sound
<1> SUFFICES ASSUME Init PROVE Sound
  OBVIOUS
<1>1. task \in [Tasks -> TaskStates] /\ \A k \in Tasks : task[k].at = "idle"
  BY TypeOfIdle DEF Init, Idle, Task
<1>2. Nowhere \in Somewhere
  BY DEF Nowhere, Somewhere
<1>3. NoTree \in 0..MaxWalks
  BY BoundAssumption DEF NoTree
<1>4. /\ lanes \in [Scopes -> SUBSET Entries]
      /\ cache \in [Scopes -> [Windows -> 0..MaxWalks]]
      /\ refs \in [Trees -> Int] /\ source \in [Trees -> Somewhere]
  BY <1>2, <1>3 DEF Init
<1>5. counter \in Nat \ {0} /\ walked \in 0..MaxWalks /\ actions \in 0..MaxActions
  BY BoundAssumption DEF Init
<1>6. /\ lost \subseteq Trees /\ tokens \subseteq Handles /\ live \subseteq Scopes
      /\ raced \subseteq Somewhere /\ pushed \in Nat
  BY DEF Init
<1>7. Typed
  BY <1>1, <1>4, <1>5, <1>6 DEF Typed, WellPlaced
<1>8. Unregistered = {}
  BY <1>1 DEF Unregistered
<1>9. Counted
  BY <1>8, FS_EmptySet DEF Init, Counted
<1> QED
  BY <1>7, <1>9 DEF Sound

LEMMA SoundWalk ==
    ASSUME Sound, NEW k \in Tasks, NEW sc \in Scopes, NEW w \in Windows, Walk(k, Place(sc, w))
    PROVE  Sound'
<1> DEFINE p == Place(sc, w)
<1>1. p \in Somewhere /\ Located(p)
  BY PlaceType
<1> HIDE DEF p
<1>2. walked' = walked + 1 /\ walked' \in Trees /\ walked' \in 0..MaxWalks
  BY BoundAssumption DEF Walk, Sound, Typed, Trees
<1>3. /\ task' \in [Tasks -> TaskStates]
      /\ task'[k].at = "walked" /\ task'[k].place = p /\ task'[k].tree = walked'
      /\ \A j \in Tasks \ {k} : task'[j] = task[j]
  <2>1. task' = [task EXCEPT ![k] = Task("walked", p, NoToken, walked')]
    BY DEF Walk, p
  <2>2. "walked" \in Stages /\ NoToken \in Handles \cup {NoToken}
    BY DEF Stages
  <2> QED
    BY <1>1, <1>2, <2>1, <2>2, Renewed DEF Sound
<1>4. refs' \in [Trees -> Int] /\ source' \in [Trees -> Somewhere]
  <2>1. refs' = [refs EXCEPT ![walked'] = 1] /\ source' = [source EXCEPT ![walked'] = p]
    BY DEF Walk, p
  <2>2. refs \in [Trees -> Int] /\ source \in [Trees -> Somewhere]
    BY DEF Sound, Typed
  <2>3. refs' \in [Trees -> Int]
    BY <2>1, <2>2, UpdateType
  <2>4. source' \in [Trees -> Somewhere]
    BY <1>1, <2>1, <2>2
  <2> QED
    BY <2>3, <2>4
<1>5. \A j \in Tasks : WellPlaced(task'[j])
  BY <1>1, <1>2, <1>3 DEF Sound, Typed, WellPlaced
<1>6. Typed'
  BY <1>2, <1>3, <1>4, <1>5 DEF Walk, Sound, Typed
<1>7. Unregistered' = Unregistered \cup {k} /\ k \notin Unregistered
  BY <1>3 DEF Walk, At, Unregistered
<1>8. counter' = counter /\ counter \in Nat /\ walked \in Nat
  BY DEF Walk, Sound, Typed
<1>9. Counted'
  BY <1>2, <1>7, <1>8, Pending DEF Sound, Counted
<1> QED
  BY <1>9, <1>6 DEF Sound

LEMMA SoundUpdate ==
    ASSUME Sound, NEW k \in Tasks, UpdateCache(k) PROVE Sound'
<1>1. task[k].tree \in 0..MaxWalks
  BY TaskFields DEF Sound, Typed
<1>2. cache' \in [Scopes -> [Windows -> 0..MaxWalks]] /\ refs' \in [Trees -> Int]
  BY <1>1, ReplaceType DEF UpdateCache, Sound
<1>3. /\ task' \in [Tasks -> TaskStates]
      /\ task'[k].at = "capture" /\ task'[k].place = task[k].place /\ task'[k].tree = task[k].tree
      /\ \A j \in Tasks \ {k} : task'[j] = task[j]
  BY Moved DEF UpdateCache, Sound, Stages
<1>4. raced' \subseteq Somewhere /\ task[k].at = "walked"
  BY TaskFields DEF UpdateCache, Sound, Typed, At
<1>5. \A j \in Tasks : WellPlaced(task'[j])
  BY <1>3, <1>4 DEF Sound, Typed, WellPlaced
<1>6. Typed'
  BY <1>2, <1>3, <1>4, <1>5 DEF UpdateCache, Sound, Typed
<1>7. Unregistered' = Unregistered
  BY <1>3, <1>4 DEF Unregistered
<1>8. Counted'
  BY <1>7, CountedKeeps DEF UpdateCache, Sound
<1> QED
  BY <1>6, <1>8 DEF Sound

\* A call that returns is located or not as it likes.
LEMMA RestedLocated ==
    ASSUME Typed, NEW k \in Tasks, task' = [task EXCEPT ![k] = Idle]
    PROVE  \A j \in Tasks : WellPlaced(task'[j])
BY Rested DEF Typed, WellPlaced

LEMMA SoundLeaves ==
    ASSUME Sound, NEW k \in Tasks, LoseTree(k) \/ DropSnapshot(k) PROVE Sound'
<1>1. task' = [task EXCEPT ![k] = Idle] /\ k \in Unregistered
  BY DEF LoseTree, DropSnapshot, At, Unregistered
<1>2. task' \in [Tasks -> TaskStates] /\ task'[k].at = "idle"
      /\ \A j \in Tasks \ {k} : task'[j] = task[j]
  BY <1>1, Rested DEF Sound
<1>3. lost' \subseteq Trees /\ raced' \subseteq Somewhere
  BY <1>1, TaskFields DEF LoseTree, DropSnapshot, Sound, Typed, WellPlaced, At
<1>4. UNCHANGED <<lanes, pushed, counter, cache, refs, walked, source, tokens, live, actions>>
  BY DEF LoseTree, DropSnapshot
<1>5. Typed'
  BY <1>1, <1>2, <1>3, <1>4, RestedLocated DEF Sound, Typed
<1>6. Unregistered' = Unregistered \ {k}
  BY <1>2 DEF Unregistered
<1>7. counter \in Nat /\ walked \in Nat
  BY DEF Sound, Typed
<1>8. Counted'
  BY <1>1, <1>4, <1>6, <1>7, Pending DEF Sound, Counted
<1> QED
  BY <1>5, <1>8 DEF Sound

LEMMA SoundForget ==
    ASSUME Sound, NEW k \in Tasks, NEW p, ForgetTree(k, p) PROVE Sound'
<1>1. NoTree \in 0..MaxWalks
  BY BoundAssumption DEF NoTree
<1>2. cache' \in [Scopes -> [Windows -> 0..MaxWalks]] /\ refs' \in [Trees -> Int]
  BY <1>1, ReplaceType DEF ForgetTree, Sound
<1>3. Typed'
  BY <1>2 DEF ForgetTree, Sound, Typed
<1>4. Counted'
  BY CountedKeeps DEF ForgetTree, Sound, Unregistered
<1> QED
  BY <1>3, <1>4 DEF Sound

LEMMA SoundMint ==
    ASSUME Sound, NEW k \in Tasks, MintSnapshot(k) PROVE Sound'
<1>1. /\ task[k].at = "capture" /\ task[k].tree \in Trees /\ Located(task[k].place)
      /\ k \in Unregistered
  BY DEF MintSnapshot, At, Unregistered, Sound, Typed, WellPlaced
<1>2. counter \in 1..MaxWalks /\ counter' = counter + 1
  BY <1>1, NextIdIsNew DEF MintSnapshot, Sound
<1> DEFINE a == Token(counter, task[k].tree)
<1>3. a \in Handles
  BY <1>1, <1>2 DEF Token, Handles
<1> HIDE DEF a
<1>4. /\ task' \in [Tasks -> TaskStates]
      /\ task'[k].at = "minted" /\ task'[k].token = a
      /\ task'[k].tree = task[k].tree /\ task'[k].place = task[k].place
      /\ \A j \in Tasks \ {k} : task'[j] = task[j]
  <2>1. task' = [task EXCEPT ![k].at = "minted", ![k].token = a]
    BY DEF MintSnapshot, a
  <2> QED
    BY <1>3, <2>1, GetsToken DEF Sound
<1>5. \A j \in Tasks : WellPlaced(task'[j])
  BY <1>1, <1>3, <1>4 DEF Sound, Typed, WellPlaced
<1>6. counter' \in Nat \ {0}
  BY <1>2
<1>7. UNCHANGED <<lanes, pushed, cache, refs, walked, source, lost, tokens, live, actions, raced>>
  BY DEF MintSnapshot
<1>8. Typed'
  BY <1>4, <1>5, <1>6, <1>7 DEF Sound, Typed
<1>9. Unregistered' = Unregistered \ {k}
  BY <1>4 DEF Unregistered
<1>10. counter \in Nat /\ walked \in Nat
  BY DEF Sound, Typed
<1>11. Counted'
  BY <1>1, <1>2, <1>7, <1>9, <1>10, Pending DEF Sound, Counted
<1> QED
  BY <1>8, <1>11 DEF Sound

LEMMA RegisteredEntries ==
    ASSUME NEW lane \in SUBSET Entries, NEW e \in Entries
    PROVE  /\ Registered(lane, e) \in SUBSET Entries
           /\ \A f \in Registered(lane, e) : (f \in lane /\ f.window # e.window) \/ f = e
<1> DEFINE kept == {f \in lane : f.window # e.window} \cup {e}
<1>1. kept \in SUBSET Entries
  OBVIOUS
<1>2. Registered(lane, e) \subseteq kept
  BY DEF Registered
<1> QED
  BY <1>1, <1>2

LEMMA SoundRegister ==
    ASSUME Sound, NEW k \in Tasks, RegisterSnapshot(k) PROVE Sound'
<1>1. /\ task' = [task EXCEPT ![k] = Idle] /\ task[k].at = "minted"
      /\ task[k].token \in Handles /\ Located(task[k].place)
  BY DEF RegisterSnapshot, At, Sound, Typed, WellPlaced
<1>2. pushed' = pushed + 1 /\ pushed \in Nat
  BY DEF RegisterSnapshot, Sound, Typed
<1>3. task' \in [Tasks -> TaskStates] /\ task'[k].at = "idle"
      /\ \A j \in Tasks \ {k} : task'[j] = task[j]
  BY <1>1, Rested DEF Sound
<1>4. tokens' \subseteq Handles
  BY <1>1 DEF RegisterSnapshot, Sound, Typed
<1>5. lanes' \in [Scopes -> SUBSET Entries]
  <2> DEFINE sc == task[k].place.scope
             e  == Entry(task[k].token.id, task[k].place.window, pushed)
             R  == Registered(lanes[sc], e)
  <2>1. lanes \in [Scopes -> SUBSET Entries] /\ sc \in Scopes
    BY <1>1 DEF Sound, Typed, Located
  <2>2. e \in Entries
    BY <1>1, <1>2 DEF Entry, Entries, Handles, Located
  <2>3. lanes' = [lanes EXCEPT ![sc] = R]
    BY <2>1 DEF RegisterSnapshot
  <2> HIDE DEF e, sc
  <2>4. R \in SUBSET Entries
    BY <2>1, <2>2, RegisteredEntries
  <2> HIDE DEF R
  <2> QED
    BY <2>1, <2>3, <2>4
<1>6. UNCHANGED <<counter, cache, refs, walked, source, lost, live, actions, raced>>
  BY DEF RegisterSnapshot
<1>7. pushed' \in Nat
  BY <1>2
<1>8. \A j \in Tasks : WellPlaced(task'[j])
  BY <1>1, RestedLocated DEF Sound
<1>9. Typed'
  BY <1>3, <1>4, <1>5, <1>6, <1>7, <1>8 DEF Sound, Typed
<1>10. Unregistered' = Unregistered
  BY <1>1, <1>3 DEF Unregistered
<1>11. Counted'
  BY <1>6, <1>10, CountedKeeps DEF Sound
<1> QED
  BY <1>9, <1>11 DEF Sound

\* An element action: nothing but its call and the references move.
LEMMA SoundAction ==
    ASSUME Sound, NEW k \in Tasks, task' \in [Tasks -> TaskStates],
           \A j \in Tasks \ {k} : task'[j] = task[j],
           task[k].at \notin {"walked", "capture"}, task'[k].at \notin {"walked", "capture"},
           WellPlaced(task'[k]),
           refs' \in [Trees -> Int], actions' \in 0..MaxActions, raced' \subseteq Somewhere,
           UNCHANGED <<lanes, pushed, counter, cache, walked, source, lost, tokens, live>>
    PROVE  Sound'
<1>1. Typed'
  BY DEF Sound, Typed
<1>2. Unregistered' = Unregistered
  BY DEF Unregistered
<1>3. Counted'
  BY <1>2, CountedKeeps DEF Sound
<1> QED
  BY <1>1, <1>3 DEF Sound

LEMMA SoundResolve ==
    ASSUME Sound, NEW k \in Tasks, NEW sc \in Scopes, NEW token \in tokens,
           ResolveToken(k, sc, token)
    PROVE  Sound'
<1>1. PICK e \in lanes[sc] :
         /\ e.id = token.id
         /\ task' = [task EXCEPT ![k] = Task("resolved", Place(sc, e.window), token, NoTree)]
         /\ raced' = IF Busy(k, Place(sc, e.window), Capture)
                     THEN raced \cup {Place(sc, e.window)} ELSE raced
  BY DEF ResolveToken, Lane
<1>2. e.window \in Windows /\ token \in Handles
  BY DEF Sound, Typed, Entries
<1> DEFINE p == Place(sc, e.window)
<1>3. p \in Somewhere /\ Located(p)
  BY <1>2, PlaceType
<1> HIDE DEF p
<1>4. "resolved" \in Stages /\ NoTree \in 0..MaxWalks
  BY BoundAssumption DEF Stages, NoTree
<1>5. /\ task' \in [Tasks -> TaskStates] /\ task'[k].at = "resolved" /\ task'[k].place = p
      /\ \A j \in Tasks \ {k} : task'[j] = task[j]
  <2>1. task' = [task EXCEPT ![k] = Task("resolved", p, token, NoTree)]
    BY <1>1 DEF p
  <2> QED
    BY <1>2, <1>3, <1>4, <2>1, Renewed DEF Sound
<1>6. actions' \in 0..MaxActions
  BY BoundAssumption DEF ResolveToken, Sound, Typed
<1>7. raced' \subseteq Somewhere /\ refs' \in [Trees -> Int]
  BY <1>1, <1>3 DEF ResolveToken, Sound, Typed, p
<1>8. task[k].at = "idle"
  BY DEF ResolveToken, At
<1>9. UNCHANGED <<lanes, pushed, counter, cache, walked, source, lost, tokens, live>>
  BY DEF ResolveToken
<1>10. WellPlaced(task'[k])
  BY <1>3, <1>5 DEF WellPlaced
<1> QED
  BY <1>5, <1>6, <1>7, <1>8, <1>9, <1>10, SoundAction

LEMMA SoundRetain ==
    ASSUME Sound, NEW k \in Tasks, RetainElement(k) PROVE Sound'
<1> DEFINE tree == Cached(task[k].place)
<1>1. task[k].at = "resolved" /\ Located(task[k].place)
  BY DEF RetainElement, At, Sound, Typed, WellPlaced
<1>2. tree \in 0..MaxWalks
  BY <1>1 DEF Cached, Located, Sound, Typed
<1> HIDE DEF tree
<1>3. UNCHANGED <<lanes, pushed, counter, cache, walked, source, lost, tokens, live, actions, raced>>
  BY DEF RetainElement
<1>4. actions' \in 0..MaxActions /\ raced' \subseteq Somewhere
  BY <1>3 DEF Sound, Typed
<1>5. CASE tree = NoTree
  <2>1. task' = [task EXCEPT ![k] = Idle] /\ UNCHANGED refs
    BY <1>5 DEF RetainElement, tree
  <2>2. refs' \in [Trees -> Int]
    BY <2>1 DEF Sound, Typed
  <2>3. task' \in [Tasks -> TaskStates] /\ task'[k].at = "idle" /\ \A j \in Tasks \ {k} : task'[j] = task[j]
    BY <2>1, Rested DEF Sound
  <2>4. WellPlaced(task'[k])
    BY <2>3 DEF WellPlaced
  <2> QED
    BY <1>1, <1>3, <1>4, <2>2, <2>3, <2>4, SoundAction
<1>6. CASE tree # NoTree
  <2>1. task' = [task EXCEPT ![k].at = "act", ![k].tree = tree] /\ refs' = Retained(refs, tree)
    BY <1>6 DEF RetainElement, tree
  <2>2. refs' \in [Trees -> Int]
    <3>1. refs \in [Trees -> Int]
      BY DEF Sound, Typed
    <3>2. refs' = [refs EXCEPT ![tree] = refs[tree] + 1]
      BY <2>1 DEF Retained
    <3> QED
      <4>1. refs[tree] + 1 \in Int
        <5>1. tree \in Trees
          BY <1>2, <1>6, BoundAssumption DEF Trees, NoTree
        <5>2. refs[tree] \in Int
          BY <3>1, <5>1
        <5> QED
          BY <5>2
      <4> QED
        BY <3>1, <3>2, <4>1, UpdateType
  <2>3. /\ task' \in [Tasks -> TaskStates] /\ task'[k].at = "act" /\ task'[k].tree = tree
        /\ \A j \in Tasks \ {k} : task'[j] = task[j]
    BY <1>2, <2>1, BeginsToAct DEF Sound
  <2>4. tree \in Trees
    BY <1>2, <1>6, BoundAssumption DEF Trees, NoTree
  <2>5. WellPlaced(task'[k])
    BY <2>3, <2>4 DEF WellPlaced
  <2> QED
    BY <1>1, <1>3, <1>4, <2>2, <2>3, <2>5, SoundAction
<1> QED
  BY <1>5, <1>6

\* A call that ends, with what its guard held.
LEMMA SoundEnds ==
    ASSUME Sound, NEW k \in Tasks, task[k].at \in {"resolved", "act", "stray"},
           task' = [task EXCEPT ![k] = Idle], refs' \in [Trees -> Int],
           UNCHANGED <<lanes, pushed, counter, cache, walked, source, lost, tokens, live, actions, raced>>
    PROVE  Sound'
<1>1. task' \in [Tasks -> TaskStates] /\ task'[k].at = "idle" /\ \A j \in Tasks \ {k} : task'[j] = task[j]
  BY Rested DEF Sound
<1>2. WellPlaced(task'[k])
  BY <1>1 DEF WellPlaced
<1>3. actions' \in 0..MaxActions /\ raced' \subseteq Somewhere
  BY DEF Sound, Typed
<1> QED
  BY <1>1, <1>2, <1>3, SoundAction

LEMMA ReleasedType ==
    ASSUME Typed, NEW tree, refs' = Released(refs, tree) PROVE refs' \in [Trees -> Int]
BY DEF Released, Typed

LEMMA SoundRelease ==
    ASSUME Sound, NEW k \in Tasks, ReleaseElement(k) PROVE Sound'
<1>1. refs' \in [Trees -> Int]
  BY ReleasedType DEF ReleaseElement, Sound
<1> QED
  BY <1>1, SoundEnds DEF ReleaseElement, At

LEMMA SoundStrayEnds ==
    ASSUME Sound, NEW k \in Tasks, StrayEnds(k) PROVE Sound'
<1>1. refs' \in [Trees -> Int]
  BY DEF StrayEnds, Sound, Typed
<1> QED
  BY <1>1, SoundEnds DEF StrayEnds, At

\* What a cancelled action leaves: nothing, or its worker without its guard.
LEMMA DropEffect ==
    ASSUME Typed, NEW k \in Tasks, DropAction(k)
    PROVE  /\ UNCHANGED <<lanes, pushed, counter, cache, walked, source, lost, tokens, live, actions, raced>>
           /\ task' \in [Tasks -> TaskStates] /\ \A j \in Tasks \ {k} : task'[j] = task[j]
           /\ \/ task[k].at = "resolved" /\ task' = [task EXCEPT ![k] = Idle]
                 /\ task'[k].at = "idle" /\ UNCHANGED refs
              \/ /\ task[k].at = "act" /\ task'[k].at = "stray"
                 /\ task'[k].place = task[k].place /\ task'[k].token = task[k].token
                 /\ task'[k].tree = task[k].tree /\ refs' = Released(refs, task[k].tree)
<1>1. UNCHANGED <<lanes, pushed, counter, cache, walked, source, lost, tokens, live, actions, raced>>
  BY DEF DropAction
<1>2. CASE task[k].at = "resolved" /\ task' = [task EXCEPT ![k] = Idle] /\ UNCHANGED refs
  BY <1>1, <1>2, Rested
<1>3. CASE task[k].at = "act" /\ task' = [task EXCEPT ![k].at = "stray"]
           /\ refs' = Released(refs, task[k].tree)
  <2>1. "stray" \in Stages
    BY DEF Stages
  <2> QED
    BY <1>1, <1>3, <2>1, Moved
<1> QED
  BY <1>2, <1>3 DEF DropAction, At

LEMMA SoundDropAction ==
    ASSUME Sound, NEW k \in Tasks, DropAction(k) PROVE Sound'
<1>1. CASE task[k].at = "resolved" /\ task' = [task EXCEPT ![k] = Idle] /\ UNCHANGED refs
  <2>1. refs' \in [Trees -> Int]
    BY <1>1 DEF Sound, Typed
  <2> QED
    BY <1>1, <2>1, SoundEnds DEF DropAction
<1>2. CASE /\ task[k].at = "act" /\ task'[k].at = "stray" /\ task'[k].tree = task[k].tree
           /\ refs' = Released(refs, task[k].tree)
  <2>1. WellPlaced(task'[k])
    BY <1>2 DEF WellPlaced, Sound, Typed
  <2>2. refs' \in [Trees -> Int]
    BY <1>2, ReleasedType DEF Sound
  <2>3. /\ UNCHANGED <<lanes, pushed, counter, cache, walked, source, lost, tokens, live, actions, raced>>
        /\ task' \in [Tasks -> TaskStates] /\ \A j \in Tasks \ {k} : task'[j] = task[j]
    BY DropEffect DEF Sound
  <2>4. actions' \in 0..MaxActions /\ raced' \subseteq Somewhere
    BY <2>3 DEF Sound, Typed
  <2> QED
    BY <1>2, <2>1, <2>2, <2>3, <2>4, SoundAction
<1> QED
  BY <1>1, <1>2, DropEffect DEF Sound

LEMMA SoundClear ==
    ASSUME Sound, NEW sc \in Scopes, ClearRuntimeScope(sc) PROVE Sound'
<1>1. lanes' \in [Scopes -> SUBSET Entries] /\ live' \subseteq Scopes
  BY DEF ClearRuntimeScope, Sound, Typed
<1>2. Typed'
  BY <1>1 DEF ClearRuntimeScope, Sound, Typed
<1>3. Counted'
  BY CountedKeeps DEF ClearRuntimeScope, Sound, Unregistered
<1> QED
  BY <1>2, <1>3 DEF Sound

\* One case for each action, in the places they occur at.
Acts ==
    \/ \E k \in Tasks, sc \in Scopes, w \in Windows : Walk(k, Place(sc, w))
    \/ \E k \in Tasks, sc \in Scopes, w \in Windows : ForgetTree(k, Place(sc, w))
    \/ \E k \in Tasks, sc \in Scopes, token \in tokens : ResolveToken(k, sc, token)
    \/ \E k \in Tasks : \/ UpdateCache(k) \/ LoseTree(k) \/ DropSnapshot(k)
                        \/ MintSnapshot(k) \/ RegisterSnapshot(k)
                        \/ RetainElement(k) \/ ReleaseElement(k) \/ DropAction(k) \/ StrayEnds(k)
    \/ \E sc \in Scopes : ClearRuntimeScope(sc)

LEMMA NextActs == Next => Acts
BY Zenon DEF Next, Acts

LEMMA SoundNext == Sound /\ [Next]_vars => Sound'
<1> SUFFICES ASSUME Sound, [Next]_vars PROVE Sound'
  OBVIOUS
<1>1. CASE Acts
  BY <1>1, SoundWalk, SoundForget, SoundResolve, SoundUpdate, SoundLeaves, SoundMint, SoundRegister,
     SoundRetain, SoundRelease, SoundDropAction, SoundStrayEnds, SoundClear DEF Acts
<1>2. CASE UNCHANGED vars
  BY <1>2 DEF vars, Sound, Typed, WellPlaced, Counted, Unregistered
<1> QED
  BY <1>1, <1>2, NextActs

LEMMA AlwaysSound == Spec => []Sound
BY SoundInit, SoundNext, PTL DEF Spec

-----------------------------------------------------------------------------
(* Where trees come from, and which snapshots the lanes speak of.            *)

CacheSourced ==
    \A sc \in Scopes, w \in Windows :
        cache[sc][w] # NoTree => /\ cache[sc][w] \in 1..walked /\ cache[sc][w] \notin lost
                                 /\ source[cache[sc][w]] = Place(sc, w)

CallSourced(c) ==
    /\ c.at \in {"walked", "capture", "minted"} => c.tree \in 1..walked /\ source[c.tree] = c.place
    /\ c.at = "resolved" => c.token \in tokens /\ source[c.token.tree] = c.place
    /\ c.at \in {"act", "stray"} => /\ c.tree \in 1..walked /\ c.token \in tokens
                                    /\ source[c.tree] = source[c.token.tree]

TokensSourced ==
    \A a \in tokens : /\ a.tree \in 1..walked /\ a.id < counter
                      /\ \A b \in tokens : a.id = b.id => a = b

LanesSourced ==
    \A sc \in Scopes : \A e \in lanes[sc] :
        \E a \in tokens : a.id = e.id /\ source[a.tree] = Place(sc, e.window)

\* A tree that is on its way to the cache is nowhere else.
Fresh(k) ==
    task[k].at = "walked" =>
        /\ task[k].tree \notin lost
        /\ \A sc \in Scopes, w \in Windows : cache[sc][w] # task[k].tree
        /\ \A j \in Tasks : task[j].at = "walked" /\ task[j].tree = task[k].tree => j = k

\* An identifier that is minted and not yet registered is no one else's.
MintedFresh(k) ==
    task[k].at = "minted" =>
        /\ task[k].token.tree = task[k].tree /\ task[k].token.id < counter
        /\ \A a \in tokens : a.id # task[k].token.id
        /\ \A j \in Tasks : task[j].at = "minted" /\ task[j].token.id = task[k].token.id => j = k

Placed ==
    /\ CacheSourced /\ TokensSourced /\ LanesSourced /\ lost \subseteq 1..walked
    /\ \A k \in Tasks : CallSourced(task[k]) /\ Fresh(k) /\ MintedFresh(k)

LEMMA PlacedInit == Init => Placed
<1> SUFFICES ASSUME Init PROVE Placed
  OBVIOUS
<1>1. CacheSourced
  BY DEF Init, CacheSourced
<1>2. TokensSourced /\ LanesSourced /\ lost \subseteq 1..walked
  BY DEF Init, TokensSourced, LanesSourced
<1>3. \A k \in Tasks : CallSourced(task[k]) /\ Fresh(k) /\ MintedFresh(k)
  BY DEF Init, Idle, Task, CallSourced, Fresh, MintedFresh
<1> QED
  BY <1>1, <1>2, <1>3 DEF Placed

\* No identifier is minted or registered.
LEMMA MintedKeeps ==
    ASSUME Placed, UNCHANGED <<counter, tokens>>,
           \A j \in Tasks : task'[j].at = "minted" => task'[j] = task[j]
    PROVE  \A j \in Tasks : MintedFresh(j)'
BY DEF Placed, MintedFresh

\* One call goes on, and its tree, if it has one, is no longer fresh.
LEMMA PlacedMoves ==
    ASSUME Placed, NEW k \in Tasks, \A j \in Tasks \ {k} : task'[j] = task[j],
           task'[k].at \notin {"walked", "minted"}, CallSourced(task'[k]),
           UNCHANGED <<lanes, counter, cache, walked, source, lost, tokens>>
    PROVE  Placed'
<1>1. \A j \in Tasks : CallSourced(task[j])'
  BY DEF Placed, CallSourced
<1>2. \A j \in Tasks : Fresh(j)'
  BY DEF Placed, Fresh
<1>3. CacheSourced' /\ TokensSourced' /\ LanesSourced' /\ (lost \subseteq 1..walked)'
  BY DEF Placed, CacheSourced, TokensSourced, LanesSourced
<1>4. \A j \in Tasks : MintedFresh(j)'
  BY MintedKeeps
<1> QED
  BY <1>1, <1>2, <1>3, <1>4 DEF Placed

LEMMA PlacedWalk ==
    ASSUME Sound, Placed, NEW k \in Tasks, NEW sc \in Scopes, NEW w \in Windows,
           Walk(k, Place(sc, w))
    PROVE  Placed'
<1> DEFINE p == Place(sc, w)
<1>1. p \in Somewhere
  BY PlaceType
<1>2. /\ walked' = walked + 1 /\ source' = [source EXCEPT ![walked'] = p]
      /\ task' = [task EXCEPT ![k] = Task("walked", p, NoToken, walked')]
      /\ UNCHANGED <<lanes, counter, cache, lost, tokens>>
  BY DEF Walk
<1> HIDE DEF p
<1>3. walked \in Nat /\ walked' \in Trees /\ walked' \in 0..MaxWalks
  BY BoundAssumption DEF Walk, Sound, Typed, Trees
<1>4. /\ walked' \notin 1..walked /\ 1..walked \subseteq 1..walked' /\ walked' \in 1..walked'
      /\ walked' # NoTree
  BY <1>2, <1>3 DEF NoTree
<1>5. source'[walked'] = p /\ \A t \in 1..walked : source'[t] = source[t]
  BY <1>2, <1>3, <1>4 DEF Sound, Typed
<1>6. /\ task'[k].at = "walked" /\ task'[k].place = p /\ task'[k].tree = walked'
      /\ \A j \in Tasks \ {k} : task'[j] = task[j]
  <2>1. "walked" \in Stages /\ NoToken \in Handles \cup {NoToken}
    BY DEF Stages
  <2> QED
    BY <1>1, <1>2, <1>3, <2>1, Renewed DEF Sound
<1>7. CacheSourced'
  BY <1>2, <1>4, <1>5 DEF Placed, CacheSourced
<1>8. TokensSourced' /\ (lost \subseteq 1..walked)'
  BY <1>2, <1>4 DEF Placed, TokensSourced
<1>9. LanesSourced'
  BY <1>2, <1>5 DEF Placed, LanesSourced, TokensSourced
<1>10. ASSUME NEW j \in Tasks PROVE CallSourced(task[j])'
  <2>1. CASE j = k
    BY <1>4, <1>5, <1>6, <2>1 DEF CallSourced
  <2>2. CASE j # k
    <3>1. task'[j] = task[j] /\ CallSourced(task[j])
      BY <1>6, <2>2 DEF Placed
    <3>2. \A a \in tokens : source'[a.tree] = source[a.tree]
      BY <1>5 DEF Placed, TokensSourced
    <3> QED
      BY <1>2, <1>4, <1>5, <3>1, <3>2 DEF CallSourced
  <2> QED
    BY <2>1, <2>2
<1>11. ASSUME NEW j \in Tasks PROVE Fresh(j)'
  <2>1. walked' \notin lost /\ \A s \in Scopes, v \in Windows : cache[s][v] # walked'
    BY <1>4 DEF Placed, CacheSourced
  <2>2. \A i \in Tasks : task[i].at = "walked" => task[i].tree # walked'
    BY <1>4 DEF Placed, CallSourced
  <2>3. CASE j = k
    BY <1>2, <1>6, <2>1, <2>2, <2>3 DEF Fresh
  <2>4. CASE j # k
    BY <1>2, <1>6, <2>2, <2>4 DEF Placed, Fresh
  <2> QED
    BY <2>3, <2>4
<1>12. \A j \in Tasks : MintedFresh(j)'
  BY <1>2, <1>6, MintedKeeps
<1> QED
  BY <1>7, <1>8, <1>9, <1>10, <1>11, <1>12 DEF Placed

\* What the cache holds after one of its entries was replaced.
LEMMA Replaced ==
    ASSUME Sound, NEW p, Located(p), NEW tree, Replace(p, tree)
    PROVE  /\ cache'[p.scope][p.window] = tree
           /\ \A sc \in Scopes, w \in Windows :
                 ~(sc = p.scope /\ w = p.window) => cache'[sc][w] = cache[sc][w]
BY DEF Replace, Located, Sound, Typed

LEMMA PlaceOf ==
    ASSUME NEW p \in Somewhere PROVE Place(p.scope, p.window) = p
BY DEF Place, Somewhere

LEMMA PlacedUpdate ==
    ASSUME Sound, Placed, NEW k \in Tasks, UpdateCache(k) PROVE Placed'
<1> DEFINE p == task[k].place
           T == task[k].tree
<1>1. /\ task[k].at = "walked" /\ Located(p) /\ p \in Somewhere
      /\ T \in 1..walked /\ source[T] = p /\ T \notin lost
  BY TaskFields DEF UpdateCache, At, Sound, Typed, WellPlaced, Placed, CallSourced, Fresh
<1>2. Replace(p, T) /\ UNCHANGED <<lanes, counter, walked, source, lost, tokens>>
  BY DEF UpdateCache
<1>3. /\ cache'[p.scope][p.window] = T
      /\ \A sc \in Scopes, w \in Windows :
            ~(sc = p.scope /\ w = p.window) => cache'[sc][w] = cache[sc][w]
  BY <1>1, <1>2, Replaced
<1>4. /\ task'[k].at = "capture" /\ task'[k].place = p /\ task'[k].tree = T
      /\ \A j \in Tasks \ {k} : task'[j] = task[j]
  BY Moved DEF UpdateCache, Sound, Stages
<1>5. Place(p.scope, p.window) = p
  BY <1>1, PlaceOf
<1>6. \A j \in Tasks \ {k} : task[j].at = "walked" => task[j].tree # T
  BY <1>1 DEF Placed, Fresh
<1> HIDE DEF p, T
<1>7. CacheSourced'
  BY <1>1, <1>2, <1>3, <1>5 DEF Placed, CacheSourced
<1>8. TokensSourced' /\ LanesSourced' /\ (lost \subseteq 1..walked)'
  BY <1>2 DEF Placed, TokensSourced, LanesSourced
<1>9. \A j \in Tasks : CallSourced(task[j])'
  BY <1>1, <1>2, <1>4 DEF Placed, CallSourced
<1>10. \A j \in Tasks : Fresh(j)'
  BY <1>2, <1>3, <1>4, <1>6 DEF Placed, Fresh
<1>11. \A j \in Tasks : MintedFresh(j)'
  BY <1>2, <1>4, MintedKeeps
<1> QED
  BY <1>7, <1>8, <1>9, <1>10, <1>11 DEF Placed

LEMMA PlacedLose ==
    ASSUME Sound, Placed, NEW k \in Tasks, LoseTree(k) PROVE Placed'
<1> DEFINE T == task[k].tree
<1>1. /\ T \in 1..walked /\ \A sc \in Scopes, w \in Windows : cache[sc][w] # T
      /\ \A j \in Tasks \ {k} : task[j].at = "walked" => task[j].tree # T
  BY DEF LoseTree, At, Placed, CallSourced, Fresh
<1>2. lost' = lost \cup {T} /\ UNCHANGED <<lanes, counter, cache, walked, source, tokens>>
  BY DEF LoseTree
<1>3. task'[k].at = "idle" /\ \A j \in Tasks \ {k} : task'[j] = task[j]
  BY Rested DEF LoseTree, Sound
<1> HIDE DEF T
<1>4. CacheSourced'
  BY <1>1, <1>2 DEF Placed, CacheSourced
<1>5. TokensSourced' /\ LanesSourced' /\ (lost \subseteq 1..walked)'
  BY <1>1, <1>2 DEF Placed, TokensSourced, LanesSourced
<1>6. \A j \in Tasks : CallSourced(task[j])'
  BY <1>2, <1>3 DEF Placed, CallSourced
<1>7. \A j \in Tasks : Fresh(j)'
  BY <1>1, <1>2, <1>3 DEF Placed, Fresh
<1>8. \A j \in Tasks : MintedFresh(j)'
  BY <1>2, <1>3, MintedKeeps
<1> QED
  BY <1>4, <1>5, <1>6, <1>7, <1>8 DEF Placed

LEMMA PlacedForget ==
    ASSUME Sound, Placed, NEW k \in Tasks, NEW sc \in Scopes, NEW w \in Windows,
           ForgetTree(k, Place(sc, w))
    PROVE  Placed'
<1> DEFINE p == Place(sc, w)
<1>1. Located(p) /\ Replace(p, NoTree)
      /\ UNCHANGED <<lanes, counter, walked, source, lost, tokens, task>>
  BY PlaceType DEF ForgetTree
<1> HIDE DEF p
<1>2. \A s \in Scopes, v \in Windows : cache'[s][v] \in {NoTree, cache[s][v]}
  BY <1>1, Replaced
<1>3. \A j \in Tasks : task[j].at = "walked" => task[j].tree # NoTree
  BY DEF Placed, CallSourced, NoTree, Sound, Typed, WellPlaced, Trees
<1>4. CacheSourced' /\ TokensSourced' /\ LanesSourced' /\ (lost \subseteq 1..walked)'
  BY <1>1, <1>2 DEF Placed, CacheSourced, TokensSourced, LanesSourced
<1>5. \A j \in Tasks : CallSourced(task[j])' /\ Fresh(j)'
  BY <1>1, <1>2, <1>3 DEF Placed, CallSourced, Fresh
<1>6. \A j \in Tasks : MintedFresh(j)'
  BY <1>1, MintedKeeps
<1> QED
  BY <1>4, <1>5, <1>6 DEF Placed

\* What a mint does, with the token by name.
LEMMA MintEffect ==
    ASSUME Sound, Placed, NEW k \in Tasks, MintSnapshot(k),
           NEW a, a = Token(counter, task[k].tree)
    PROVE  /\ task[k].at = "capture" /\ a.id = counter /\ a.tree = task[k].tree
           /\ counter \in Nat /\ counter' = counter + 1
           /\ task'[k].at = "minted" /\ task'[k].token = a
           /\ task'[k].tree = task[k].tree /\ task'[k].place = task[k].place
           /\ \A j \in Tasks \ {k} : task'[j] = task[j]
           /\ UNCHANGED <<lanes, cache, refs, walked, source, lost, tokens, raced>>
<1>1. task[k].at = "capture" /\ k \in Unregistered /\ task[k].tree \in Trees
  BY DEF MintSnapshot, At, Sound, Typed, WellPlaced, Unregistered
<1>2. counter \in 1..MaxWalks /\ counter \in Nat /\ counter' = counter + 1
  BY <1>1, NextIdIsNew DEF MintSnapshot, Sound
<1>3. a \in Handles /\ a.id = counter /\ a.tree = task[k].tree
  BY <1>1, <1>2 DEF Token, Handles
<1>4. task' = [task EXCEPT ![k].at = "minted", ![k].token = a]
  BY DEF MintSnapshot
<1> QED
  BY <1>1, <1>2, <1>3, <1>4, GetsToken DEF MintSnapshot, Sound

LEMMA PlacedMint ==
    ASSUME Sound, Placed, NEW k \in Tasks, MintSnapshot(k) PROVE Placed'
<1>0. PICK a : a = Token(counter, task[k].tree)
  OBVIOUS
<1>1. /\ task[k].at = "capture" /\ a.id = counter /\ a.tree = task[k].tree
      /\ counter \in Nat /\ counter' = counter + 1
      /\ task'[k].at = "minted" /\ task'[k].token = a
      /\ task'[k].tree = task[k].tree /\ task'[k].place = task[k].place
      /\ \A j \in Tasks \ {k} : task'[j] = task[j]
      /\ UNCHANGED <<lanes, cache, walked, source, lost, tokens>>
  BY <1>0, MintEffect
<1>2. /\ \A b \in tokens : b.id \in Nat /\ b.id < counter
      /\ \A j \in Tasks : task[j].at = "minted" => task[j].token.id \in Nat /\ task[j].token.id < counter
  BY DEF Sound, Typed, WellPlaced, Handles, Placed, TokensSourced, MintedFresh
<1>3. CacheSourced' /\ LanesSourced' /\ (lost \subseteq 1..walked)'
  BY <1>1 DEF Placed, CacheSourced, LanesSourced
<1>4. TokensSourced'
  BY <1>1, <1>2 DEF Placed, TokensSourced
<1>5. \A j \in Tasks : CallSourced(task[j])'
  BY <1>1 DEF Placed, CallSourced
<1>6. \A j \in Tasks : Fresh(j)'
  BY <1>1 DEF Placed, Fresh
<1>7. ASSUME NEW j \in Tasks PROVE MintedFresh(j)'
  <2>1. CASE j = k
    BY <1>1, <1>2, <2>1 DEF MintedFresh
  <2>2. CASE j # k
    BY <1>1, <1>2, <2>2 DEF Placed, MintedFresh
  <2> QED
    BY <2>1, <2>2
<1> QED
  BY <1>3, <1>4, <1>5, <1>6, <1>7 DEF Placed

\* What a registration does, with the place, the token and the entry by name.
LEMMA RegisterEffect ==
    ASSUME Sound, Placed, NEW k \in Tasks, RegisterSnapshot(k),
           NEW p, p = task[k].place, NEW a, a = task[k].token,
           NEW e, e = Entry(a.id, p.window, pushed)
    PROVE  /\ task[k].at = "minted" /\ Located(p) /\ p \in Somewhere /\ Place(p.scope, p.window) = p
           /\ a \in Handles /\ a.tree = task[k].tree /\ a.id < counter
           /\ a.tree \in 1..walked /\ source[a.tree] = p
           /\ \A b \in tokens : b.id # a.id
           /\ tokens' = tokens \cup {a}
           /\ e \in Entries /\ e.id = a.id /\ e.window = p.window
           /\ \A sc \in Scopes \ {p.scope} : lanes'[sc] = lanes[sc]
           /\ lanes'[p.scope] = Registered(lanes[p.scope], e)
           /\ \A f \in lanes'[p.scope] : (f \in lanes[p.scope] /\ f.window # p.window) \/ f = e
           /\ task'[k].at = "idle" /\ \A j \in Tasks \ {k} : task'[j] = task[j]
           /\ UNCHANGED <<counter, cache, refs, walked, source, lost, raced>>
<1>1. task[k].at = "minted" /\ Located(p) /\ p \in Somewhere /\ a \in Handles
  BY TaskFields DEF RegisterSnapshot, At, Sound, Typed, WellPlaced
<1>2. a.tree = task[k].tree /\ a.id < counter /\ \A b \in tokens : b.id # a.id
  BY <1>1 DEF Placed, MintedFresh
<1>3. a.tree \in 1..walked /\ source[a.tree] = p
  BY <1>1, <1>2 DEF Placed, CallSourced
<1>4. task'[k].at = "idle" /\ \A j \in Tasks \ {k} : task'[j] = task[j]
  BY Rested DEF RegisterSnapshot, Sound
<1>5. lanes[p.scope] \in SUBSET Entries /\ p.scope \in Scopes
  BY <1>1 DEF Located, Sound, Typed
<1>6. e \in Entries /\ e.id = a.id /\ e.window = p.window
  BY <1>1 DEF Entry, Entries, Handles, Located, Sound, Typed
<1> DEFINE R == Registered(lanes[p.scope], e)
<1>7. \A f \in R : (f \in lanes[p.scope] /\ f.window # p.window) \/ f = e
  BY <1>5, <1>6, RegisteredEntries
<1>8. lanes' = [lanes EXCEPT ![p.scope] = R]
  BY <1>5 DEF RegisterSnapshot
<1> HIDE DEF R
<1>9. lanes'[p.scope] = R /\ \A sc \in Scopes \ {p.scope} : lanes'[sc] = lanes[sc]
  BY <1>5, <1>8 DEF Sound, Typed
<1>10. tokens' = tokens \cup {a} /\ UNCHANGED <<counter, cache, refs, walked, source, lost, raced>>
  BY DEF RegisterSnapshot
<1>11. Place(p.scope, p.window) = p
  BY <1>1, PlaceOf
<1>12. lanes'[p.scope] = Registered(lanes[p.scope], e)
  BY <1>9 DEF R
<1> QED
  BY <1>1, <1>2, <1>3, <1>4, <1>6, <1>7, <1>9, <1>10, <1>11, <1>12

LEMMA PlacedRegister ==
    ASSUME Sound, Placed, NEW k \in Tasks, RegisterSnapshot(k) PROVE Placed'
<1>0. PICK p, a, e : p = task[k].place /\ a = task[k].token /\ e = Entry(a.id, p.window, pushed)
  OBVIOUS
<1>1. /\ task[k].at = "minted" /\ Place(p.scope, p.window) = p /\ p.scope \in Scopes
      /\ a \in Handles /\ a.id < counter /\ a.tree \in 1..walked /\ source[a.tree] = p
      /\ \A b \in tokens : b.id # a.id
      /\ tokens' = tokens \cup {a} /\ e.id = a.id /\ e.window = p.window
      /\ \A sc \in Scopes \ {p.scope} : lanes'[sc] = lanes[sc]
      /\ \A f \in lanes'[p.scope] : (f \in lanes[p.scope] /\ f.window # p.window) \/ f = e
      /\ task'[k].at = "idle" /\ \A j \in Tasks \ {k} : task'[j] = task[j]
      /\ UNCHANGED <<counter, cache, walked, source, lost>>
  BY <1>0, RegisterEffect DEF Located
<1>2. CacheSourced' /\ (lost \subseteq 1..walked)'
  BY <1>1 DEF Placed, CacheSourced
<1>3. TokensSourced'
  BY <1>1 DEF Placed, TokensSourced
<1>4. LanesSourced'
  <2> SUFFICES ASSUME NEW sc \in Scopes, NEW f \in lanes'[sc]
               PROVE  \E b \in tokens' : b.id = f.id /\ source'[b.tree] = Place(sc, f.window)
    BY DEF LanesSourced
  <2>1. CASE f \in lanes[sc]
    BY <1>1, <2>1 DEF Placed, LanesSourced
  <2>2. CASE f \notin lanes[sc]
    <3>1. sc = p.scope /\ f = e
      BY <1>1, <2>2
    <3> QED
      BY <1>1, <3>1
  <2> QED
    BY <2>1, <2>2
<1>5. \A j \in Tasks : CallSourced(task[j])'
  BY <1>1 DEF Placed, CallSourced
<1>6. \A j \in Tasks : Fresh(j)'
  BY <1>1 DEF Placed, Fresh
<1>7. \A j \in Tasks : MintedFresh(j)'
  BY <1>0, <1>1 DEF Placed, MintedFresh
<1> QED
  BY <1>2, <1>3, <1>4, <1>5, <1>6, <1>7 DEF Placed

\* A token that resolves names the place it was made for.
LEMMA ResolveEffect ==
    ASSUME Sound, Placed, NEW k \in Tasks, NEW sc \in Scopes, NEW token \in tokens,
           ResolveToken(k, sc, token)
    PROVE  \E e \in lanes[sc] :
              /\ e.id = token.id /\ e.window \in Windows /\ source[token.tree] = Place(sc, e.window)
              /\ task'[k].at = "resolved" /\ task'[k].place = Place(sc, e.window)
              /\ task'[k].token = token /\ \A j \in Tasks \ {k} : task'[j] = task[j]
              /\ raced' = IF Busy(k, Place(sc, e.window), Capture)
                          THEN raced \cup {Place(sc, e.window)} ELSE raced
<1>1. PICK e \in lanes[sc] :
         /\ e.id = token.id
         /\ task' = [task EXCEPT ![k] = Task("resolved", Place(sc, e.window), token, NoTree)]
         /\ raced' = IF Busy(k, Place(sc, e.window), Capture)
                     THEN raced \cup {Place(sc, e.window)} ELSE raced
  BY DEF ResolveToken, Lane
<1>2. e.window \in Windows /\ token \in Handles
  BY DEF Sound, Typed, Entries
<1> DEFINE p == Place(sc, e.window)
<1>3. p \in Somewhere
  BY <1>2, PlaceType
<1>4. source[token.tree] = p
  BY <1>1 DEF Placed, LanesSourced, TokensSourced
<1>5. task' = [task EXCEPT ![k] = Task("resolved", p, token, NoTree)]
  BY <1>1
<1> HIDE DEF p
<1>6. "resolved" \in Stages /\ NoTree \in 0..MaxWalks
  BY BoundAssumption DEF Stages, NoTree
<1>7. /\ task'[k].at = "resolved" /\ task'[k].place = p /\ task'[k].token = token
      /\ \A j \in Tasks \ {k} : task'[j] = task[j]
  BY <1>2, <1>3, <1>5, <1>6, Renewed DEF Sound
<1> QED
  BY <1>1, <1>2, <1>4, <1>7 DEF p

LEMMA PlacedResolve ==
    ASSUME Sound, Placed, NEW k \in Tasks, NEW sc \in Scopes, NEW token \in tokens,
           ResolveToken(k, sc, token)
    PROVE  Placed'
<1>1. /\ task'[k].at = "resolved" /\ task'[k].token = token /\ task'[k].place = source[token.tree]
      /\ \A j \in Tasks \ {k} : task'[j] = task[j]
  BY ResolveEffect
<1>2. CallSourced(task'[k])
  BY <1>1 DEF CallSourced
<1> QED
  BY <1>1, <1>2, PlacedMoves DEF ResolveToken

\* The element an action gets hold of.
LEMMA RetainEffect ==
    ASSUME Sound, NEW k \in Tasks, RetainElement(k), NEW tree, tree = Cached(task[k].place)
    PROVE  /\ task[k].at = "resolved" /\ Located(task[k].place) /\ task[k].place \in Somewhere
           /\ \A j \in Tasks \ {k} : task'[j] = task[j]
           /\ \/ task'[k].at = "idle" /\ UNCHANGED refs
              \/ /\ tree \in Trees /\ refs' = Retained(refs, tree)
                 /\ task'[k].at = "act" /\ task'[k].tree = tree
                 /\ task'[k].token = task[k].token /\ task'[k].place = task[k].place
<1>1. task[k].at = "resolved" /\ Located(task[k].place) /\ task[k].place \in Somewhere
  BY TaskFields DEF RetainElement, At, Sound, Typed, WellPlaced
<1>2. tree \in 0..MaxWalks
  BY <1>1 DEF Cached, Located, Sound, Typed
<1>3. CASE tree = NoTree
  BY <1>1, <1>3, Rested DEF RetainElement, Sound
<1>4. CASE tree # NoTree
  <2>1. task' = [task EXCEPT ![k].at = "act", ![k].tree = tree] /\ refs' = Retained(refs, tree)
    BY <1>4 DEF RetainElement
  <2>2. tree \in Trees
    BY <1>2, <1>4, BoundAssumption DEF Trees, NoTree
  <2> QED
    BY <1>1, <1>2, <2>1, <2>2, BeginsToAct DEF Sound
<1> QED
  BY <1>3, <1>4

LEMMA PlacedRetain ==
    ASSUME Sound, Placed, NEW k \in Tasks, RetainElement(k) PROVE Placed'
<1> DEFINE p == task[k].place
           tree == Cached(p)
<1>1. /\ task[k].at = "resolved" /\ Located(p) /\ p \in Somewhere
      /\ \A j \in Tasks \ {k} : task'[j] = task[j]
      /\ \/ task'[k].at = "idle"
         \/ /\ tree \in Trees /\ task'[k].at = "act" /\ task'[k].tree = tree
            /\ task'[k].token = task[k].token
  BY RetainEffect
<1>2. task[k].token \in tokens /\ source[task[k].token.tree] = p
  BY <1>1 DEF Placed, CallSourced
<1>3. tree \in Trees => tree \in 1..walked /\ source[tree] = p
  <2>1. Place(p.scope, p.window) = p
    BY <1>1, PlaceOf
  <2>2. tree \in Trees => tree # NoTree
    BY DEF Trees, NoTree
  <2> QED
    BY <1>1, <2>1, <2>2 DEF Placed, CacheSourced, Cached, Located
<1>4. UNCHANGED <<lanes, counter, cache, walked, source, lost, tokens>>
  BY DEF RetainElement
<1> HIDE DEF p, tree
<1>5. CallSourced(task'[k]) /\ task'[k].at \notin {"walked", "minted"}
  BY <1>1, <1>2, <1>3 DEF CallSourced
<1> QED
  BY <1>1, <1>4, <1>5, PlacedMoves

LEMMA PlacedLeaves ==
    ASSUME Sound, Placed, NEW k \in Tasks, DropSnapshot(k) \/ ReleaseElement(k) \/ StrayEnds(k)
    PROVE  Placed'
<1>1. task' = [task EXCEPT ![k] = Idle]
      /\ UNCHANGED <<lanes, counter, cache, walked, source, lost, tokens>>
  BY DEF DropSnapshot, ReleaseElement, StrayEnds
<1>2. task'[k].at = "idle" /\ \A j \in Tasks \ {k} : task'[j] = task[j]
  BY <1>1, Rested DEF Sound
<1>3. CallSourced(task'[k])
  BY <1>2 DEF CallSourced
<1> QED
  BY <1>1, <1>2, <1>3, PlacedMoves

LEMMA PlacedDropAction ==
    ASSUME Sound, Placed, NEW k \in Tasks, DropAction(k) PROVE Placed'
<1>1. UNCHANGED <<lanes, counter, cache, walked, source, lost, tokens>>
      /\ \A j \in Tasks \ {k} : task'[j] = task[j]
  BY DropEffect DEF Sound
<1>2. \/ task'[k].at = "idle"
      \/ /\ task[k].at = "act" /\ task'[k].at = "stray"
         /\ task'[k].token = task[k].token /\ task'[k].tree = task[k].tree
  BY DropEffect DEF Sound
<1>3. CallSourced(task'[k]) /\ task'[k].at \notin {"walked", "minted"}
  BY <1>2 DEF Placed, CallSourced
<1> QED
  BY <1>1, <1>3, PlacedMoves

LEMMA PlacedClear ==
    ASSUME Sound, Placed, NEW sc \in Scopes, ClearRuntimeScope(sc) PROVE Placed'
<1>1. UNCHANGED <<counter, cache, walked, source, lost, tokens, task>>
  BY DEF ClearRuntimeScope
<1>2. \A s \in Scopes : lanes'[s] \subseteq lanes[s]
  BY DEF ClearRuntimeScope, Sound, Typed
<1>3. CacheSourced' /\ TokensSourced' /\ LanesSourced' /\ (lost \subseteq 1..walked)'
  BY <1>1, <1>2 DEF Placed, CacheSourced, TokensSourced, LanesSourced
<1>4. \A j \in Tasks : CallSourced(task[j])' /\ Fresh(j)'
  BY <1>1 DEF Placed, CallSourced, Fresh
<1>5. \A j \in Tasks : MintedFresh(j)'
  BY <1>1, MintedKeeps
<1> QED
  BY <1>3, <1>4, <1>5 DEF Placed

LEMMA PlacedNext == Sound /\ Placed /\ [Next]_vars => Placed'
<1> SUFFICES ASSUME Sound, Placed, [Next]_vars PROVE Placed'
  OBVIOUS
<1>1. CASE Acts
  BY <1>1, PlacedWalk, PlacedForget, PlacedResolve, PlacedUpdate, PlacedLose, PlacedLeaves,
     PlacedMint, PlacedRegister, PlacedRetain, PlacedDropAction, PlacedClear DEF Acts
<1>2. CASE UNCHANGED vars
  BY <1>2 DEF vars, Placed, CacheSourced, TokensSourced, LanesSourced, CallSourced, Fresh, MintedFresh
<1> QED
  BY <1>1, <1>2, NextActs

LEMMA AlwaysPlaced == Spec => []Placed
BY PlacedInit, PlacedNext, AlwaysSound, PTL DEF Spec

-----------------------------------------------------------------------------
(* On a window on which no snapshot meets another call, the cache has        *)
(* nothing but the tree the window's entry in the lane stands for.           *)

MayHold(p, tree) == Cached(p) \in {NoTree, tree}
Capturing(p) == \E k \in Tasks : task[k].at \in Capture /\ task[k].place = p

CapturesHeld ==
    \A k \in Tasks : task[k].at \in Capture /\ task[k].place \notin raced =>
        MayHold(task[k].place, task[k].tree)
LanesHeld ==
    \A sc \in Scopes : \A e \in lanes[sc], a \in tokens :
        a.id = e.id /\ Place(sc, e.window) \notin raced /\ ~Capturing(Place(sc, e.window)) =>
            MayHold(Place(sc, e.window), a.tree)
ResolvedHeld ==
    \A k \in Tasks : task[k].at = "resolved" /\ task[k].place \notin raced =>
        MayHold(task[k].place, task[k].token.tree)
ActsHit ==
    \A k \in Tasks : task[k].at \in {"act", "stray"} /\ task[k].place \notin raced =>
        task[k].tree = task[k].token.tree
Hits == CapturesHeld /\ LanesHeld /\ ResolvedHeld /\ ActsHit

LEMMA HitsInit == Init => Hits
BY DEF Init, Idle, Task, Capture, Hits, CapturesHeld, LanesHeld, ResolvedHeld, ActsHit

\* One call goes on and leaves the cache and the lanes as they are.  It begins no
\* capture and, unless its window is given up, ends none.
LEMMA HitsMoves ==
    ASSUME Hits, NEW k \in Tasks, \A j \in Tasks \ {k} : task'[j] = task[j],
           UNCHANGED <<lanes, cache, tokens>>, raced \subseteq raced',
           task'[k].at \in Capture =>
               /\ task[k].at \in Capture
               /\ task'[k].place = task[k].place /\ task'[k].tree = task[k].tree,
           task[k].at \in Capture => task'[k].at \in Capture \/ task[k].place \in raced',
           task'[k].at = "resolved" /\ task'[k].place \notin raced' =>
               MayHold(task'[k].place, task'[k].token.tree),
           task'[k].at \in {"act", "stray"} /\ task'[k].place \notin raced' =>
               task'[k].tree = task'[k].token.tree
    PROVE  Hits'
<1>1. \A p : Cached(p)' = Cached(p)
  BY DEF Cached
<1>2. \A p : Capturing(p) /\ p \notin raced' => Capturing(p)'
  <2> SUFFICES ASSUME NEW p, Capturing(p), p \notin raced' PROVE Capturing(p)'
    OBVIOUS
  <2>1. PICK j \in Tasks : task[j].at \in Capture /\ task[j].place = p
    BY DEF Capturing
  <2>2. task'[j].at \in Capture /\ task'[j].place = p
    BY <2>1
  <2> QED
    BY <2>2 DEF Capturing, Capture
<1>3. CapturesHeld'
  <2> SUFFICES ASSUME NEW j \in Tasks, task'[j].at \in Capture, task'[j].place \notin raced'
               PROVE  MayHold(task[j].place, task[j].tree)'
    BY DEF CapturesHeld, Capture, MayHold
  <2>1. task[j].at \in Capture /\ task'[j].place = task[j].place /\ task'[j].tree = task[j].tree
    OBVIOUS
  <2> QED
    BY <1>1, <2>1 DEF Hits, CapturesHeld, MayHold
<1>4. LanesHeld'
  BY <1>1, <1>2 DEF Hits, LanesHeld, MayHold
<1>5. ResolvedHeld'
  BY <1>1 DEF Hits, ResolvedHeld, MayHold
<1>6. ActsHit'
  BY DEF Hits, ActsHit
<1> QED
  BY <1>3, <1>4, <1>5, <1>6 DEF Hits

LEMMA HitsWalk ==
    ASSUME Sound, Placed, Hits, NEW k \in Tasks, NEW sc \in Scopes, NEW w \in Windows,
           Walk(k, Place(sc, w))
    PROVE  Hits'
<1> DEFINE p == Place(sc, w)
<1>1. task' = [task EXCEPT ![k] = Task("walked", p, NoToken, walked')]
      /\ UNCHANGED <<lanes, cache, tokens, raced>>
  BY DEF Walk
<1>2. p \in Somewhere
  BY PlaceType
<1>3. walked' \in 0..MaxWalks /\ "walked" \in Stages /\ NoToken \in Handles \cup {NoToken}
  BY BoundAssumption DEF Walk, Sound, Typed, Stages
<1> HIDE DEF p
<1>4. task'[k].at = "walked" /\ \A j \in Tasks \ {k} : task'[j] = task[j]
  BY <1>1, <1>2, <1>3, Renewed DEF Sound
<1>5. task[k].at = "idle"
  BY DEF Walk, At
<1> QED
  BY <1>1, <1>4, <1>5, HitsMoves DEF Capture

LEMMA HitsUpdate ==
    ASSUME Sound, Placed, Hits, NEW k \in Tasks, UpdateCache(k) PROVE Hits'
<1>0. PICK p, T : p = task[k].place /\ T = task[k].tree
  OBVIOUS
<1>1. task[k].at = "walked" /\ Located(p) /\ p \in Somewhere
  BY <1>0, TaskFields DEF UpdateCache, At, Sound, Typed, WellPlaced
<1>2. raced \subseteq raced' /\
      (p \notin raced' => \A j \in Tasks \ {k} : task[j].at \in Capture \cup {"resolved"} => task[j].place # p)
  BY <1>0 DEF UpdateCache, Busy
<1>3. Replace(p, T) /\ UNCHANGED <<lanes, tokens>>
  BY <1>0 DEF UpdateCache
<1>4. /\ task'[k].at = "capture" /\ task'[k].place = p /\ task'[k].tree = T
      /\ \A j \in Tasks \ {k} : task'[j] = task[j]
  BY <1>0, Moved DEF UpdateCache, Sound, Stages
<1>5. Cached(p)' = T
  BY <1>1, <1>3, Replaced DEF Cached
<1>6. \A q \in Somewhere : Located(q) /\ q # p => Cached(q)' = Cached(q)
  <2> SUFFICES ASSUME NEW q \in Somewhere, Located(q), q # p PROVE Cached(q)' = Cached(q)
    OBVIOUS
  <2>1. ~(q.scope = p.scope /\ q.window = p.window)
    BY <1>1, PlaceOf
  <2> QED
    BY <1>1, <1>3, <2>1, Replaced DEF Cached, Located
<1>7. \A j \in Tasks : task[j].at \in Capture \cup {"resolved"} =>
                          Located(task[j].place) /\ task[j].place \in Somewhere
  BY TaskFields DEF Sound, Typed, WellPlaced, Capture
<1>8. CapturesHeld'
  <2> SUFFICES ASSUME NEW j \in Tasks, task'[j].at \in Capture, task'[j].place \notin raced'
               PROVE  MayHold(task[j].place, task[j].tree)'
    BY DEF CapturesHeld, Capture, MayHold
  <2>1. CASE j = k
    BY <1>4, <1>5, <2>1 DEF MayHold
  <2>2. CASE j # k
    <3>1. task'[j] = task[j] /\ task[j].place # p
      BY <1>2, <1>4, <2>2
    <3>2. MayHold(task[j].place, task[j].tree)
      BY <1>2, <3>1 DEF Hits, CapturesHeld
    <3>3. Cached(task[j].place)' = Cached(task[j].place)
      BY <1>6, <1>7, <3>1
    <3> QED
      BY <3>1, <3>2, <3>3 DEF MayHold
  <2> QED
    BY <2>1, <2>2
<1>9. ResolvedHeld'
  <2> SUFFICES ASSUME NEW j \in Tasks, task'[j].at = "resolved", task'[j].place \notin raced'
               PROVE  MayHold(task[j].place, task[j].token.tree)'
    BY DEF ResolvedHeld
  <2>1. task'[j] = task[j] /\ task[j].place # p
    BY <1>2, <1>4
  <2>2. MayHold(task[j].place, task[j].token.tree)
    BY <1>2, <2>1 DEF Hits, ResolvedHeld
  <2>3. Cached(task[j].place)' = Cached(task[j].place)
    BY <1>6, <1>7, <2>1
  <2> QED
    BY <2>1, <2>2, <2>3 DEF MayHold
<1>10. ActsHit'
  BY <1>2, <1>4 DEF Hits, ActsHit
<1>11. LanesHeld'
  <2> SUFFICES ASSUME NEW sc \in Scopes, NEW e \in lanes[sc], NEW a \in tokens, a.id = e.id,
                      Place(sc, e.window) \notin raced', ~Capturing(Place(sc, e.window))'
               PROVE  MayHold(Place(sc, e.window), a.tree)'
    BY <1>3 DEF LanesHeld
  <2> DEFINE q == Place(sc, e.window)
  <2>1. q \in Somewhere /\ Located(q)
    BY PlaceType DEF Sound, Typed, Entries
  <2> HIDE DEF q
  <2>2. q # p /\ ~Capturing(q)
    BY <1>1, <1>4 DEF Capturing, Capture, q
  <2>3. MayHold(q, a.tree)
    BY <1>2, <2>2 DEF Hits, LanesHeld, q
  <2>4. MayHold(q, a.tree)'
    BY <1>6, <2>1, <2>2, <2>3 DEF MayHold
  <2> QED
    BY <2>4 DEF q
<1> QED
  BY <1>8, <1>9, <1>10, <1>11 DEF Hits

LEMMA HitsForget ==
    ASSUME Sound, Placed, Hits, NEW k \in Tasks, NEW sc \in Scopes, NEW w \in Windows,
           ForgetTree(k, Place(sc, w))
    PROVE  Hits'
<1>1. Located(Place(sc, w)) /\ Replace(Place(sc, w), NoTree)
      /\ UNCHANGED <<lanes, tokens, task, raced>>
  BY PlaceType DEF ForgetTree
<1>2. \A s \in Scopes, v \in Windows : cache'[s][v] \in {NoTree, cache[s][v]}
  BY <1>1, Replaced
<1>3. \A q, tree : Located(q) /\ MayHold(q, tree) => MayHold(q, tree)'
  BY <1>2 DEF MayHold, Cached, Located
<1>4. ActsHit' /\ \A q : Capturing(q)' <=> Capturing(q)
  BY <1>1 DEF Hits, ActsHit, Capturing, Capture
<1>5. \A j \in Tasks : task[j].at \in Capture \cup {"resolved"} => Located(task[j].place)
  BY DEF Sound, Typed, WellPlaced, Capture
<1>6. CapturesHeld' /\ ResolvedHeld'
  BY <1>1, <1>3, <1>5 DEF Hits, CapturesHeld, ResolvedHeld, Capture
<1>7. \A s \in Scopes : \A e \in lanes[s] : Located(Place(s, e.window))
  BY PlaceType DEF Sound, Typed, Entries
<1>8. LanesHeld'
  BY <1>1, <1>3, <1>4, <1>7 DEF Hits, LanesHeld
<1> QED
  BY <1>4, <1>6, <1>8 DEF Hits

LEMMA HitsMint ==
    ASSUME Sound, Placed, Hits, NEW k \in Tasks, MintSnapshot(k) PROVE Hits'
<1>1. /\ task[k].at = "capture" /\ task'[k].at = "minted"
      /\ task'[k].tree = task[k].tree /\ task'[k].place = task[k].place
      /\ \A j \in Tasks \ {k} : task'[j] = task[j]
      /\ UNCHANGED <<lanes, cache, tokens, raced>>
  BY MintEffect
<1> QED
  BY <1>1, HitsMoves DEF Capture

LEMMA HitsRegister ==
    ASSUME Sound, Placed, Hits, NEW k \in Tasks, RegisterSnapshot(k) PROVE Hits'
<1>0. PICK p, a, e : p = task[k].place /\ a = task[k].token /\ e = Entry(a.id, p.window, pushed)
  OBVIOUS
<1>1. /\ task[k].at = "minted" /\ Located(p) /\ Place(p.scope, p.window) = p
      /\ a.tree = task[k].tree /\ tokens' = tokens \cup {a} /\ \A b \in tokens : b.id # a.id
      /\ e.id = a.id /\ e.window = p.window
      /\ \A sc \in Scopes \ {p.scope} : lanes'[sc] = lanes[sc]
      /\ \A f \in lanes'[p.scope] : (f \in lanes[p.scope] /\ f.window # p.window) \/ f = e
      /\ task'[k].at = "idle" /\ \A j \in Tasks \ {k} : task'[j] = task[j]
      /\ UNCHANGED <<cache, raced>>
  BY <1>0, RegisterEffect
<1>2. \A q, tree : MayHold(q, tree)' <=> MayHold(q, tree)
  BY <1>1 DEF MayHold, Cached
<1>3. CapturesHeld'
  BY <1>1, <1>2 DEF Hits, CapturesHeld, Capture
<1>4. ResolvedHeld' /\ ActsHit'
  BY <1>1, <1>2 DEF Hits, ResolvedHeld, ActsHit
<1>5. LanesHeld'
  <2> SUFFICES ASSUME NEW sc \in Scopes, NEW f \in lanes'[sc], NEW b \in tokens', b.id = f.id,
                      Place(sc, f.window) \notin raced, ~Capturing(Place(sc, f.window))'
               PROVE  MayHold(Place(sc, f.window), b.tree)
    BY <1>1, <1>2 DEF LanesHeld
  <2> DEFINE q == Place(sc, f.window)
  <2>1. CASE ~(sc = p.scope /\ f.window = p.window)
    <3>1. f \in lanes[sc]
      BY <1>1, <2>1
    <3>2. b \in tokens
      BY <1>1, <3>1 DEF Placed, LanesSourced
    <3>3. q # p
      BY <2>1 DEF Place
    <3>4. ~Capturing(q)
      <4>1. task[k].place # q
        BY <1>0, <3>3
      <4> HIDE DEF q
      <4>2. ~Capturing(q)'
        BY DEF q
      <4> QED
        BY <1>1, <4>1, <4>2 DEF Capturing, Capture
    <3> QED
      BY <3>1, <3>2, <3>4 DEF Hits, LanesHeld
  <2>2. CASE sc = p.scope /\ f.window = p.window
    <3>1. f = e /\ b = a /\ q = p
      BY <1>1, <2>2 DEF Located
    <3>2. MayHold(p, a.tree)
      BY <1>0, <1>1, <3>1 DEF Hits, CapturesHeld, Capture
    <3> QED
      BY <3>1, <3>2
  <2> QED
    BY <2>1, <2>2
<1> QED
  BY <1>3, <1>4, <1>5 DEF Hits

LEMMA HitsResolve ==
    ASSUME Sound, Placed, Hits, NEW k \in Tasks, NEW sc \in Scopes, NEW token \in tokens,
           ResolveToken(k, sc, token)
    PROVE  Hits'
<1>1. PICK e \in lanes[sc] :
         /\ e.id = token.id
         /\ task'[k].at = "resolved" /\ task'[k].place = Place(sc, e.window)
         /\ task'[k].token = token /\ \A j \in Tasks \ {k} : task'[j] = task[j]
         /\ raced' = IF Busy(k, Place(sc, e.window), Capture)
                     THEN raced \cup {Place(sc, e.window)} ELSE raced
  BY ResolveEffect
<1>2. task[k].at = "idle" /\ UNCHANGED <<lanes, cache, tokens>> /\ raced \subseteq raced'
  BY <1>1 DEF ResolveToken, At
<1>3. Place(sc, e.window) \notin raced' => MayHold(Place(sc, e.window), token.tree)
  <2> SUFFICES ASSUME Place(sc, e.window) \notin raced' PROVE MayHold(Place(sc, e.window), token.tree)
    OBVIOUS
  <2>1. ~Busy(k, Place(sc, e.window), Capture)
    BY <1>1
  <2>2. ~Capturing(Place(sc, e.window))
    BY <1>2, <2>1 DEF Capturing, Busy, Capture
  <2> QED
    BY <1>1, <1>2, <2>2 DEF Hits, LanesHeld
<1> QED
  BY <1>1, <1>2, <1>3, HitsMoves DEF Capture

LEMMA HitsRetain ==
    ASSUME Sound, Placed, Hits, NEW k \in Tasks, RetainElement(k) PROVE Hits'
<1> DEFINE tree == Cached(task[k].place)
<1>1. /\ task[k].at = "resolved" /\ \A j \in Tasks \ {k} : task'[j] = task[j]
      /\ \/ task'[k].at = "idle"
         \/ /\ tree \in Trees /\ task'[k].at = "act" /\ task'[k].tree = tree
            /\ task'[k].token = task[k].token /\ task'[k].place = task[k].place
  BY RetainEffect
<1>2. UNCHANGED <<lanes, cache, tokens, raced>>
  BY DEF RetainElement
<1>3. task[k].place \notin raced => tree \in {NoTree, task[k].token.tree}
  BY <1>1 DEF Hits, ResolvedHeld, MayHold
<1>4. tree \in Trees /\ task[k].place \notin raced => tree = task[k].token.tree
  BY <1>3 DEF Trees, NoTree
<1> QED
  BY <1>1, <1>2, <1>4, HitsMoves DEF Capture

LEMMA HitsLeaves ==
    ASSUME Sound, Placed, Hits, NEW k \in Tasks,
           LoseTree(k) \/ DropSnapshot(k) \/ ReleaseElement(k) \/ StrayEnds(k)
    PROVE  Hits'
<1>1. /\ task' = [task EXCEPT ![k] = Idle] /\ UNCHANGED <<lanes, cache, tokens>>
      /\ raced \subseteq raced' /\ (task[k].at \in Capture => task[k].place \in raced')
  BY DEF LoseTree, DropSnapshot, ReleaseElement, StrayEnds, At, Capture
<1>2. task'[k].at = "idle" /\ \A j \in Tasks \ {k} : task'[j] = task[j]
  BY <1>1, Rested DEF Sound
<1> QED
  BY <1>1, <1>2, HitsMoves DEF Capture

LEMMA HitsDropAction ==
    ASSUME Sound, Placed, Hits, NEW k \in Tasks, DropAction(k) PROVE Hits'
<1>1. UNCHANGED <<lanes, cache, tokens, raced>> /\ \A j \in Tasks \ {k} : task'[j] = task[j]
  BY DropEffect DEF Sound
<1>2. /\ task[k].at \in {"resolved", "act"}
      /\ \/ task'[k].at = "idle"
         \/ /\ task[k].at = "act" /\ task'[k].at = "stray" /\ task'[k].place = task[k].place
            /\ task'[k].token = task[k].token /\ task'[k].tree = task[k].tree
  BY DropEffect DEF Sound
<1>3. task'[k].at \in {"act", "stray"} /\ task'[k].place \notin raced' =>
          task'[k].tree = task'[k].token.tree
  BY <1>1, <1>2 DEF Hits, ActsHit
<1> QED
  BY <1>1, <1>2, <1>3, HitsMoves DEF Capture

LEMMA HitsClear ==
    ASSUME Sound, Placed, Hits, NEW sc \in Scopes, ClearRuntimeScope(sc) PROVE Hits'
<1>1. UNCHANGED <<cache, tokens, task, raced>>
  BY DEF ClearRuntimeScope
<1>2. \A s \in Scopes : lanes'[s] \subseteq lanes[s]
  BY DEF ClearRuntimeScope, Sound, Typed
<1>3. \A q, tree : (MayHold(q, tree)' <=> MayHold(q, tree)) /\ (Capturing(q)' <=> Capturing(q))
  BY <1>1 DEF MayHold, Cached, Capturing, Capture
<1>4. CapturesHeld' /\ ResolvedHeld' /\ ActsHit'
  BY <1>1, <1>3 DEF Hits, CapturesHeld, ResolvedHeld, ActsHit, Capture
<1>5. LanesHeld'
  BY <1>1, <1>2, <1>3 DEF Hits, LanesHeld
<1> QED
  BY <1>4, <1>5 DEF Hits

LEMMA HitsNext == Sound /\ Placed /\ Hits /\ [Next]_vars => Hits'
<1> SUFFICES ASSUME Sound, Placed, Hits, [Next]_vars PROVE Hits'
  OBVIOUS
<1>1. CASE Acts
  BY <1>1, HitsWalk, HitsForget, HitsResolve, HitsUpdate, HitsLeaves, HitsMint,
     HitsRegister, HitsRetain, HitsDropAction, HitsClear DEF Acts
<1>2. CASE UNCHANGED vars
  BY <1>2 DEF vars, Hits, CapturesHeld, LanesHeld, ResolvedHeld, ActsHit, MayHold, Cached, Capturing, Capture
<1> QED
  BY <1>1, <1>2, NextActs

\* An action, and the worker of a cancelled one, acts in the window its token was made
\* for and, where no snapshot raced another call on that window or was dropped, on an
\* element of the very tree (element_token.rs 14).
THEOREM TokenHits == Spec => []TokenHitsItsTree
<1>1. Placed /\ Hits => TokenHitsItsTree
  <2> SUFFICES ASSUME Placed, Hits, NEW k \in Tasks, task[k].at \in {"act", "stray"}
               PROVE  SameWindow(k) /\ (task[k].place \in raced \/ SameTree(k))
    BY DEF TokenHitsItsTree, Acting
  <2>1. SameWindow(k)
    BY DEF Placed, CallSourced, SameWindow
  <2>2. task[k].place \in raced \/ SameTree(k)
    BY DEF Hits, ActsHit, SameTree
  <2> QED
    BY <2>1, <2>2
<1> QED
  BY <1>1, HitsInit, HitsNext, AlwaysSound, AlwaysPlaced, PTL DEF Spec

-----------------------------------------------------------------------------
(* What a reference count counts.                                            *)

ActingOn(t)  == {k \in Tasks : task[k].at = "act" /\ task[k].tree = t}
WalkingTo(t) == {k \in Tasks : task[k].at = "walked" /\ task[k].tree = t}
CachedIn(t)  == {sc \in Scopes : \E w \in Windows : cache[sc][w] = t}
Lost(t)      == IF t \in lost THEN 1 ELSE 0

Balance(t) == refs[t] = Cardinality(ActingOn(t)) + Cardinality(WalkingTo(t)) + Cardinality(CachedIn(t)) + Lost(t)
Balanced   == \A t \in Trees : Balance(t)

LEMMA Counts ==
    ASSUME NEW t
    PROVE  /\ IsFiniteSet(ActingOn(t)) /\ Cardinality(ActingOn(t)) \in Nat
           /\ IsFiniteSet(WalkingTo(t)) /\ Cardinality(WalkingTo(t)) \in Nat
           /\ IsFiniteSet(CachedIn(t)) /\ Cardinality(CachedIn(t)) \in Nat
           /\ Lost(t) \in Nat
<1>1. ActingOn(t) \subseteq Tasks /\ WalkingTo(t) \subseteq Tasks /\ CachedIn(t) \subseteq Scopes
  BY DEF ActingOn, WalkingTo, CachedIn
<1>2. IsFiniteSet(ActingOn(t)) /\ IsFiniteSet(WalkingTo(t)) /\ IsFiniteSet(CachedIn(t))
  BY <1>1, TaskAssumption, FS_Subset
<1>3. Lost(t) \in Nat
  BY DEF Lost
<1> QED
  BY <1>2, <1>3, FS_CardinalityType

LEMMA CountsNext == ASSUME NEW t PROVE Cardinality(CachedIn(t)') \in Nat
<1>1. CachedIn(t)' \subseteq Scopes
  BY DEF CachedIn
<1> QED
  BY <1>1, TaskAssumption, FS_Subset, FS_CardinalityType

LEMMA Singleton == ASSUME NEW x PROVE Cardinality({x}) = 1 /\ Cardinality({}) = 0
BY FS_Singleton, FS_EmptySet

\* The calls that act on a tree when one call goes on.
LEMMA CallsChange ==
    ASSUME NEW t, NEW k \in Tasks, \A j \in Tasks \ {k} : task'[j] = task[j]
    PROVE  /\ ~(task[k].at = "act" /\ task[k].tree = t) =>
                 IF task'[k].at = "act" /\ task'[k].tree = t
                 THEN Cardinality(ActingOn(t)') = Cardinality(ActingOn(t)) + 1
                 ELSE Cardinality(ActingOn(t)') = Cardinality(ActingOn(t))
           /\ (task[k].at = "act" /\ task[k].tree = t) /\ task'[k].at # "act" =>
                 Cardinality(ActingOn(t)') = Cardinality(ActingOn(t)) - 1
           /\ task[k].at # "walked" /\ task'[k].at # "walked" => WalkingTo(t)' = WalkingTo(t)
           /\ task[k].at = "walked" /\ task'[k].at # "walked" =>
                 IF task[k].tree = t
                 THEN Cardinality(WalkingTo(t)') = Cardinality(WalkingTo(t)) - 1
                 ELSE WalkingTo(t)' = WalkingTo(t)
<1> DEFINE A == ActingOn(t)
           W == WalkingTo(t)
<1>1. IsFiniteSet(A) /\ IsFiniteSet(W)
  BY Counts
<1>2. /\ k \in A => Cardinality(A \ {k}) = Cardinality(A) - 1
      /\ k \notin A => Cardinality(A \cup {k}) = Cardinality(A) + 1
      /\ k \in W => Cardinality(W \ {k}) = Cardinality(W) - 1
  BY <1>1, FS_AddElement, FS_RemoveElement
<1>3. /\ k \in A <=> task[k].at = "act" /\ task[k].tree = t
      /\ k \in W <=> task[k].at = "walked" /\ task[k].tree = t
  BY DEF ActingOn, WalkingTo
<1>4. A' = IF task'[k].at = "act" /\ task'[k].tree = t THEN A \cup {k} ELSE A \ {k}
  BY DEF ActingOn
<1>5. task'[k].at # "walked" => W' = W \ {k}
  BY DEF WalkingTo
<1> HIDE DEF A, W
<1>6. /\ k \notin A => IF task'[k].at = "act" /\ task'[k].tree = t
                       THEN Cardinality(A') = Cardinality(A) + 1 ELSE A' = A
      /\ k \in A /\ task'[k].at # "act" => Cardinality(A') = Cardinality(A) - 1
  BY <1>2, <1>4
<1>7. /\ k \notin W /\ task'[k].at # "walked" => W' = W
      /\ k \in W /\ task'[k].at # "walked" => Cardinality(W') = Cardinality(W) - 1
  BY <1>2, <1>5
<1> QED
  BY <1>3, <1>6, <1>7 DEF A, W

\* A tree is in one entry of the cache, and goes with it.
LEMMA Recached ==
    ASSUME Sound, Placed, NEW p, Located(p), NEW tree, Replace(p, tree),
           tree # NoTree => \A sc \in Scopes, w \in Windows : cache[sc][w] # tree,
           NEW t \in Trees
    PROVE  refs'[t] = refs[t] + Cardinality(CachedIn(t)') - Cardinality(CachedIn(t)) -
                      (IF t = tree THEN 1 ELSE 0)
<1> DEFINE old == Cached(p)
<1>1. /\ cache'[p.scope][p.window] = tree
      /\ \A sc \in Scopes, w \in Windows :
            ~(sc = p.scope /\ w = p.window) => cache'[sc][w] = cache[sc][w]
      /\ p.scope \in Scopes /\ p.window \in Windows
  BY Replaced DEF Located
<1>2. refs'[t] = IF t = old THEN refs[t] - 1 ELSE refs[t]
  BY DEF Replace, Released
<1>3. refs[t] \in Int /\ t # NoTree
  BY DEF Sound, Typed, Trees, NoTree
<1>4. old = cache[p.scope][p.window]
  BY DEF Cached
<1> HIDE DEF old
<1>5. CASE t = old
  <2>1. \A sc \in Scopes, w \in Windows : cache[sc][w] = t => sc = p.scope /\ w = p.window
    <3> SUFFICES ASSUME NEW sc \in Scopes, NEW w \in Windows, cache[sc][w] = t
                 PROVE  sc = p.scope /\ w = p.window
      OBVIOUS
    <3>1. source[t] = Place(sc, w) /\ source[t] = Place(p.scope, p.window)
      BY <1>1, <1>3, <1>4, <1>5 DEF Placed, CacheSourced
    <3> QED
      BY <3>1 DEF Place
  <2>2. CachedIn(t) = {p.scope}
    BY <1>1, <1>4, <1>5, <2>1 DEF CachedIn
  <2>3. t # tree
    BY <1>1, <1>3, <1>4, <1>5
  <2>4. CachedIn(t)' = {}
    BY <1>1, <2>1, <2>3 DEF CachedIn
  <2>5. Cardinality(CachedIn(t)) = 1 /\ Cardinality(CachedIn(t)') = 0
    BY <2>2, <2>4, Singleton
  <2> QED
    BY <1>2, <1>3, <1>5, <2>3, <2>5
<1>6. CASE t # old /\ t = tree
  <2>1. CachedIn(t) = {} /\ CachedIn(t)' = {p.scope}
    BY <1>1, <1>3, <1>6 DEF CachedIn
  <2>2. Cardinality(CachedIn(t)) = 0 /\ Cardinality(CachedIn(t)') = 1
    BY <2>1, Singleton
  <2> QED
    BY <1>2, <1>3, <1>6, <2>2
<1>7. CASE t # old /\ t # tree
  <2>1. CachedIn(t)' = CachedIn(t)
    BY <1>1, <1>4, <1>7 DEF CachedIn
  <2>2. Cardinality(CachedIn(t)) \in Nat
    BY Counts
  <2> QED
    BY <1>2, <1>3, <1>7, <2>1, <2>2
<1> QED
  BY <1>5, <1>6, <1>7

LEMMA BalanceInit == Init => Balanced
<1> SUFFICES ASSUME Init, NEW t \in Trees PROVE Balance(t)
  BY DEF Balanced
<1>1. ActingOn(t) = {} /\ WalkingTo(t) = {} /\ CachedIn(t) = {} /\ Lost(t) = 0 /\ refs[t] = 0
  BY DEF Init, Idle, Task, ActingOn, WalkingTo, CachedIn, Lost, NoTree, Trees
<1>2. Cardinality({}) = 0
  BY FS_EmptySet
<1> QED
  BY <1>1, <1>2 DEF Balance

\* One call goes on, with what it retains or releases.
LEMMA BalanceMoves ==
    ASSUME Sound, Balanced, NEW k \in Tasks, \A j \in Tasks \ {k} : task'[j] = task[j],
           task[k].at # "walked", task'[k].at # "walked", UNCHANGED <<cache, lost>>,
           \A t \in Trees :
              IF task[k].at = "act" /\ task[k].tree = t
              THEN task'[k].at # "act" /\ refs'[t] = refs[t] - 1
              ELSE refs'[t] = refs[t] + (IF task'[k].at = "act" /\ task'[k].tree = t THEN 1 ELSE 0)
    PROVE  Balanced'
<1> SUFFICES ASSUME NEW t \in Trees PROVE Balance(t)'
  BY DEF Balanced
<1>1. Balance(t)
  BY DEF Balanced
<1>2. /\ ~(task[k].at = "act" /\ task[k].tree = t) =>
            IF task'[k].at = "act" /\ task'[k].tree = t
            THEN Cardinality(ActingOn(t)') = Cardinality(ActingOn(t)) + 1
            ELSE Cardinality(ActingOn(t)') = Cardinality(ActingOn(t))
      /\ (task[k].at = "act" /\ task[k].tree = t) /\ task'[k].at # "act" =>
            Cardinality(ActingOn(t)') = Cardinality(ActingOn(t)) - 1
      /\ WalkingTo(t)' = WalkingTo(t)
  BY CallsChange
<1>3. CachedIn(t)' = CachedIn(t) /\ Lost(t)' = Lost(t)
  BY DEF CachedIn, Lost
<1>4. refs'[t] - refs[t] = Cardinality(ActingOn(t)') - Cardinality(ActingOn(t))
  <2>1. refs[t] \in Int /\ Cardinality(ActingOn(t)) \in Nat
    BY Counts DEF Sound, Typed
  <2> QED
    BY <1>2, <2>1
<1>5. /\ Cardinality(ActingOn(t)) \in Int /\ Cardinality(ActingOn(t)') \in Int
      /\ Cardinality(WalkingTo(t)) \in Int /\ Cardinality(CachedIn(t)) \in Int /\ Lost(t) \in Int
      /\ refs[t] \in Int /\ refs'[t] \in Int
  <2>1. refs[t] \in Int /\ Cardinality(ActingOn(t)) \in Nat
    BY Counts DEF Sound, Typed
  <2>2. Cardinality(ActingOn(t)') \in Int /\ refs'[t] \in Int
    BY <1>2, <2>1
  <2> QED
    BY <2>1, <2>2, Counts
<1> QED
  BY <1>1, <1>2, <1>3, <1>4, <1>5 DEF Balance

LEMMA BalanceWalk ==
    ASSUME Sound, Placed, Balanced, NEW k \in Tasks, NEW sc \in Scopes, NEW w \in Windows,
           Walk(k, Place(sc, w))
    PROVE  Balanced'
<1> SUFFICES ASSUME NEW t \in Trees PROVE Balance(t)'
  BY DEF Balanced
<1>0. PICK p, T : p = Place(sc, w) /\ T = walked + 1
  OBVIOUS
<1>1. /\ walked' = T /\ T \in Trees /\ T \in 0..MaxWalks /\ T \notin 1..walked
      /\ refs' = [refs EXCEPT ![T] = 1] /\ task' = [task EXCEPT ![k] = Task("walked", p, NoToken, T)]
      /\ UNCHANGED <<cache, lost>> /\ task[k].at = "idle"
  BY <1>0, BoundAssumption DEF Walk, At, Sound, Typed, Trees
<1>2. task'[k].at = "walked" /\ task'[k].tree = T /\ \A j \in Tasks \ {k} : task'[j] = task[j]
  <2>1. p \in Somewhere /\ "walked" \in Stages /\ NoToken \in Handles \cup {NoToken}
    BY <1>0, PlaceType DEF Stages
  <2> QED
    BY <1>1, <2>1, Renewed DEF Sound
<1>3. ActingOn(t)' = ActingOn(t) /\ CachedIn(t)' = CachedIn(t) /\ Lost(t)' = Lost(t)
  BY <1>1, <1>2 DEF ActingOn, CachedIn, Lost
<1>4. CASE t # T
  <2>1. WalkingTo(t)' = WalkingTo(t) /\ refs'[t] = refs[t]
    BY <1>1, <1>2, <1>4 DEF WalkingTo, Sound, Typed
  <2> QED
    BY <1>3, <2>1 DEF Balanced, Balance
<1>5. CASE t = T
  <2>1. ActingOn(t) = {} /\ WalkingTo(t) = {} /\ CachedIn(t) = {} /\ Lost(t) = 0
    <3>1. \A j \in Tasks : task[j].at \in {"act", "walked"} => task[j].tree # t
      BY <1>1, <1>5 DEF Placed, CallSourced
    <3>2. \A s \in Scopes, v \in Windows : cache[s][v] # t
      BY <1>1, <1>5 DEF Placed, CacheSourced, NoTree, Trees
    <3>3. t \notin lost
      BY <1>1, <1>5 DEF Placed
    <3> QED
      BY <3>1, <3>2, <3>3 DEF ActingOn, WalkingTo, CachedIn, Lost
  <2>2. WalkingTo(t)' = {k} /\ refs'[t] = 1
    BY <1>1, <1>2, <1>5, <2>1 DEF WalkingTo, Sound, Typed
  <2>3. /\ Cardinality(ActingOn(t)') = 0 /\ Cardinality(WalkingTo(t)') = 1
        /\ Cardinality(CachedIn(t)') = 0 /\ Lost(t)' = 0
    BY <1>3, <2>1, <2>2, Singleton
  <2> QED
    BY <2>2, <2>3 DEF Balance
<1> QED
  BY <1>4, <1>5

LEMMA BalanceUpdate ==
    ASSUME Sound, Placed, Balanced, NEW k \in Tasks, UpdateCache(k) PROVE Balanced'
<1> SUFFICES ASSUME NEW t \in Trees PROVE Balance(t)'
  BY DEF Balanced
<1>0. PICK p, T : p = task[k].place /\ T = task[k].tree
  OBVIOUS
<1>1. /\ task[k].at = "walked" /\ Located(p)
      /\ \A sc \in Scopes, w \in Windows : cache[sc][w] # T
      /\ Replace(p, T) /\ UNCHANGED lost
  BY <1>0 DEF UpdateCache, At, Sound, Typed, WellPlaced, Placed, Fresh
<1>2. task'[k].at = "capture" /\ \A j \in Tasks \ {k} : task'[j] = task[j]
  BY Moved DEF UpdateCache, Sound, Stages
<1>3. refs'[t] = refs[t] + Cardinality(CachedIn(t)') - Cardinality(CachedIn(t)) - (IF t = T THEN 1 ELSE 0)
  BY <1>1, Recached
<1>4. /\ Cardinality(ActingOn(t)') = Cardinality(ActingOn(t))
      /\ Cardinality(WalkingTo(t)') = Cardinality(WalkingTo(t)) - (IF t = T THEN 1 ELSE 0)
      /\ Lost(t)' = Lost(t)
  <2>1. Cardinality(ActingOn(t)') = Cardinality(ActingOn(t))
    BY <1>1, <1>2, CallsChange
  <2>2. IF T = t THEN Cardinality(WalkingTo(t)') = Cardinality(WalkingTo(t)) - 1
        ELSE WalkingTo(t)' = WalkingTo(t)
    BY <1>0, <1>1, <1>2, CallsChange
  <2>3. Cardinality(WalkingTo(t)) \in Nat
    BY Counts
  <2> QED
    BY <1>1, <2>1, <2>2, <2>3 DEF Lost
<1>5. /\ Balance(t) /\ Lost(t) \in Nat /\ refs[t] \in Int
      /\ Cardinality(ActingOn(t)) \in Nat /\ Cardinality(WalkingTo(t)) \in Nat
      /\ Cardinality(CachedIn(t)) \in Nat
  BY Counts DEF Balanced, Sound, Typed
<1>6. Cardinality(CachedIn(t)') \in Nat
  BY CountsNext
<1> QED
  BY <1>3, <1>4, <1>5, <1>6 DEF Balance

LEMMA BalanceForget ==
    ASSUME Sound, Placed, Balanced, NEW k \in Tasks, NEW sc \in Scopes, NEW w \in Windows,
           ForgetTree(k, Place(sc, w))
    PROVE  Balanced'
<1> SUFFICES ASSUME NEW t \in Trees PROVE Balance(t)'
  BY DEF Balanced
<1>1. Located(Place(sc, w)) /\ Replace(Place(sc, w), NoTree) /\ UNCHANGED <<lost, task>>
  BY PlaceType DEF ForgetTree
<1>2. t # NoTree
  BY DEF Trees, NoTree
<1>3. refs'[t] = refs[t] + Cardinality(CachedIn(t)') - Cardinality(CachedIn(t))
  <2>1. refs'[t] = refs[t] + Cardinality(CachedIn(t)') - Cardinality(CachedIn(t)) -
                   (IF t = NoTree THEN 1 ELSE 0)
    BY <1>1, Recached
  <2> QED
    BY <1>2, <2>1, Counts, CountsNext DEF Sound, Typed
<1>4. ActingOn(t)' = ActingOn(t) /\ WalkingTo(t)' = WalkingTo(t) /\ Lost(t)' = Lost(t)
  BY <1>1 DEF ActingOn, WalkingTo, Lost
<1>5. /\ Balance(t) /\ Lost(t) \in Nat /\ refs[t] \in Int
      /\ Cardinality(ActingOn(t)) \in Nat /\ Cardinality(WalkingTo(t)) \in Nat
      /\ Cardinality(CachedIn(t)) \in Nat
  BY Counts DEF Balanced, Sound, Typed
<1>6. Cardinality(CachedIn(t)') \in Nat
  BY CountsNext
<1> QED
  BY <1>3, <1>4, <1>5, <1>6 DEF Balance

LEMMA BalanceLose ==
    ASSUME Sound, Placed, Balanced, NEW k \in Tasks, LoseTree(k) PROVE Balanced'
<1> SUFFICES ASSUME NEW t \in Trees PROVE Balance(t)'
  BY DEF Balanced
<1>1. /\ task[k].at = "walked" /\ task[k].tree \notin lost
      /\ lost' = lost \cup {task[k].tree} /\ UNCHANGED <<cache, refs>>
  BY DEF LoseTree, At, Placed, Fresh
<1>2. task'[k].at = "idle" /\ \A j \in Tasks \ {k} : task'[j] = task[j]
  BY Rested DEF LoseTree, Sound
<1>3. Cardinality(ActingOn(t)') = Cardinality(ActingOn(t)) /\ CachedIn(t)' = CachedIn(t)
  <2>1. Cardinality(ActingOn(t)') = Cardinality(ActingOn(t))
    BY <1>1, <1>2, CallsChange
  <2> QED
    BY <1>1, <2>1 DEF CachedIn
<1>4. IF task[k].tree = t THEN Cardinality(WalkingTo(t)') = Cardinality(WalkingTo(t)) - 1
      ELSE WalkingTo(t)' = WalkingTo(t)
  BY <1>1, <1>2, CallsChange
<1>5. Lost(t)' = Lost(t) + (IF task[k].tree = t THEN 1 ELSE 0)
  BY <1>1 DEF Lost
<1>6. /\ Balance(t) /\ Lost(t) \in Nat /\ Cardinality(ActingOn(t)) \in Nat
      /\ Cardinality(WalkingTo(t)) \in Nat /\ Cardinality(CachedIn(t)) \in Nat
  BY Counts DEF Balanced
<1>7. refs'[t] = refs[t]
  BY <1>1
<1>8. CASE task[k].tree = t
  BY <1>3, <1>4, <1>5, <1>6, <1>7, <1>8 DEF Balance
<1>9. CASE task[k].tree # t
  BY <1>3, <1>4, <1>5, <1>6, <1>7, <1>9 DEF Balance
<1> QED
  BY <1>8, <1>9

LEMMA BalanceRetain ==
    ASSUME Sound, Balanced, NEW k \in Tasks, RetainElement(k) PROVE Balanced'
<1> DEFINE tree == Cached(task[k].place)
<1>1. /\ task[k].at = "resolved" /\ \A j \in Tasks \ {k} : task'[j] = task[j]
      /\ \/ task'[k].at = "idle" /\ UNCHANGED refs
         \/ tree \in Trees /\ refs' = Retained(refs, tree) /\ task'[k].at = "act" /\ task'[k].tree = tree
  BY RetainEffect
<1> HIDE DEF tree
<1>2. refs \in [Trees -> Int] /\ UNCHANGED <<cache, lost>>
  BY DEF RetainElement, Sound, Typed
<1>3. \A t \in Trees : refs'[t] = refs[t] + (IF task'[k].at = "act" /\ task'[k].tree = t THEN 1 ELSE 0)
  BY <1>1, <1>2 DEF Retained
<1> QED
  BY <1>1, <1>2, <1>3, BalanceMoves

\* The guard goes, with its call or before its call's worker.
LEMMA BalanceReleases ==
    ASSUME Sound, Balanced, NEW k \in Tasks, \A j \in Tasks \ {k} : task'[j] = task[j],
           task[k].at = "act", task'[k].at \in {"idle", "stray"},
           refs' = Released(refs, task[k].tree), UNCHANGED <<cache, lost>>
    PROVE  Balanced'
<1>1. \A t \in Trees : refs'[t] = IF task[k].tree = t THEN refs[t] - 1 ELSE refs[t]
  BY DEF Released
<1>2. \A t \in Trees : refs[t] + 0 = refs[t]
  BY DEF Sound, Typed
<1> QED
  BY <1>1, <1>2, BalanceMoves

LEMMA BalanceRelease ==
    ASSUME Sound, Balanced, NEW k \in Tasks, ReleaseElement(k) PROVE Balanced'
<1>1. task'[k].at = "idle" /\ \A j \in Tasks \ {k} : task'[j] = task[j]
  BY Rested DEF ReleaseElement, Sound
<1> QED
  BY <1>1, BalanceReleases DEF ReleaseElement, At

\* A call goes on that holds no reference before or after.
LEMMA BalanceOther ==
    ASSUME Sound, Balanced, NEW k \in Tasks, \A j \in Tasks \ {k} : task'[j] = task[j],
           task[k].at \notin {"walked", "act"}, task'[k].at \notin {"walked", "act"},
           UNCHANGED <<cache, refs, lost>>
    PROVE  Balanced'
<1>1. \A t \in Trees : refs[t] + 0 = refs[t]
  BY DEF Sound, Typed
<1> QED
  BY <1>1, BalanceMoves

LEMMA BalanceDropAction ==
    ASSUME Sound, Balanced, NEW k \in Tasks, DropAction(k) PROVE Balanced'
<1>1. \A j \in Tasks \ {k} : task'[j] = task[j]
  BY DropEffect DEF Sound
<1>2. UNCHANGED <<cache, lost>>
  BY DEF DropAction
<1>3. CASE task[k].at = "resolved" /\ task'[k].at = "idle" /\ UNCHANGED refs
  BY <1>1, <1>2, <1>3, BalanceOther
<1>4. CASE task[k].at = "act" /\ task'[k].at = "stray" /\ refs' = Released(refs, task[k].tree)
  BY <1>1, <1>2, <1>4, BalanceReleases
<1> QED
  BY <1>3, <1>4, DropEffect DEF Sound

LEMMA BalanceOthers ==
    ASSUME Sound, Placed, Balanced, NEW k \in Tasks,
           \/ \E sc \in Scopes, token \in tokens : ResolveToken(k, sc, token)
           \/ MintSnapshot(k) \/ RegisterSnapshot(k) \/ DropSnapshot(k) \/ StrayEnds(k)
    PROVE  Balanced'
<1>1. task[k].at \notin {"walked", "act"} /\ UNCHANGED <<cache, refs, lost>>
  BY DEF ResolveToken, MintSnapshot, RegisterSnapshot, DropSnapshot, StrayEnds, At
<1>2. task'[k].at \in {"idle", "minted", "resolved"} /\ \A j \in Tasks \ {k} : task'[j] = task[j]
  <2>1. CASE RegisterSnapshot(k) \/ DropSnapshot(k) \/ StrayEnds(k)
    BY <2>1, Rested DEF RegisterSnapshot, DropSnapshot, StrayEnds, Sound
  <2>2. CASE MintSnapshot(k)
    BY <2>2, MintEffect
  <2>3. CASE \E sc \in Scopes, token \in tokens : ResolveToken(k, sc, token)
    BY <2>3, ResolveEffect
  <2> QED
    BY <2>1, <2>2, <2>3
<1> QED
  BY <1>1, <1>2, BalanceOther

LEMMA BalanceSame ==
    ASSUME Balanced, UNCHANGED <<cache, refs, lost, task>> PROVE Balanced'
BY DEF Balanced, Balance, ActingOn, WalkingTo, CachedIn, Lost

LEMMA BalanceNext == Sound /\ Placed /\ Balanced /\ [Next]_vars => Balanced'
<1> SUFFICES ASSUME Sound, Placed, Balanced, [Next]_vars PROVE Balanced'
  OBVIOUS
<1>1. ASSUME NEW sc \in Scopes, ClearRuntimeScope(sc) PROVE Balanced'
  BY <1>1, BalanceSame DEF ClearRuntimeScope
<1>2. CASE Acts
  BY <1>1, <1>2, BalanceWalk, BalanceForget, BalanceUpdate, BalanceLose, BalanceRetain,
     BalanceRelease, BalanceDropAction, BalanceOthers DEF Acts
<1>3. CASE UNCHANGED vars
  BY <1>3, BalanceSame DEF vars
<1> QED
  BY <1>2, <1>3, NextActs

\* Every reference to an element of a tree is the cache's, that of a call's guard or
\* that of a walk that no cache took, wherever calls are cancelled: none is released
\* twice and none is left behind (element_cache.rs, cache.rs of platform-macos).
THEOREM ReferencesAreHeld == Spec => []ReferencesBalance
<1>1. Balanced => ReferencesBalance
  <2> SUFFICES ASSUME Balanced, NEW t \in Trees PROVE refs[t] = References(t) + Lost(t)
    BY DEF ReferencesBalance, Lost
  <2>1. References(t) = Cardinality(ActingOn(t)) + Cardinality(WalkingTo(t)) + Cardinality(CachedIn(t))
    BY DEF References, ActingOn, WalkingTo, CachedIn, At
  <2> QED
    BY <2>1 DEF Balanced, Balance
<1> QED
  BY <1>1, BalanceInit, BalanceNext, AlwaysSound, AlwaysPlaced, PTL DEF Spec

-----------------------------------------------------------------------------
(* What the lanes keep.                                                      *)

LaneBounded(lane) == IsFiniteSet(lane) /\ Cardinality(lane) <= LRU_CAP_PER_PID
Bounded == \A sc \in Scopes : LaneBounded(lanes[sc])

LEMMA Oldest ==
    ASSUME NEW S \in SUBSET Entries, S # {}
    PROVE  \E e \in S : \A f \in S : ~(f.nth < e.nth)
<1> DEFINE I == {e.nth : e \in S}
           R == OpToRel(<, Nat)
<1>1. I \subseteq Nat /\ I # {}
  BY DEF Entries
<1>2. IsWellFoundedOn(R, Nat)
  BY NatLessThanWellFounded
<1>3. R = {p \in Nat \X Nat : p[1] < p[2]}
  BY DEF OpToRel
<1> HIDE DEF R
<1>4. PICK x \in I : \A y \in I : ~(<<y, x>> \in R)
  BY <1>1, <1>2, WFMin
<1>5. \A y \in I : ~(y < x)
  BY <1>1, <1>3, <1>4
<1> QED
  BY <1>4, <1>5

\* Over the cap one goes, and it is the one pushed first.
LEMMA RegisteredBounded ==
    ASSUME NEW lane \in SUBSET Entries, LaneBounded(lane), NEW new \in Entries
    PROVE  LaneBounded(Registered(lane, new))
<1> DEFINE others == {e \in lane : e.window # new.window}
           kept == others \cup {new}
           rest == {e \in kept : \E f \in kept : f.nth < e.nth}
<1>1. IsFiniteSet(others) /\ Cardinality(others) <= LRU_CAP_PER_PID
  <2>1. others \in SUBSET lane /\ IsFiniteSet(lane) /\ Cardinality(lane) <= LRU_CAP_PER_PID
    BY DEF LaneBounded
  <2>2. IsFiniteSet(others) /\ Cardinality(others) <= Cardinality(lane)
    BY <2>1, FS_Subset
  <2>3. Cardinality(others) \in Nat /\ Cardinality(lane) \in Nat
    BY <2>1, <2>2, FS_CardinalityType
  <2> QED
    BY <2>1, <2>2, <2>3, BoundAssumption
<1>2. others \in SUBSET Entries
  OBVIOUS
<1> HIDE DEF others
<1>3. kept \in SUBSET Entries /\ kept # {}
  BY <1>2
<1>4. IsFiniteSet(kept) /\ Cardinality(kept) \in Nat /\ Cardinality(kept) <= LRU_CAP_PER_PID + 1
  <2>1. IsFiniteSet(kept) /\ Cardinality(kept) = IF new \in others THEN Cardinality(others)
                                                 ELSE Cardinality(others) + 1
    BY <1>1, FS_AddElement
  <2>2. Cardinality(others) \in Nat /\ Cardinality(kept) \in Nat
    BY <1>1, <2>1, FS_CardinalityType
  <2> QED
    BY <1>1, <2>1, <2>2, BoundAssumption
<1>5. Registered(lane, new) = IF Cardinality(kept) <= LRU_CAP_PER_PID THEN kept ELSE rest
  BY DEF Registered, others
<1> HIDE DEF kept
<1>6. PICK e \in kept : \A f \in kept : ~(f.nth < e.nth)
  BY <1>3, Oldest
<1>7. rest \in SUBSET (kept \ {e})
  BY <1>6
<1>8. IsFiniteSet(kept \ {e}) /\ Cardinality(kept \ {e}) = Cardinality(kept) - 1
  BY <1>4, <1>6, FS_RemoveElement
<1> HIDE DEF rest
<1>9. IsFiniteSet(rest) /\ Cardinality(rest) <= Cardinality(kept) - 1 /\ Cardinality(rest) \in Nat
  BY <1>7, <1>8, FS_Subset, FS_CardinalityType
<1>10. LaneBounded(rest)
  BY <1>4, <1>9, BoundAssumption DEF LaneBounded
<1> QED
  BY <1>4, <1>5, <1>10 DEF LaneBounded

LEMMA EmptyBounded == LaneBounded({})
BY FS_EmptySet, BoundAssumption DEF LaneBounded

LEMMA BoundedInit == Init => Bounded
BY EmptyBounded DEF Init, Bounded

LEMMA BoundedRegister ==
    ASSUME Sound, Placed, Bounded, NEW k \in Tasks, RegisterSnapshot(k) PROVE Bounded'
<1>0. PICK p, a, e : p = task[k].place /\ a = task[k].token /\ e = Entry(a.id, p.window, pushed)
  OBVIOUS
<1>1. /\ p.scope \in Scopes /\ e \in Entries
      /\ \A sc \in Scopes \ {p.scope} : lanes'[sc] = lanes[sc]
      /\ lanes'[p.scope] = Registered(lanes[p.scope], e)
  BY <1>0, RegisterEffect DEF Located
<1>2. lanes[p.scope] \in SUBSET Entries
  BY <1>1 DEF Sound, Typed
<1>3. LaneBounded(lanes'[p.scope])
  BY <1>1, <1>2, RegisteredBounded DEF Bounded
<1> QED
  BY <1>1, <1>3 DEF Bounded, LaneBounded

\* Every other step leaves the lanes as they are or empties one, and hands out no
\* token.
LEMMA LanesShrink ==
    ASSUME Sound, [Next]_vars, \A k \in Tasks : ~RegisterSnapshot(k)
    PROVE  tokens' = tokens /\ \A sc \in Scopes : lanes'[sc] = lanes[sc] \/ lanes'[sc] = {}
<1>1. ASSUME NEW sc \in Scopes, ClearRuntimeScope(sc)
      PROVE  tokens' = tokens /\ \A s \in Scopes : lanes'[s] = lanes[s] \/ lanes'[s] = {}
  BY <1>1 DEF ClearRuntimeScope, Sound, Typed
<1>2. CASE Acts
  <2>1. \/ UNCHANGED <<lanes, tokens>>
        \/ \E sc \in Scopes : ClearRuntimeScope(sc)
    BY <1>2 DEF Acts, Walk, ForgetTree, ResolveToken, UpdateCache, LoseTree, DropSnapshot,
       MintSnapshot, RetainElement, ReleaseElement, DropAction, StrayEnds
  <2> QED
    BY <1>1, <2>1
<1>3. CASE UNCHANGED vars
  BY <1>3 DEF vars
<1> QED
  BY <1>2, <1>3, NextActs

LEMMA BoundedNext == Sound /\ Placed /\ Bounded /\ [Next]_vars => Bounded'
<1> SUFFICES ASSUME Sound, Placed, Bounded, [Next]_vars PROVE Bounded'
  OBVIOUS
<1>1. CASE \E k \in Tasks : RegisterSnapshot(k)
  BY <1>1, BoundedRegister
<1>2. CASE \A k \in Tasks : ~RegisterSnapshot(k)
  <2>1. \A sc \in Scopes : lanes'[sc] = lanes[sc] \/ lanes'[sc] = {}
    BY <1>2, LanesShrink
  <2> QED
    BY <2>1, EmptyBounded DEF Bounded, LaneBounded
<1> QED
  BY <1>1, <1>2

\* The types; above all, no count goes below nothing, no identifier past the trees
\* that were walked (element_token.rs 238), and no lane over its cap (138).
THEOREM TypeCorrect == Spec => []TypeOK
<1>1. Sound /\ Balanced /\ Bounded => TypeOK
  <2> SUFFICES ASSUME Sound, Balanced, Bounded PROVE TypeOK
    OBVIOUS
  <2>1. \A t \in Trees : refs[t] \in Nat
    BY Counts DEF Balanced, Balance
  <2>2. refs \in [Trees -> Nat]
    BY <2>1 DEF Sound, Typed
  <2>3. counter \in 1..(MaxWalks + 1)
    <3>1. Cardinality(Unregistered) \in Nat
      BY Pending
    <3> QED
      BY <3>1, BoundAssumption DEF Sound, Typed, Counted
  <2>4. \A sc \in Scopes : Cardinality(lanes[sc]) <= LRU_CAP_PER_PID
    BY DEF Bounded, LaneBounded
  <2> QED
    BY <2>2, <2>3, <2>4 DEF TypeOK, Sound, Typed
<1> QED
  BY <1>1, BalanceInit, BalanceNext, BoundedInit, BoundedNext, AlwaysSound, AlwaysPlaced, PTL DEF Spec

-----------------------------------------------------------------------------
(* What the lanes never resolve again.                                       *)

LEMMA RefusedStays ==
    ASSUME Sound, Placed, [Next]_vars, NEW sc \in Scopes, NEW token \in tokens,
           Refused(sc, lanes, token)
    PROVE  Refused(sc, lanes', token)
<1>1. ASSUME NEW k \in Tasks, RegisterSnapshot(k) PROVE Refused(sc, lanes', token)
  <2>0. PICK p, a, e : p = task[k].place /\ a = task[k].token /\ e = Entry(a.id, p.window, pushed)
    OBVIOUS
  <2>1. /\ \A b \in tokens : b.id # a.id /\ e.id = a.id
        /\ \A s \in Scopes \ {p.scope} : lanes'[s] = lanes[s]
        /\ \A f \in lanes'[p.scope] : (f \in lanes[p.scope] /\ f.window # p.window) \/ f = e
    BY <1>1, <2>0, RegisterEffect
  <2> QED
    BY <2>1 DEF Refused
<1>2. CASE \A k \in Tasks : ~RegisterSnapshot(k)
  BY <1>2, LanesShrink DEF Refused
<1> QED
  BY <1>1, <1>2

\* In whatever order snapshots are minted and registered, a token that a runtime
\* refuses never resolves in it again (element_token.rs 118-121).
THEOREM StaleForGood == Spec => StaleStaysStale
<1>1. Sound /\ Placed /\ [Next]_vars =>
          [\A sc \in Scopes, token \in tokens :
               Refused(sc, lanes, token) => Refused(sc, lanes', token)]_vars
  BY RefusedStays
<1> QED
  BY <1>1, AlwaysSound, AlwaysPlaced, PTL DEF Spec, StaleStaysStale
=============================================================================
