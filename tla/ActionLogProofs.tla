-------------------------- MODULE ActionLogProofs --------------------------
(* What the log tells of actions, of pauses and of what was dropped, proved   *)
(* of ActionHistory for any number of actions, operations and restarts.  Told *)
(* is what is stored and on its way: a step leaves it alone, appends to it,   *)
(* or takes a request out of the queue.                                       *)
EXTENDS ActionHistoryProofs, SequenceTheorems, WellFoundedInduction

Told == log \o queue

-----------------------------------------------------------------------------
(* Sequences of messages.                                                    *)

\* t is s without its k-th element.
Without(s, t, k) ==
    /\ k \in 1..Len(s) /\ Len(t) = Len(s) - 1
    /\ \A i \in 1..Len(t) : t[i] = IF i < k THEN s[i] ELSE s[i + 1]

LEMMA ToldType ==
    ASSUME StoreTypeOK, WriterTypeOK
    PROVE  /\ Told \in Seq(Messages) /\ Len(Told) = Len(log) + Len(queue)
           /\ \A i \in 1..Len(Told) : Told[i] = IF i <= Len(log) THEN log[i] ELSE queue[i - Len(log)]
BY ConcatProperties DEF Told, StoreTypeOK, WriterTypeOK

\* A message is queued.
LEMMA ToldSent ==
    ASSUME StoreTypeOK, WriterTypeOK, NEW m \in Messages, log' = log, queue' = Append(queue, m)
    PROVE  Told' = Append(Told, m)
<1>1. <<m>> \in Seq(Messages) /\ log \in Seq(Messages) /\ queue \in Seq(Messages)
  BY DEF StoreTypeOK, WriterTypeOK
<1>2. queue' = queue \o <<m>>
  BY <1>1, AppendIsConcat
<1>3. Told' = (log \o queue) \o <<m>>
  BY <1>1, <1>2, ConcatAssociative DEF Told
<1>4. Told \in Seq(Messages)
  BY ToldType
<1> QED
  BY <1>3, <1>4, AppendIsConcat DEF Told

\* An event is stored while nothing is queued.
LEMMA ToldStored ==
    ASSUME StoreTypeOK, NEW m \in Messages, log' = Append(log, m), queue = <<>>, queue' = <<>>
    PROVE  Told' = Append(Told, m)
<1>1. log \in Seq(Messages) /\ Append(log, m) \in Seq(Messages)
  BY DEF StoreTypeOK
<1> QED
  BY <1>1, ConcatEmptySeq DEF Told

\* An event goes from the queue to the store.
LEMMA ToldAppended ==
    ASSUME StoreTypeOK, WriterTypeOK, queue # <<>>, log' = Append(log, Head(queue)), queue' = Tail(queue)
    PROVE  Told' = Told
<1>1. log \in Seq(Messages) /\ queue \in Seq(Messages)
  BY DEF StoreTypeOK, WriterTypeOK
<1>2. /\ Head(queue) \in Messages /\ Tail(queue) \in Seq(Messages) /\ Len(Tail(queue)) = Len(queue) - 1
      /\ \A i \in 1..Len(Tail(queue)) : Tail(queue)[i] = queue[i + 1]
      /\ Head(queue) = queue[1]
  BY <1>1, HeadTailProperties
<1>3. /\ Append(log, Head(queue)) \in Seq(Messages)
      /\ Len(Append(log, Head(queue))) = Len(log) + 1
      /\ \A i \in 1..Len(log) : Append(log, Head(queue))[i] = log[i]
      /\ Append(log, Head(queue))[Len(log) + 1] = queue[1]
  BY <1>1, <1>2, AppendProperties
<1> DEFINE new == Append(log, Head(queue)) \o Tail(queue)
<1>4. /\ new \in Seq(Messages) /\ Len(new) = Len(log) + 1 + Len(queue) - 1
      /\ \A i \in 1..Len(new) : new[i] = IF i <= Len(log) + 1 THEN Append(log, Head(queue))[i]
                                         ELSE Tail(queue)[i - (Len(log) + 1)]
  BY <1>2, <1>3, ConcatProperties
<1>5. Len(log) \in Nat /\ Len(queue) \in Nat
  BY <1>1
<1>6. Len(new) = Len(Told) /\ Told \in Seq(Messages)
  BY <1>4, <1>5, ToldType
<1>7. ASSUME NEW i \in 1..Len(new) PROVE new[i] = Told[i]
  <2> i \in Nat \ {0} /\ i \in 1..Len(Told)
    BY <1>4, <1>5, <1>6
  <2>1. CASE i <= Len(log)
    <3>1. new[i] = Append(log, Head(queue))[i]
      BY <2>1, <1>4, <1>5
    <3>2. i \in 1..Len(log)
      BY <2>1
    <3> QED
      BY <2>1, <3>1, <3>2, <1>3, ToldType
  <2>2. CASE i = Len(log) + 1
    <3>1. new[i] = queue[1]
      BY <2>2, <1>3, <1>4, <1>5
    <3>2. Told[i] = queue[i - Len(log)] /\ i - Len(log) = 1
      BY <2>2, <1>5, ToldType
    <3> QED
      BY <3>1, <3>2
  <2>3. CASE i > Len(log) + 1
    <3>1. i - (Len(log) + 1) \in 1..Len(Tail(queue))
      BY <2>3, <1>2, <1>4, <1>5
    <3>2. new[i] = queue[(i - (Len(log) + 1)) + 1]
      BY <2>3, <3>1, <1>2, <1>4, <1>5
    <3>3. (i - (Len(log) + 1)) + 1 = i - Len(log)
      BY <1>5, <1>4
    <3> QED
      BY <2>3, <3>2, <3>3, <1>5, <1>6, ToldType
  <2> QED
    BY <2>1, <2>2, <2>3, <1>4, <1>5
<1>8. new = Told
  BY <1>4, <1>6, <1>7, SeqEqual
<1> QED
  BY <1>8 DEF Told

\* The writer takes a request.
LEMMA ToldTaken ==
    ASSUME StoreTypeOK, WriterTypeOK, queue # <<>>, log' = log, queue' = Tail(queue)
    PROVE  /\ Without(Told, Told', Len(log) + 1)
           /\ Told' \in Seq(Messages) /\ Told[Len(log) + 1] = Head(queue)
<1>1. log \in Seq(Messages) /\ queue \in Seq(Messages)
  BY DEF StoreTypeOK, WriterTypeOK
<1>2. /\ Tail(queue) \in Seq(Messages) /\ Len(Tail(queue)) = Len(queue) - 1
      /\ \A i \in 1..Len(Tail(queue)) : Tail(queue)[i] = queue[i + 1]
      /\ Head(queue) = queue[1]
  BY <1>1, HeadTailProperties
<1> DEFINE new == log \o Tail(queue)
<1>3. /\ new \in Seq(Messages) /\ Len(new) = Len(log) + (Len(queue) - 1)
      /\ \A i \in 1..Len(new) : new[i] = IF i <= Len(log) THEN log[i] ELSE Tail(queue)[i - Len(log)]
  BY <1>1, <1>2, ConcatProperties
<1>4. Len(log) \in Nat /\ Len(queue) \in Nat \ {0}
  BY <1>1
<1>5. Len(Told) = Len(log) + Len(queue)
  BY ToldType
<1>6. ASSUME NEW i \in 1..Len(new)
      PROVE  new[i] = IF i < Len(log) + 1 THEN Told[i] ELSE Told[i + 1]
  <2>1. CASE i <= Len(log)
    BY <2>1, <1>3, <1>4, <1>5, ToldType
  <2>2. CASE i > Len(log)
    <3>1. i - Len(log) \in 1..Len(Tail(queue))
      BY <2>2, <1>2, <1>3, <1>4
    <3>2. new[i] = queue[(i - Len(log)) + 1]
      BY <2>2, <3>1, <1>2, <1>3, <1>4
    <3>3. Told[i + 1] = queue[(i + 1) - Len(log)]
      BY <2>2, <1>3, <1>4, <1>5, ToldType
    <3>4. (i + 1) - Len(log) = (i - Len(log)) + 1
      BY <1>4, <1>3
    <3> QED
      BY <2>2, <3>2, <3>3, <3>4, <1>4, <1>3
  <2> QED
    BY <2>1, <2>2, <1>3, <1>4
<1>7. Len(log) + 1 \in 1..Len(Told) /\ Len(new) = Len(Told) - 1
  BY <1>3, <1>4, <1>5
<1>8. Told[Len(log) + 1] = Head(queue)
  <2>1. Told[Len(log) + 1] = queue[(Len(log) + 1) - Len(log)]
    BY <1>4, <1>7, ToldType
  <2>2. (Len(log) + 1) - Len(log) = 1
    BY <1>4
  <2> QED
    BY <2>1, <2>2, <1>2
<1> QED
  BY <1>3, <1>6, <1>7, <1>8 DEF Without, Told

-----------------------------------------------------------------------------
(* Pairs.                                                                    *)

\* The start of a call's action has been told, or was never to be.
Past(c) == c.at \in {"running", "over"} \/ (c.at \in {"offer", "report", "send"} /\ c.event = "end")

Answered(s, i) == \E j \in i + 1..Len(s) : s[j].what = "end" /\ s[j].of = s[i].of

\* What a sequence tells of the calls in c.
Tells(s, c) ==
    \A i \in 1..Len(s) : s[i].what = "start" =>
        /\ s[i].of \in Actions /\ Past(c[s[i].of])
        /\ c[s[i].of].at = "over" => Answered(s, i)

LEMMA TellsCalls ==
    ASSUME NEW s, NEW c, NEW d, Tells(s, c),
           \A a \in Actions : Past(c[a]) => Past(d[a]) /\ (d[a].at = "over" => c[a].at = "over")
    PROVE  Tells(s, d)
BY Zenon DEF Tells

LEMMA TellsMore ==
    ASSUME NEW s \in Seq(Messages), NEW c, NEW m \in Messages, Tells(s, c), m.what # "start"
    PROVE  Tells(Append(s, m), c)
<1>1. /\ Len(Append(s, m)) = Len(s) + 1 /\ Append(s, m)[Len(s) + 1] = m
      /\ \A i \in 1..Len(s) : Append(s, m)[i] = s[i]
  BY AppendProperties
<1>2. Len(s) \in Nat
  OBVIOUS
<1>3. SUFFICES ASSUME NEW i \in 1..Len(Append(s, m)), Append(s, m)[i].what = "start"
      PROVE  /\ Append(s, m)[i].of \in Actions /\ Past(c[Append(s, m)[i].of])
             /\ c[Append(s, m)[i].of].at = "over" => Answered(Append(s, m), i)
  BY DEF Tells
<1>4. i \in 1..Len(s) /\ Append(s, m)[i] = s[i]
  BY <1>1, <1>2, <1>3
<1>5. Answered(s, i) => Answered(Append(s, m), i)
  BY <1>1, <1>2, <1>4 DEF Answered
<1> QED
  BY <1>3, <1>4, <1>5 DEF Tells

LEMMA TellsLess ==
    ASSUME NEW s \in Seq(Messages), NEW t \in Seq(Messages), NEW c, NEW k, Tells(s, c),
           Without(s, t, k), s[k].what \notin {"start", "end"}
    PROVE  Tells(t, c)
<1>1. Len(s) \in Nat /\ Len(t) = Len(s) - 1 /\ k \in 1..Len(s)
  BY DEF Without
<1> SUFFICES ASSUME NEW i \in 1..Len(t), t[i].what = "start"
    PROVE  t[i].of \in Actions /\ Past(c[t[i].of]) /\ (c[t[i].of].at = "over" => Answered(t, i))
  BY DEF Tells
<1> DEFINE o == IF i < k THEN i ELSE i + 1
<1>2. o \in 1..Len(s) /\ t[i] = s[o] /\ o # k
  BY <1>1 DEF Without
<1>3. ASSUME NEW j \in o + 1..Len(s), s[j].what = "end", s[j].of = s[o].of
      PROVE  Answered(t, i)
  <2> DEFINE p == IF j < k THEN j ELSE j - 1
  <2>1. j # k
    BY <1>3
  <2>2. p \in i + 1..Len(t)
    BY <1>1, <1>2, <2>1
  <2>3. t[p] = s[j]
    <3>1. j \in Nat /\ k \in Nat /\ Len(t) = Len(s) - 1
      BY <1>1, <1>2, <1>3
    <3>2. CASE j < k
      BY <3>1, <3>2, <2>2 DEF Without
    <3>3. CASE j > k
      <4>1. p = j - 1 /\ ~(p < k) /\ p + 1 = j
        BY <3>1, <3>3
      <4> QED
        BY <4>1, <2>2 DEF Without
    <3> QED
      BY <3>1, <3>2, <3>3, <2>1
  <2> QED
    BY <1>2, <1>3, <2>2, <2>3 DEF Answered
<1>4. Answered(s, o) => Answered(t, i)
  BY <1>3 DEF Answered
<1> QED
  BY <1>2, <1>4 DEF Tells

\* The start of a's action is told.
LEMMA TellsStart ==
    ASSUME NEW s \in Seq(Messages), NEW c, NEW d, NEW a \in Actions, NEW n \in Nat, Tells(s, c),
           d[a].at = "running", \A b \in Actions \ {a} : d[b] = c[b]
    PROVE  Tells(Append(s, Event("start", a, 0, n)), d)
<1> DEFINE m == Event("start", a, 0, n)
<1>1. m \in Messages /\ m.what = "start" /\ m.of = a
  BY MessageType DEF Kinds, Event
<1> HIDE DEF m
<1>2. /\ Len(Append(s, m)) = Len(s) + 1 /\ Append(s, m)[Len(s) + 1] = m
      /\ \A i \in 1..Len(s) : Append(s, m)[i] = s[i]
  BY <1>1, AppendProperties
<1>3. Len(s) \in Nat
  OBVIOUS
<1>4. ASSUME NEW i \in 1..Len(s), s[i].what = "start"
      PROVE  s[i].of \in Actions /\ Past(d[s[i].of]) /\ (d[s[i].of].at = "over" => Answered(Append(s, m), i))
  <2>1. s[i].of \in Actions /\ Past(c[s[i].of]) /\ (c[s[i].of].at = "over" => Answered(s, i))
    BY <1>4 DEF Tells
  <2>2. Answered(s, i) => Answered(Append(s, m), i)
    BY <1>2, <1>3 DEF Answered
  <2>3. CASE s[i].of = a
    BY <2>1, <2>3 DEF Past
  <2>4. CASE s[i].of # a
    BY <2>1, <2>2, <2>4
  <2> QED
    BY <2>3, <2>4
<1>5. Tells(Append(s, m), d)
  <2> SUFFICES ASSUME NEW i \in 1..Len(Append(s, m)), Append(s, m)[i].what = "start"
      PROVE  /\ Append(s, m)[i].of \in Actions /\ Past(d[Append(s, m)[i].of])
             /\ d[Append(s, m)[i].of].at = "over" => Answered(Append(s, m), i)
    BY DEF Tells
  <2>1. CASE i \in 1..Len(s)
    BY <2>1, <1>2, <1>4
  <2>2. CASE i = Len(s) + 1
    BY <2>2, <1>1, <1>2 DEF Past
  <2> QED
    BY <2>1, <2>2, <1>2, <1>3
<1> QED
  BY <1>5 DEF m

\* The end of a's action is told.
LEMMA TellsEnd ==
    ASSUME NEW s \in Seq(Messages), NEW c, NEW d, NEW a \in Actions, NEW n \in Nat, Tells(s, c),
           d[a].at = "over", \A b \in Actions \ {a} : d[b] = c[b]
    PROVE  Tells(Append(s, Event("end", a, 0, n)), d)
<1> DEFINE m == Event("end", a, 0, n)
<1>1. m \in Messages /\ m.what = "end" /\ m.of = a
  BY MessageType DEF Kinds, Event
<1> HIDE DEF m
<1>2. /\ Len(Append(s, m)) = Len(s) + 1 /\ Append(s, m)[Len(s) + 1] = m
      /\ \A i \in 1..Len(s) : Append(s, m)[i] = s[i]
  BY <1>1, AppendProperties
<1>3. Len(s) \in Nat
  OBVIOUS
<1>4. ASSUME NEW i \in 1..Len(s), s[i].what = "start"
      PROVE  s[i].of \in Actions /\ Past(d[s[i].of]) /\ (d[s[i].of].at = "over" => Answered(Append(s, m), i))
  <2>1. s[i].of \in Actions /\ Past(c[s[i].of]) /\ (c[s[i].of].at = "over" => Answered(s, i))
    BY <1>4 DEF Tells
  <2>2. Answered(s, i) => Answered(Append(s, m), i)
    BY <1>2, <1>3 DEF Answered
  <2>3. CASE s[i].of = a
    <3>1. Len(s) + 1 \in i + 1..Len(Append(s, m))
      BY <1>2, <1>3
    <3>2. Append(s, m)[i].of = a
      BY <2>3, <1>2
    <3>3. Answered(Append(s, m), i)
      BY <3>1, <3>2, <1>1, <1>2 DEF Answered
    <3> QED
      BY <2>1, <2>3, <3>3 DEF Past
  <2>4. CASE s[i].of # a
    BY <2>1, <2>2, <2>4
  <2> QED
    BY <2>3, <2>4
<1>5. Tells(Append(s, m), d)
  <2> SUFFICES ASSUME NEW i \in 1..Len(Append(s, m)), Append(s, m)[i].what = "start"
      PROVE  /\ Append(s, m)[i].of \in Actions /\ Past(d[Append(s, m)[i].of])
             /\ d[Append(s, m)[i].of].at = "over" => Answered(Append(s, m), i)
    BY DEF Tells
  <2>1. i \in 1..Len(s)
    BY <1>1, <1>2, <1>3
  <2> QED
    BY <2>1, <1>2, <1>4
<1> QED
  BY <1>5 DEF m

-----------------------------------------------------------------------------
(* The invariant: while recording stays on and nothing is lost.              *)

Steady == ~turnedOff /\ ~broken /\ dropped = 0

\* A call that has passed the gate finds recording on until it is over.
InGate == \A a \in Actions : act[a].at \in {"gated", "offer", "report", "send", "running"} => enabled

Paired == Steady => InGate /\ Tells(Told, act)

LEMMA PairedInit == Init => Paired
<1> SUFFICES ASSUME Init PROVE Paired
  OBVIOUS
<1>1. Len(Told) = 0
  BY InitInv, ToldType DEF TypeOK, Init
<1>2. \A a \in Actions : act[a].at = "new"
  BY DEF Init, Call
<1> QED
  BY <1>1, <1>2 DEF Paired, InGate, Tells

\* A step that tells nothing and moves no call.
LEMMA PairedKept ==
    ASSUME Paired, UNCHANGED <<log, queue, act>>, Steady' => Steady /\ (enabled => enabled')
    PROVE  Paired'
<1>1. Told' = Told
  BY DEF Told
<1> QED
  BY <1>1 DEF Paired, InGate

\* A step that tells what is not the start of an action.
LEMMA PairedMore ==
    ASSUME TypeOK, Paired, NEW m \in Messages, m.what # "start", Told' = Append(Told, m), act' = act,
           Steady' => Steady /\ (enabled => enabled')
    PROVE  Paired'
<1> SUFFICES ASSUME Steady' PROVE InGate' /\ Tells(Told', act')
  BY DEF Paired
<1>1. InGate /\ Tells(Told, act)
  BY DEF Paired
<1>2. Told \in Seq(Messages)
  BY ToldType DEF TypeOK
<1> QED
  BY <1>1, <1>2, TellsMore DEF InGate

\* A step of a call that tells nothing.
LEMMA PairedMoved ==
    ASSUME ActTypeOK, Paired, NEW a \in Actions, NEW c, act' = [act EXCEPT ![a] = c],
           UNCHANGED <<log, queue>>, Steady' => Steady /\ enabled' = enabled,
           Steady /\ InGate /\ c.at \in {"gated", "offer", "report", "send", "running"} => enabled,
           Steady /\ InGate /\ Past(act[a]) => Past(c) /\ (c.at = "over" => act[a].at = "over")
    PROVE  Paired'
<1> SUFFICES ASSUME Steady' PROVE InGate' /\ Tells(Told', act')
  BY DEF Paired
<1>1. Steady /\ InGate /\ Tells(Told, act) /\ Told' = Told
  BY DEF Paired, Told
<1>2. act'[a] = c /\ \A b \in Actions \ {a} : act'[b] = act[b]
  BY DEF ActTypeOK
<1>3. InGate'
  BY <1>1, <1>2 DEF InGate
<1>4. \A b \in Actions : Past(act[b]) => Past(act'[b]) /\ (act'[b].at = "over" => act[b].at = "over")
  BY <1>1, <1>2
<1>5. Tells(Told, act')
  BY <1>1, <1>4, TellsCalls, Zenon
<1> QED
  BY <1>1, <1>3, <1>5

LEMMA PairedCall ==
    ASSUME TypeOK, Paired, NEW a \in Actions, ToolCall(a) \/ OfferEvent(a)
    PROVE  Paired'
<1>1. act[a] \in Calls /\ ActTypeOK /\ dropped \in Nat
  BY DEF TypeOK, ActTypeOK, StoreTypeOK
<1>2. CASE BeginAction(a)
  <2>1. act' = [act EXCEPT ![a] = Call(IF enabled THEN "gated" ELSE "over", act[a].event)]
    BY <1>2 DEF BeginAction, Move
  <2> QED
    BY <1>1, <1>2, <2>1, PairedMoved DEF BeginAction, Call, Past, Steady, past, counters, switches,
       store, writer
<1>3. CASE PassGate(a)
  <2>1. act' = [act EXCEPT ![a] = Call(IF paused THEN "over" ELSE "offer", act[a].event)]
    BY <1>3 DEF PassGate, Move
  <2> QED
    BY <1>1, <1>3, <2>1, PairedMoved DEF PassGate, Call, Past, Steady, InGate, past, counters, switches,
       store, writer
<1>4. CASE FinishAction(a)
  <2>1. act' = [act EXCEPT ![a] = IF enabled THEN Call("offer", "end") ELSE Call("over", "start")]
    BY <1>4 DEF FinishAction, FinishGate
  <2> QED
    BY <1>1, <1>4, <2>1, PairedMoved DEF FinishAction, Call, Past, Steady, InGate, past, counters,
       switches, store, writer
<1>5. CASE TryLock(a)
  <2>1. CASE slot = Nobody /\ handle
    <3>1. act' = [act EXCEPT ![a] = Call("report", act[a].event)]
      BY <1>5, <2>1 DEF TryLock, Move
    <3> QED
      BY <1>1, <1>5, <2>1, <3>1, PairedMoved DEF TryLock, Call, Past, Steady, InGate, past, counters,
         switches, store, writer
  <2>2. CASE ~(slot = Nobody /\ handle)
    BY <1>1, <1>5, <2>2 DEF TryLock, RecordDrop, Paired, Steady
  <2> QED
    BY <2>1, <2>2
<1>6. CASE ReportDrops(a)
  <2>1. act' = [act EXCEPT ![a] = Call("send", act[a].event)]
    BY <1>6 DEF ReportDrops, Move
  <2>2. CASE queue' = queue
    BY <1>1, <1>6, <2>1, <2>2, PairedMoved DEF ReportDrops, Call, Past, Steady, InGate, past,
       switches, store
  <2>3. CASE queue' # queue
    <3>1. SUFFICES ASSUME Steady' PROVE InGate' /\ Tells(Told', act')
      BY DEF Paired
    <3>2. Steady /\ InGate /\ Tells(Told, act)
      BY <1>6, <3>1 DEF ReportDrops, Steady, Paired, past
    <3>3. act'[a] = Call("send", act[a].event) /\ (\A b \in Actions \ {a} : act'[b] = act[b])
          /\ act[a].at = "report"
      BY <1>1, <1>6, <2>1 DEF ReportDrops, ActTypeOK
    <3>4. \A b \in Actions : Past(act[b]) => Past(act'[b]) /\ (act'[b].at = "over" => act[b].at = "over")
      BY <3>3 DEF Past, Call
    <3>5. Tells(Told, act')
      BY <3>2, <3>4, TellsCalls, Zenon
    <3> DEFINE m == Event("drops", Nobody, unreported, next)
    <3>6. m \in Messages /\ m.what = "drops"
      BY MessageType DEF Kinds, TypeOK, StoreTypeOK, Event
    <3>7. queue' = Append(queue, m) /\ log' = log /\ enabled' = enabled
      BY <1>6, <2>3 DEF ReportDrops, store, switches
    <3>8. Told' = Append(Told, m) /\ Told \in Seq(Messages)
      BY <3>6, <3>7, ToldSent, ToldType DEF TypeOK
    <3>9. Tells(Told', act')
      BY <3>5, <3>6, <3>8, TellsMore
    <3>10. InGate'
      BY <3>2, <3>3, <3>7 DEF InGate, Call
    <3> QED
      BY <3>9, <3>10
  <2> QED
    BY <2>2, <2>3
<1>7. CASE TrySend(a)
  <2>1. CASE ~Room
    BY <1>1, <1>7, <2>1 DEF TrySend, RecordDrop, Paired, Steady
  <2>2. CASE Room
    <3>1. SUFFICES ASSUME Steady' PROVE InGate' /\ Tells(Told', act')
      BY DEF Paired
    <3>2. Steady /\ InGate /\ Tells(Told, act) /\ enabled' = enabled /\ log' = log
      BY <1>7, <2>2, <3>1 DEF TrySend, Steady, Paired, past, switches, store
    <3>3. /\ act'[a] = Call(Offered(a), act[a].event) /\ \A b \in Actions \ {a} : act'[b] = act[b]
          /\ act[a].at = "send" /\ act[a].event \in {"start", "end"}
      BY <1>1, <1>7 DEF TrySend, Move, ActTypeOK, Calls
    <3>4. Event(act[a].event, a, 0, next) \in Messages
      BY <1>1, MessageType, CallKinds DEF TypeOK, StoreTypeOK
    <3>5. Told' = Append(Told, Event(act[a].event, a, 0, next)) /\ Told \in Seq(Messages)
      BY <1>7, <2>2, <3>2, <3>4, ToldSent, ToldType DEF TrySend, TypeOK
    <3>6. InGate'
      BY <3>2, <3>3 DEF InGate, Call
    <3>7. next \in Nat
      BY DEF TypeOK, StoreTypeOK
    <3>8. CASE act[a].event = "start"
      <4>1. act'[a].at = "running"
        BY <3>3, <3>8 DEF Call, Offered
      <4> QED
        BY <3>2, <3>3, <3>5, <3>6, <3>7, <3>8, <4>1, TellsStart
    <3>9. CASE act[a].event = "end"
      <4>1. act'[a].at = "over"
        BY <3>3, <3>9 DEF Call, Offered
      <4> QED
        BY <3>2, <3>3, <3>5, <3>6, <3>7, <3>9, <4>1, TellsEnd
    <3> QED
      BY <3>3, <3>8, <3>9
  <2> QED
    BY <2>1, <2>2
<1> QED
  BY <1>2, <1>3, <1>4, <1>5, <1>6, <1>7 DEF ToolCall, OfferEvent

LEMMA PairedTaken ==
    ASSUME TypeOK, Paired, queue # <<>>, UNCHANGED <<log, act, enabled, turnedOff, broken, dropped>>,
           queue' = Tail(queue), Head(queue).what \notin {"start", "end"}
    PROVE  Paired'
<1> SUFFICES ASSUME Steady' PROVE InGate' /\ Tells(Told', act')
  BY DEF Paired
<1>1. InGate /\ Tells(Told, act)
  BY DEF Paired, Steady
<1>2. /\ Without(Told, Told', Len(log) + 1) /\ Told' \in Seq(Messages)
      /\ Told[Len(log) + 1] = Head(queue) /\ Told \in Seq(Messages)
  BY ToldTaken, ToldType DEF TypeOK
<1>3. Tells(Told', act)
  BY <1>1, <1>2, TellsLess
<1> QED
  BY <1>1, <1>3 DEF InGate

LEMMA PairedWriter ==
    ASSUME TypeOK, Paired, WriterLoop \/ MaintenanceFails
    PROVE  Paired'
<1>1. CASE AppendEvent
  <2>1. Told' = Told
    BY <1>1, ToldAppended DEF AppendEvent, TypeOK
  <2> QED
    BY <1>1, <2>1 DEF AppendEvent, Paired, InGate, Steady, switches, counters, past
<1>2. CASE AppendFails \/ MaintenanceFails
  BY <1>2 DEF AppendFails, MaintenanceFails, Fail, Paired, Steady
<1>3. CASE DiscardEvent
  BY <1>3 DEF DiscardEvent, RecordDrop, Paired, Steady, TypeOK, StoreTypeOK
<1>4. CASE AnswerRequest
  BY <1>4, PairedTaken DEF AnswerRequest, switches, counters, past, store
<1>5. CASE ExitThread
  BY <1>5, PairedTaken DEF ExitThread, switches, counters, past, store
<1> QED
  BY <1>1, <1>2, <1>3, <1>4, <1>5 DEF WriterLoop

LEMMA PairedStart == ASSUME TypeOK, Paired, StartOperation PROVE Paired'
<1>1. ASSUME NEW op, NEW where, Begin(op, where)
      PROVE  UNCHANGED <<log, queue, act, dropped, broken>>
  BY <1>1 DEF Begin, store, writer, counters
<1>2. CASE Enable
  BY <1>1, <1>2, PairedKept DEF Enable, Steady
<1>3. CASE Disable
  BY <1>1, <1>3, PairedKept DEF Disable, Steady
<1>4. CASE DeleteAll
  BY <1>1, <1>4, PairedKept DEF DeleteAll, Steady
<1>5. CASE Pause
  BY <1>1, <1>5, PairedKept DEF Pause, Adjust, Steady
<1>6. CASE Resume
  BY <1>1, <1>6, PairedKept DEF Resume, Adjust, Steady
<1>7. CASE Flush
  BY <1>1, <1>7, PairedKept DEF Flush, Adjust, Steady
<1>8. CASE Query
  BY <1>1, <1>8, PairedKept DEF Query, Steady
<1> QED
  BY <1>2, <1>3, <1>4, <1>5, <1>6, <1>7, <1>8 DEF StartOperation

LEMMA MarkerKind ==
    ASSUME NEW op \in AllOperations
    PROVE  Marker(op) \in Kinds /\ Marker(op) \notin {"start", "end", "Flush", "ReadSnapshot", "Shutdown"}
BY DEF Marker, Kinds, AllOperations

\* With no handle and nobody stopping the writer nothing is queued.
LEMMA QueueGone ==
    ASSUME Shape, control.at \in {"start writer", "offline"}
    PROVE  queue = <<>>
BY DEF Shape, Agreement, Gone, ThreadInv

LEMMA PairedRun ==
    ASSUME TypeOK, HistoryInv, Paired, RunOperation
    PROVE  Paired'
<1>1. /\ control.op \in AllOperations \cup {"none"} /\ next \in Nat /\ LastSeq \in Nat /\ awaiting \in Nat
      /\ dropped \in Nat /\ Shape /\ Course /\ enabled \in BOOLEAN
  BY ControlFields, LastType DEF TypeOK, ControlTypeOK, StoreTypeOK, SwitchTypeOK, HistoryInv, Shape
<1>2. CASE StartWriter
  <2>1. CASE log' = log
    BY <1>2, <2>1, PairedKept DEF StartWriter, Steady, switches, past
  <2>2. CASE log' # log
    <3> DEFINE m == Event("enable", Nobody, 0, FirstSequence)
    <3>1. FirstSequence \in Nat
      BY <1>1 DEF FirstSequence
    <3>2. m \in Messages /\ m.what = "enable"
      BY <3>1, MessageType DEF Kinds, AllOperations, Event
    <3>3. log' = Append(log, m) /\ queue' = queue
      BY <1>2, <2>2 DEF StartWriter
    <3>4. queue = <<>>
      BY <1>1, <1>2, QueueGone DEF StartWriter
    <3>5. Told' = Append(Told, m)
      BY <3>2, <3>3, <3>4, ToldStored DEF TypeOK
    <3>6. act' = act /\ (Steady' => Steady /\ (enabled => enabled'))
      BY <1>2 DEF StartWriter, Steady, switches, past
    <3> QED
      BY <3>2, <3>5, <3>6, PairedMore
  <2> QED
    BY <2>1, <2>2
<1>3. CASE Persist \/ PersistFails
  <2>1. CASE Persist
    BY <2>1, PairedKept DEF Persist, Steady, store, switches, writer, counters, past
  <2>2. CASE PersistFails
    BY <2>2, PairedKept DEF PersistFails, Steady, store, switches, writer, counters, past
  <2> QED
    BY <1>3, <2>1, <2>2
<1>4. CASE TakeSlot \/ CloneSender \/ Flushed \/ Undo
  <2>1. CASE TakeSlot
    BY <2>1, PairedKept DEF TakeSlot, Steady, store, switches, writer, counters, past
  <2>2. CASE CloneSender
    BY <2>2, PairedKept DEF CloneSender, Steady, store, switches, writer, counters, past
  <2>3. CASE Flushed
    BY <2>3, PairedKept DEF Flushed, Steady, store, switches, writer, counters, past
  <2>4. CASE Undo
    BY <2>4, PairedKept DEF Undo, Steady, store, switches, writer, counters, past
  <2> QED
    BY <1>4, <2>1, <2>2, <2>3, <2>4
<1>5. CASE SendMarker
  <2> DEFINE m == Event(Marker(control.op), Nobody, 0, next)
  <2>1. control.op \in AllOperations
    BY <1>1, <1>5 DEF SendMarker, Course
  <2>2. m \in Messages /\ m.what # "start"
    <3>1. Marker(control.op) \in Kinds /\ Marker(control.op) # "start"
      BY <2>1, MarkerKind
    <3>2. m \in Messages
      BY <1>1, <3>1, MessageType
    <3>3. m.what = Marker(control.op)
      BY DEF Event
    <3> QED
      BY <3>1, <3>2, <3>3
  <2>3. queue' = Append(queue, m) /\ log' = log
    BY <1>5 DEF SendMarker, store
  <2>4. Told' = Append(Told, m)
    BY <2>2, <2>3, ToldSent DEF TypeOK
  <2>5. act' = act /\ (Steady' => Steady /\ (enabled => enabled'))
    BY <1>5 DEF SendMarker, Steady, switches, past
  <2> QED
    BY <2>2, <2>4, <2>5, PairedMore
<1>6. CASE Ask
  <2>1. PICK what \in {"Flush", "ReadSnapshot"} : queue' = Append(queue, Request(what, awaiting'))
    BY <1>6 DEF Ask
  <2>2. awaiting' \in Nat /\ log' = log
    BY <1>1, <1>6 DEF Ask, store
  <2>3. Request(what, awaiting') \in Messages /\ Request(what, awaiting').what # "start"
    <3>1. Request(what, awaiting') \in Messages
      BY <2>2, RequestType
    <3>2. Request(what, awaiting').what = what
      BY DEF Request, Event
    <3> QED
      BY <3>1, <3>2
  <2>4. Told' = Append(Told, Request(what, awaiting'))
    BY <2>1, <2>2, <2>3, ToldSent DEF TypeOK
  <2>5. act' = act /\ (Steady' => Steady /\ (enabled => enabled'))
    BY <1>6 DEF Ask, Steady, switches, counters, past
  <2> QED
    BY <2>3, <2>4, <2>5, PairedMore
<1>7. CASE Open \/ Settle \/ Join \/ SnapshotRead
  <2>1. CASE Open
    BY <2>1, PairedKept DEF Open, OpenGate, Steady, store, switches, writer, counters, past
  <2>2. CASE Settle
    BY <2>2, PairedKept DEF Settle, Steady, store, switches, writer, counters, past
  <2>3. CASE Join
    BY <2>3, PairedKept DEF Join, Steady, store, switches, writer, counters, past
  <2>4. CASE SnapshotRead
    BY <2>4, PairedKept DEF SnapshotRead, Steady, store, switches, writer, counters, past
  <2> QED
    BY <1>7, <2>1, <2>2, <2>3, <2>4
<1>8. CASE SendShutdown
  <2>1. Request("Shutdown", 0) \in Messages /\ Request("Shutdown", 0).what = "Shutdown"
    BY RequestType DEF Request, Event
  <2>2. Told' = Append(Told, Request("Shutdown", 0))
    BY <1>8, <2>1, ToldSent DEF SendShutdown, TypeOK, store
  <2>3. act' = act /\ (Steady' => Steady /\ (enabled => enabled'))
    BY <1>8 DEF SendShutdown, Steady, switches, counters, past
  <2> QED
    BY <2>1, <2>2, <2>3, PairedMore
<1>9. CASE Erase
  <2>1. CASE broken'
    BY <2>1 DEF Paired, Steady
  <2>2. CASE ~broken'
    BY <1>9, <2>2, PairedKept DEF Erase, Steady, writer
  <2> QED
    BY <2>1, <2>2
<1>10. CASE QueryOffline
  <2>1. act' = act /\ (Steady' => Steady /\ (enabled => enabled')) /\ queue' = queue
    BY <1>10 DEF QueryOffline, Steady, switches, past, writer
  <2>2. CASE log' = log
    BY <2>1, <2>2, PairedKept
  <2>3. CASE log' # log
    <3> DEFINE m == Event("access", Nobody, 0, NextOffline)
    <3>1. NextOffline \in Nat
      BY <1>1 DEF NextOffline
    <3>2. m \in Messages /\ m.what = "access"
      BY <3>1, MessageType DEF Kinds, Event
    <3>3. log' = Append(log, m)
      BY <1>10, <2>3 DEF QueryOffline
    <3>4. queue = <<>>
      BY <1>1, <1>10, QueueGone DEF QueryOffline
    <3>5. Told' = Append(Told, m)
      BY <2>1, <3>2, <3>3, <3>4, ToldStored DEF TypeOK
    <3> QED
      BY <2>1, <3>2, <3>5, PairedMore
  <2> QED
    BY <2>2, <2>3
<1> QED
  BY <1>2, <1>3, <1>4, <1>5, <1>6, <1>7, <1>8, <1>9, <1>10 DEF RunOperation

LEMMA PairedNext ==
    ASSUME TypeOK, HistoryInv, Paired, [Next]_vars
    PROVE  Paired'
<1>1. CASE Restart
  BY <1>1 DEF Restart, Paired, Steady
<1>2. CASE UNCHANGED vars
  BY <1>2, PairedKept DEF vars, store, writer, switches, counters, past, Steady
<1> QED
  BY <1>1, <1>2, PairedCall, PairedWriter, PairedStart, PairedRun DEF Next

-----------------------------------------------------------------------------
(* Nothing is told twice.                                                    *)

\* What a sequence tells of one call is its start, after which the call is past
\* its start, and behind that its end, after which the call is over.
TellsOf(s, c, i) ==
    /\ \/ s[i].what = "start" /\ Past(c[s[i].of])
       \/ s[i].what = "end" /\ c[s[i].of].at = "over"
    /\ \A j \in i + 1..Len(s) : s[j].of = s[i].of => s[i].what = "start" /\ s[j].what = "end"

InOrder(s, c) == \A i \in 1..Len(s) : s[i].of \in Actions => TellsOf(s, c, i)

\* Calls only go on.
Onward(c, d) ==
    \A a \in Actions : (Past(c[a]) => Past(d[a])) /\ (c[a].at = "over" => d[a].at = "over")

LEMMA OrderCalls ==
    ASSUME NEW s, NEW c, NEW d, InOrder(s, c), Onward(c, d)
    PROVE  InOrder(s, d)
BY Zenon DEF InOrder, TellsOf, Onward

\* A message that is no call's.
LEMMA OrderMore ==
    ASSUME NEW s \in Seq(Messages), NEW c, NEW m \in Messages, InOrder(s, c), m.of \notin Actions
    PROVE  InOrder(Append(s, m), c)
<1>1. /\ Len(Append(s, m)) = Len(s) + 1 /\ Append(s, m)[Len(s) + 1] = m
      /\ \A i \in 1..Len(s) : Append(s, m)[i] = s[i]
  BY AppendProperties
<1>2. Len(s) \in Nat
  OBVIOUS
<1> SUFFICES ASSUME NEW i \in 1..Len(Append(s, m)), Append(s, m)[i].of \in Actions
             PROVE  TellsOf(Append(s, m), c, i)
  BY DEF InOrder
<1>3. i \in 1..Len(s) /\ Append(s, m)[i] = s[i]
  BY <1>1, <1>2
<1>4. \A j \in i + 1..Len(Append(s, m)) :
          Append(s, m)[j].of = s[i].of => j \in i + 1..Len(s) /\ Append(s, m)[j] = s[j]
  BY <1>1, <1>2, <1>3
<1>5. TellsOf(s, c, i)
  BY <1>3 DEF InOrder
<1> QED
  BY <1>3, <1>4, <1>5 DEF TellsOf

\* A message less, and no message but those of the front.
LEMMA OrderLess ==
    ASSUME NEW s \in Seq(Messages), NEW t \in Seq(Messages), NEW c, NEW k, InOrder(s, c),
           Without(s, t, k)
    PROVE  InOrder(t, c)
<1>1. Len(s) \in Nat /\ Len(t) = Len(s) - 1 /\ k \in 1..Len(s)
  BY DEF Without
<1> DEFINE o(i) == IF i < k THEN i ELSE i + 1
<1>2. \A i \in 1..Len(t) : o(i) \in 1..Len(s) /\ t[i] = s[o(i)]
  BY <1>1 DEF Without
<1>3. \A i \in 1..Len(t) : \A j \in i + 1..Len(t) : j \in 1..Len(t) /\ o(j) \in o(i) + 1..Len(s)
  BY <1>1
<1> HIDE DEF o
<1> SUFFICES ASSUME NEW i \in 1..Len(t), t[i].of \in Actions PROVE TellsOf(t, c, i)
  BY DEF InOrder
<1>4. TellsOf(s, c, o(i)) /\ t[i] = s[o(i)]
  BY <1>2 DEF InOrder
<1>5. \A j \in i + 1..Len(t) : o(j) \in o(i) + 1..Len(s) /\ t[j] = s[o(j)]
  BY <1>2, <1>3
<1> QED
  BY <1>4, <1>5 DEF TellsOf

LEMMA OrderFront ==
    ASSUME NEW s \in Seq(Messages), NEW t \in Seq(Messages), NEW c, InOrder(s, c),
           Len(t) <= Len(s), \A i \in 1..Len(t) : t[i] = s[i]
    PROVE  InOrder(t, c)
<1>1. Len(s) \in Nat /\ Len(t) \in Nat
  OBVIOUS
<1> SUFFICES ASSUME NEW i \in 1..Len(t), t[i].of \in Actions PROVE TellsOf(t, c, i)
  BY DEF InOrder
<1>2. i \in 1..Len(s) /\ t[i] = s[i] /\ TellsOf(s, c, i)
  BY <1>1 DEF InOrder
<1>3. \A j \in i + 1..Len(t) : j \in i + 1..Len(s) /\ t[j] = s[j]
  BY <1>1
<1> QED
  BY <1>2, <1>3 DEF TellsOf

\* A call sends the event that is next, its start or its end.
LEMMA OrderTold ==
    ASSUME NEW s \in Seq(Messages), NEW c, NEW d, NEW a \in Actions, NEW n \in Nat, InOrder(s, c),
           c[a].at = "send", c[a].event \in {"start", "end"}, \A b \in Actions \ {a} : d[b] = c[b],
           d[a].at = IF c[a].event = "start" THEN "running" ELSE "over"
    PROVE  InOrder(Append(s, Event(c[a].event, a, 0, n)), d)
<1> DEFINE m == Event(c[a].event, a, 0, n)
           t == Append(s, m)
<1>1. m \in Messages /\ m.what = c[a].event /\ m.of = a
  BY MessageType DEF Kinds, Event
<1> HIDE DEF m
<1>2. /\ Len(t) = Len(s) + 1 /\ t[Len(s) + 1] = m
      /\ \A i \in 1..Len(s) : t[i] = s[i]
  BY <1>1, AppendProperties
<1>3. Len(s) \in Nat
  OBVIOUS
<1> HIDE DEF t
<1>4. ASSUME NEW i \in 1..Len(s), s[i].of \in Actions PROVE TellsOf(t, d, i)
  <2>1. TellsOf(s, c, i) /\ t[i] = s[i]
    BY <1>2, <1>4 DEF InOrder
  <2>2. \A j \in i + 1..Len(t) : j = Len(s) + 1 \/ (j \in i + 1..Len(s) /\ t[j] = s[j])
    BY <1>2, <1>3
  <2>3. CASE s[i].of = a
    <3>1. s[i].what = "start" /\ Past(c[a]) /\ c[a].event = "end"
      BY <2>1, <2>3 DEF TellsOf, Past
    <3>2. Past(d[a]) /\ m.what = "end"
      BY <3>1, <1>1 DEF Past
    <3> QED
      BY <2>1, <2>2, <2>3, <3>1, <3>2, <1>2 DEF TellsOf
  <2>4. CASE s[i].of # a
    <3>1. d[s[i].of] = c[s[i].of]
      BY <1>4, <2>4
    <3>2. t[Len(s) + 1].of # s[i].of
      BY <1>1, <1>2, <2>4
    <3> QED
      BY <2>1, <2>2, <3>1, <3>2 DEF TellsOf
  <2> QED
    BY <2>3, <2>4
<1>5. TellsOf(t, d, Len(s) + 1)
  <2>1. (Len(s) + 1) + 1..Len(t) = {}
    BY <1>2, <1>3
  <2>2. \/ t[Len(s) + 1].what = "start" /\ Past(d[a])
        \/ t[Len(s) + 1].what = "end" /\ d[a].at = "over"
    BY <1>1, <1>2 DEF Past
  <2> QED
    BY <2>1, <2>2, <1>1, <1>2 DEF TellsOf
<1>6. \A i \in 1..Len(t) : i \in 1..Len(s) \/ i = Len(s) + 1
  BY <1>2, <1>3
<1>7. InOrder(t, d)
  BY <1>2, <1>4, <1>5, <1>6 DEF InOrder
<1> QED
  BY <1>7 DEF t, m

-----------------------------------------------------------------------------

Ordered == InOrder(Told, act)

LEMMA OrderedInit == Init => Ordered
<1> SUFFICES ASSUME Init PROVE Ordered
  OBVIOUS
<1>1. Len(Told) = 0
  BY InitInv, ToldType DEF TypeOK, Init
<1> QED
  BY <1>1 DEF Ordered, InOrder

LEMMA OrderedKept ==
    ASSUME Ordered, UNCHANGED <<log, queue, act>>
    PROVE  Ordered'
BY DEF Ordered, Told

LEMMA OrderedMore ==
    ASSUME StoreTypeOK, WriterTypeOK, Ordered, NEW m \in Messages, m.of = Nobody,
           Told' = Append(Told, m), act' = act
    PROVE  Ordered'
<1>1. Told \in Seq(Messages) /\ m.of \notin Actions
  BY ToldType, ActionAssumption
<1> QED
  BY <1>1, OrderMore DEF Ordered

LEMMA OrderedTaken ==
    ASSUME StoreTypeOK, WriterTypeOK, Ordered, queue # <<>>, queue' = Tail(queue),
           log' = log, act' = act
    PROVE  Ordered'
BY ToldTaken, ToldType, OrderLess DEF Ordered

LEMMA OrderedMoved ==
    ASSUME ActTypeOK, Ordered, NEW a \in Actions, NEW c, act' = [act EXCEPT ![a] = c], Told' = Told,
           Past(act[a]) => Past(c), act[a].at # "over"
    PROVE  Ordered'
<1>1. act'[a] = c /\ \A b \in Actions \ {a} : act'[b] = act[b]
  BY DEF ActTypeOK
<1>2. Onward(act, act')
  BY <1>1 DEF Onward
<1>3. InOrder(Told, act)
  BY DEF Ordered
<1>4. InOrder(Told, act')
  BY <1>2, <1>3, OrderCalls, Zenon
<1>5. InOrder(Told', act')
  BY <1>4
<1> QED
  BY <1>5 DEF Ordered

LEMMA OrderedCall ==
    ASSUME TypeOK, Ordered, NEW a \in Actions, ToolCall(a) \/ OfferEvent(a)
    PROVE  Ordered'
<1>1. act[a] \in Calls /\ ActTypeOK /\ StoreTypeOK /\ WriterTypeOK /\ next \in Nat /\ unreported \in Nat
  BY DEF TypeOK, ActTypeOK, StoreTypeOK
<1>2. CASE BeginAction(a) \/ PassGate(a)
  <2>1. PICK w : act' = [act EXCEPT ![a] = Call(w, act[a].event)]
    BY <1>2 DEF BeginAction, PassGate, Move
  <2>2. Told' = Told /\ act[a].at \in {"new", "gated"}
    BY <1>2 DEF BeginAction, PassGate, Told, store, writer
  <2> QED
    BY <1>1, <2>1, <2>2, OrderedMoved DEF Past
<1>3. CASE FinishAction(a)
  <2>1. PICK c \in {Call("offer", "end"), Call("over", "start")} : act' = [act EXCEPT ![a] = c]
    BY <1>3 DEF FinishAction
  <2>2. Told' = Told /\ act[a].at = "running"
    BY <1>3 DEF FinishAction, Told, store, writer
  <2> QED
    BY <1>1, <2>1, <2>2, OrderedMoved DEF Past, Call
<1>4. CASE TryLock(a)
  <2>1. PICK w \in {"report", Offered(a)} : act' = [act EXCEPT ![a] = Call(w, act[a].event)]
    BY <1>4 DEF TryLock, Move
  <2>2. Told' = Told /\ act[a].at = "offer"
    BY <1>4 DEF TryLock, Told, store, writer
  <2>3. Past(act[a]) => Past(Call(w, act[a].event))
    BY <2>1, <2>2 DEF Past, Call, Offered
  <2> QED
    BY <1>1, <2>1, <2>2, <2>3, OrderedMoved
<1>5. CASE ReportDrops(a)
  <2>1. act' = [act EXCEPT ![a] = Call("send", act[a].event)] /\ log' = log /\ act[a].at = "report"
    BY <1>5 DEF ReportDrops, Move, store
  <2>2. Past(act[a]) => Past(Call("send", act[a].event))
    BY <2>1 DEF Past, Call
  <2>3. CASE queue' = queue
    BY <1>1, <2>1, <2>2, <2>3, OrderedMoved DEF Told
  <2>4. CASE queue' # queue
    <3> DEFINE m == Event("drops", Nobody, unreported, next)
    <3>1. m \in Messages /\ m.of = Nobody
      BY <1>1, MessageType DEF Kinds, Event
    <3>2. queue' = Append(queue, m)
      BY <1>5, <2>4 DEF ReportDrops
    <3>3. Told' = Append(Told, m) /\ Told \in Seq(Messages) /\ m.of \notin Actions
      BY <1>1, <2>1, <3>1, <3>2, ToldSent, ToldType, ActionAssumption
    <3>4. InOrder(Told', act)
      BY <3>1, <3>3, OrderMore DEF Ordered
    <3>5. act'[a] = Call("send", act[a].event) /\ \A b \in Actions \ {a} : act'[b] = act[b]
      BY <1>1, <2>1 DEF ActTypeOK
    <3>6. Onward(act, act')
      BY <2>1, <2>2, <3>5 DEF Onward
    <3>7. InOrder(Told', act')
      BY <3>4, <3>6, OrderCalls, Zenon
    <3> QED
      BY <3>7 DEF Ordered
  <2> QED
    BY <2>3, <2>4
<1>6. CASE TrySend(a)
  <2>1. /\ act' = [act EXCEPT ![a] = Call(Offered(a), act[a].event)]
        /\ act[a].at = "send" /\ act[a].event \in {"start", "end"} /\ log' = log
    BY <1>1, <1>6 DEF TrySend, Move, Calls, store
  <2>2. CASE ~Room
    <3>1. Past(act[a]) => Past(Call(Offered(a), act[a].event))
      BY <2>1 DEF Past, Call, Offered
    <3> QED
      BY <1>1, <1>6, <2>1, <2>2, <3>1, OrderedMoved DEF TrySend, Told
  <2>3. CASE Room
    <3> DEFINE m == Event(act[a].event, a, 0, next)
    <3>1. m \in Messages
      BY <1>1, MessageType, CallKinds
    <3>2. Told' = Append(Told, m) /\ Told \in Seq(Messages)
      BY <1>1, <1>6, <2>1, <2>3, <3>1, ToldSent, ToldType DEF TrySend
    <3>3. /\ act'[a].at = IF act[a].event = "start" THEN "running" ELSE "over"
          /\ \A b \in Actions \ {a} : act'[b] = act[b]
      BY <1>1, <2>1 DEF ActTypeOK, Call, Offered
    <3>4. InOrder(Told, act)
      BY DEF Ordered
    <3>5. InOrder(Append(Told, m), act')
      <4>1. next \in Nat /\ Told \in Seq(Messages) /\ act[a].at = "send" /\ act[a].event \in {"start", "end"}
        BY <1>1, <2>1, <3>2
      <4> QED
        BY <3>3, <3>4, <4>1, OrderTold, SMT
    <3>6. InOrder(Told', act')
      BY <3>2, <3>5
    <3> QED
      BY <3>6 DEF Ordered
  <2> QED
    BY <2>2, <2>3
<1> QED
  BY <1>2, <1>3, <1>4, <1>5, <1>6 DEF ToolCall, OfferEvent

LEMMA OrderedWriter ==
    ASSUME TypeOK, Ordered, WriterLoop \/ MaintenanceFails
    PROVE  Ordered'
<1>1. StoreTypeOK /\ WriterTypeOK
  BY DEF TypeOK
<1>2. CASE AppendEvent
  <2>1. Told' = Told
    BY <1>1, <1>2, ToldAppended DEF AppendEvent
  <2> QED
    BY <1>2, <2>1 DEF AppendEvent, Ordered
<1>3. CASE AppendFails \/ DiscardEvent \/ AnswerRequest \/ ExitThread
  BY <1>1, <1>3, OrderedTaken DEF AppendFails, DiscardEvent, AnswerRequest, ExitThread, store
<1>4. CASE MaintenanceFails
  BY <1>4, OrderedKept DEF MaintenanceFails, store
<1> QED
  BY <1>2, <1>3, <1>4 DEF WriterLoop

LEMMA OrderedRun ==
    ASSUME TypeOK, HistoryInv, Ordered, RunOperation
    PROVE  Ordered'
<1>1. /\ StoreTypeOK /\ WriterTypeOK /\ ControlTypeOK /\ Shape /\ Course
      /\ next \in Nat /\ LastSeq \in Nat
  BY LastType DEF TypeOK, StoreTypeOK, HistoryInv, Shape
<1>2. CASE StartWriter
  <2> DEFINE m == Event("enable", Nobody, 0, FirstSequence)
  <2>1. m \in Messages /\ m.of = Nobody
    BY <1>1, MessageType DEF FirstSequence, Event, Kinds, AllOperations
  <2>2. queue = <<>> /\ queue' = queue /\ act' = act
    BY <1>1, <1>2, QueueGone DEF StartWriter
  <2>3. CASE log' = log
    BY <2>2, <2>3, OrderedKept
  <2>4. CASE log' = Append(log, m)
    <3>1. Told' = Append(Told, m)
      BY <1>1, <2>1, <2>2, <2>4, ToldStored
    <3> QED
      BY <1>1, <2>1, <2>2, <3>1, OrderedMore
  <2> QED
    BY <1>2, <2>3, <2>4 DEF StartWriter
<1>3. CASE SendMarker
  <2> DEFINE m == Event(Marker(control.op), Nobody, 0, next)
  <2>1. control.op \in AllOperations
    BY <1>1, <1>3 DEF SendMarker, Course, Marking, Stopping, AllOperations
  <2>2. m \in Messages /\ m.of = Nobody
    <3>1. Marker(control.op) \in Kinds
      BY <2>1, MarkerKind
    <3> QED
      BY <1>1, <3>1, MessageType DEF Event
  <2>3. log' = log /\ queue' = Append(queue, m) /\ act' = act
    BY <1>3 DEF SendMarker, store
  <2>4. Told' = Append(Told, m)
    BY <1>1, <2>2, <2>3, ToldSent
  <2> QED
    BY <1>1, <2>2, <2>3, <2>4, OrderedMore
<1>4. CASE Ask \/ SendShutdown
  <2>1. PICK what \in {"Flush", "ReadSnapshot", "Shutdown"}, n \in Nat :
            queue' = Append(queue, Request(what, n))
    BY <1>1, <1>4 DEF Ask, SendShutdown, ControlTypeOK
  <2> DEFINE m == Request(what, n)
  <2>2. m \in Messages /\ m.of = Nobody
    BY RequestType DEF Request, Event
  <2>3. log' = log /\ queue' = Append(queue, m) /\ act' = act
    BY <1>4, <2>1 DEF Ask, SendShutdown, store
  <2>4. Told' = Append(Told, m)
    BY <1>1, <2>2, <2>3, ToldSent
  <2> QED
    BY <1>1, <2>2, <2>3, <2>4, OrderedMore
<1>5. CASE Erase
  <2>1. queue' = queue /\ queue = <<>> /\ act' = act
    BY <1>1, <1>5 DEF Erase, writer, Shape, Agreement, Gone, ThreadInv
  <2>2. CASE log' = log
    BY <2>1, <2>2, OrderedKept
  <2>3. CASE log' = <<>>
    <3>1. <<>> \in Seq(Messages) /\ Told' = <<>> \o <<>>
      BY <2>1, <2>3, EmptyType DEF Told
    <3>2. Len(Told') = 0
      BY <3>1, EmptyType, ConcatProperties
    <3> QED
      BY <3>2 DEF Ordered, InOrder
  <2> QED
    BY <1>5, <2>2, <2>3 DEF Erase
<1>6. CASE QueryOffline
  <2> DEFINE m == Event("access", Nobody, 0, NextOffline)
  <2>1. m \in Messages /\ m.of = Nobody
    BY <1>1, MessageType DEF NextOffline, Event, Kinds
  <2>2. queue = <<>> /\ queue' = queue /\ act' = act
    BY <1>1, <1>6, QueueGone DEF QueryOffline, writer
  <2>3. CASE log' = log
    BY <2>2, <2>3, OrderedKept
  <2>4. CASE log' = Append(log, m)
    <3>1. Told' = Append(Told, m)
      BY <1>1, <2>1, <2>2, <2>4, ToldStored
    <3> QED
      BY <1>1, <2>1, <2>2, <3>1, OrderedMore
  <2> QED
    BY <1>6, <2>3, <2>4 DEF QueryOffline
<1>7. CASE Persist \/ PersistFails \/ TakeSlot \/ CloneSender \/ Flushed \/ Undo \/ Open
           \/ Settle \/ Join \/ SnapshotRead
  <2>1. UNCHANGED <<log, queue, act>>
    BY <1>7 DEF Persist, PersistFails, TakeSlot, CloneSender, Flushed, Undo, Open, Settle,
       Join, SnapshotRead, store, writer
  <2> QED
    BY <2>1, OrderedKept
<1> QED
  BY <1>2, <1>3, <1>4, <1>5, <1>6, <1>7 DEF RunOperation

\* What was queued is gone with the process, and so are its calls.
LEMMA OrderedRestart ==
    ASSUME TypeOK, Ordered, Restart
    PROVE  Ordered'
<1>1. queue' = <<>> /\ log' = log
  BY DEF Restart, store
<1>2. log \in Seq(Messages) /\ <<>> \in Seq(Messages)
  BY EmptyType DEF TypeOK, StoreTypeOK
<1>3. Told' = log
  BY <1>1, <1>2, ConcatEmptySeq DEF Told
<1>4. /\ Told \in Seq(Messages) /\ Len(log) <= Len(Told)
      /\ \A i \in 1..Len(log) : Told[i] = log[i]
  <2>1. Len(log) \in Nat /\ Len(queue) \in Nat
    BY DEF TypeOK, StoreTypeOK, WriterTypeOK
  <2> QED
    BY <2>1, ToldType DEF TypeOK
<1>5. InOrder(log, act)
  BY <1>2, <1>4, OrderFront DEF Ordered
<1>6. Onward(act, act')
  BY DEF Restart, Past, Call, Onward
<1>7. InOrder(Told', act')
  BY <1>3, <1>5, <1>6, OrderCalls
<1> QED
  BY <1>7 DEF Ordered

LEMMA OrderedNext ==
    ASSUME TypeOK, HistoryInv, Ordered, [Next]_vars
    PROVE  Ordered'
<1>1. CASE StartOperation \/ UNCHANGED vars
  <2>1. UNCHANGED <<log, queue, act>>
    BY <1>1 DEF StartOperation, Enable, Disable, DeleteAll, Pause, Resume, Flush, Query, Adjust,
       Begin, store, writer, vars
  <2> QED
    BY <2>1, OrderedKept
<1> QED
  BY <1>1, OrderedCall, OrderedWriter, OrderedRun, OrderedRestart DEF Next

-----------------------------------------------------------------------------

\* The log tells an action's start and then its end, neither of them twice (each is
\* one event of one call, and the queue keeps their order); and while recording
\* stays on and nothing is dropped it tells every action it began to its end
\* (finish_action, history.rs 917: pause suppresses new begins only), for any number
\* of actions whose events interleave in the queue.
THEOREM PairsAreWhole == Spec => []ActionsAreWhole
<1>1. TypeOK /\ HistoryInv /\ Paired /\ [Next]_vars => Paired'
  BY PairedNext
<1>2. TypeOK /\ HistoryInv /\ Ordered /\ [Next]_vars => Ordered'
  BY OrderedNext
<1>3. TypeOK /\ Paired /\ Ordered => ActionsAreWhole
  <2> SUFFICES ASSUME TypeOK, Paired, Ordered, NEW i \in DOMAIN Told, Told[i].of \in Actions
      PROVE  /\ \A j \in i + 1..Len(Told) :
                   Told[j].of = Told[i].of => Told[i].what = "start" /\ Told[j].what = "end"
             /\ Steady /\ Told[i].what = "start" /\ act[Told[i].of].at = "over" =>
                   \E j \in i + 1..Len(Told) : Told[j].what = "end" /\ Told[j].of = Told[i].of
    BY DEF ActionsAreWhole, Steady, Told
  <2>1. i \in 1..Len(Told)
    BY ToldType DEF TypeOK
  <2>2. TellsOf(Told, act, i)
    BY <2>1 DEF Ordered, InOrder
  <2>3. ASSUME Steady, Told[i].what = "start", act[Told[i].of].at = "over"
        PROVE  Answered(Told, i)
    BY <2>1, <2>3 DEF Paired, Tells
  <2> QED
    BY <2>2, <2>3 DEF TellsOf, Answered
<1> QED
  BY Invariant, PairedInit, OrderedInit, <1>1, <1>2, <1>3, PTL DEF Spec

-----------------------------------------------------------------------------
(* A resume and its marker.                                                  *)

IsRequest(m) == m.what \in {"Flush", "ReadSnapshot"}

\* One of the first n messages is the marker of a resume, and no pause follows it.
Resumed(s, n) == \E i \in 1..n : s[i].what = "resume" /\ \A j \in i + 1..Len(s) : s[j].what # "pause"

\* Only what was told before the request w is certain when it is answered.
Asked(s, w) == \A j \in 1..Len(s) : IsRequest(s[j]) /\ s[j].n = w => Resumed(s, j - 1)

LEMMA ResumedUpTo ==
    ASSUME NEW s, NEW n \in Nat, NEW p \in Nat, n <= p, Resumed(s, n)
    PROVE  Resumed(s, p)
<1>1. 1..n \subseteq 1..p
  OBVIOUS
<1> QED
  BY <1>1 DEF Resumed

LEMMA ResumedMore ==
    ASSUME NEW s \in Seq(Messages), NEW m \in Messages, NEW n \in Nat, n <= Len(s), m.what # "pause",
           Resumed(s, n)
    PROVE  Resumed(Append(s, m), n)
<1>1. /\ Len(Append(s, m)) = Len(s) + 1 /\ Append(s, m)[Len(s) + 1] = m
      /\ \A i \in 1..Len(s) : Append(s, m)[i] = s[i]
  BY AppendProperties
<1>2. Len(s) \in Nat
  OBVIOUS
<1>3. PICK i \in 1..n : s[i].what = "resume" /\ \A j \in i + 1..Len(s) : s[j].what # "pause"
  BY DEF Resumed
<1>4. Append(s, m)[i].what = "resume"
  BY <1>1, <1>2, <1>3
<1>5. ASSUME NEW j \in i + 1..Len(Append(s, m)) PROVE Append(s, m)[j].what # "pause"
  <2>1. CASE j = Len(s) + 1
    BY <2>1, <1>1
  <2>2. CASE j # Len(s) + 1
    <3>1. j \in i + 1..Len(s) /\ j \in 1..Len(s)
      BY <2>2, <1>1, <1>2, <1>3
    <3> QED
      BY <3>1, <1>1, <1>3
  <2> QED
    BY <2>1, <2>2
<1> QED
  BY <1>3, <1>4, <1>5 DEF Resumed

LEMMA AskedMore ==
    ASSUME NEW s \in Seq(Messages), NEW m \in Messages, NEW w, m.what # "pause", Asked(s, w),
           IsRequest(m) /\ m.n = w => Resumed(s, Len(s))
    PROVE  Asked(Append(s, m), w)
<1>1. /\ Len(Append(s, m)) = Len(s) + 1 /\ Append(s, m)[Len(s) + 1] = m
      /\ \A i \in 1..Len(s) : Append(s, m)[i] = s[i]
  BY AppendProperties
<1>2. Len(s) \in Nat
  OBVIOUS
<1> SUFFICES ASSUME NEW j \in 1..Len(Append(s, m)), IsRequest(Append(s, m)[j]), Append(s, m)[j].n = w
    PROVE  Resumed(Append(s, m), j - 1)
  BY DEF Asked
<1>3. CASE j \in 1..Len(s)
  <2>1. Resumed(s, j - 1)
    BY <1>1, <1>3 DEF Asked
  <2>2. j - 1 \in Nat /\ j - 1 <= Len(s)
    BY <1>2, <1>3
  <2> QED
    BY <2>1, <2>2, ResumedMore
<1>4. CASE j = Len(s) + 1
  <2>1. Resumed(s, Len(s)) /\ j - 1 = Len(s)
    BY <1>1, <1>2, <1>4
  <2>2. Resumed(Append(s, m), Len(s))
    BY <1>2, <2>1, ResumedMore
  <2> QED
    BY <2>1, <2>2
<1> QED
  BY <1>1, <1>2, <1>3, <1>4

LEMMA ResumedLess ==
    ASSUME NEW s \in Seq(Messages), NEW t \in Seq(Messages), NEW k, Without(s, t, k),
           NEW n \in 0..Len(s), s[k].what # "resume" \/ n < k, Resumed(s, n)
    PROVE  Resumed(t, IF k <= n THEN n - 1 ELSE n)
<1>1. Len(s) \in Nat /\ Len(t) = Len(s) - 1 /\ k \in 1..Len(s)
  BY DEF Without
<1>2. PICK i \in 1..n : s[i].what = "resume" /\ \A j \in i + 1..Len(s) : s[j].what # "pause"
  BY DEF Resumed
<1> DEFINE p == IF i < k THEN i ELSE i - 1
           q == IF k <= n THEN n - 1 ELSE n
<1>3. i # k /\ i \in Nat /\ n \in Nat /\ k \in Nat
  BY <1>1, <1>2
<1>4. p \in 1..q /\ p \in 1..Len(t)
  BY <1>1, <1>2, <1>3
<1>5. t[p] = s[i]
  <2>1. CASE i < k
    BY <2>1, <1>4 DEF Without
  <2>2. CASE i > k
    <3>1. p = i - 1 /\ ~(p < k) /\ p + 1 = i
      BY <2>2, <1>3
    <3> QED
      BY <3>1, <1>4 DEF Without
  <2> QED
    BY <2>1, <2>2, <1>3
<1>6. ASSUME NEW j \in p + 1..Len(t) PROVE t[j].what # "pause"
  <2>1. j \in 1..Len(t) /\ j \in Nat /\ Len(t) \in Nat
    BY <1>1, <1>4
  <2>2. CASE j < k
    <3>1. j \in i + 1..Len(s) /\ t[j] = s[j]
      BY <2>1, <2>2, <1>1, <1>3, <1>4 DEF Without
    <3> QED
      BY <3>1, <1>2
  <2>3. CASE j >= k
    <3>1. t[j] = s[j + 1]
      BY <2>1, <2>3, <1>1, <1>3 DEF Without
    <3>2. j + 1 \in i + 1..Len(s)
      BY <2>1, <2>3, <1>1, <1>3
    <3> QED
      BY <3>1, <3>2, <1>2
  <2> QED
    BY <2>1, <2>2, <2>3, <1>1, <1>3
<1> QED
  BY <1>2, <1>4, <1>5, <1>6 DEF Resumed

LEMMA AskedLess ==
    ASSUME NEW s \in Seq(Messages), NEW t \in Seq(Messages), NEW k, NEW w, Without(s, t, k),
           s[k].what # "resume", Asked(s, w)
    PROVE  Asked(t, w)
<1>1. Len(s) \in Nat /\ Len(t) = Len(s) - 1 /\ k \in 1..Len(s)
  BY DEF Without
<1> SUFFICES ASSUME NEW j \in 1..Len(t), IsRequest(t[j]), t[j].n = w PROVE Resumed(t, j - 1)
  BY DEF Asked
<1>2. CASE j < k
  <2>1. t[j] = s[j] /\ j \in 1..Len(s) /\ j - 1 \in 0..Len(s) /\ ~(k <= j - 1)
    BY <1>1, <1>2 DEF Without
  <2>2. Resumed(s, j - 1)
    BY <2>1 DEF Asked
  <2> QED
    BY <2>1, <2>2, ResumedLess
<1>3. CASE j >= k
  <2>1. t[j] = s[j + 1] /\ j + 1 \in 1..Len(s) /\ (j + 1) - 1 = j /\ j \in 0..Len(s) /\ k <= j
    BY <1>1, <1>3 DEF Without
  <2>2. Resumed(s, j)
    BY <2>1 DEF Asked
  <2> QED
    BY <2>1, <2>2, ResumedLess
<1> QED
  BY <1>1, <1>2, <1>3


\* Requests are queued, never stored, and none is younger than the last one.
Numbered ==
    /\ \A j \in 1..Len(log) : ~IsRequest(log[j])
    /\ \A j \in 1..Len(queue) : IsRequest(queue[j]) => queue[j].n <= awaiting

LEMMA NumberedStep ==
    ASSUME Numbered, StoreTypeOK, WriterTypeOK, awaiting \in Nat, awaiting' \in Nat,
           awaiting <= awaiting' \/ queue' = <<>>,
           \/ log' \in {log, <<>>}
           \/ \E m \in Messages : ~IsRequest(m) /\ log' = Append(log, m),
           \/ queue' \in {queue, <<>>} \/ (queue # <<>> /\ queue' = Tail(queue))
           \/ \E m \in Messages : (IsRequest(m) => m.n <= awaiting') /\ queue' = Append(queue, m)
    PROVE  Numbered'
<1>1. log \in Seq(Messages) /\ queue \in Seq(Messages) /\ Len(log) \in Nat /\ Len(queue) \in Nat
  BY DEF StoreTypeOK, WriterTypeOK
<1>2. \A j \in 1..Len(log') : ~IsRequest(log'[j])
  <2>1. CASE log' = log
    BY <2>1 DEF Numbered
  <2>2. CASE log' = <<>>
    BY <2>2
  <2>3. ASSUME NEW m \in Messages, ~IsRequest(m), log' = Append(log, m)
        PROVE  \A j \in 1..Len(log') : ~IsRequest(log'[j])
    <3>1. /\ Len(log') = Len(log) + 1 /\ log'[Len(log) + 1] = m
          /\ \A i \in 1..Len(log) : log'[i] = log[i]
      BY <1>1, <2>3, AppendProperties
    <3> QED
      BY <1>1, <2>3, <3>1 DEF Numbered
  <2> QED
    BY <2>1, <2>2, <2>3
<1>3. \A j \in 1..Len(queue') : IsRequest(queue'[j]) => queue'[j].n <= awaiting'
  <2>1. CASE queue' = <<>>
    BY <2>1
  <2> SUFFICES ASSUME awaiting <= awaiting', queue' # <<>>
      PROVE  \A j \in 1..Len(queue') : IsRequest(queue'[j]) => queue'[j].n <= awaiting'
    BY <2>1
  <2>2. \A j \in 1..Len(queue) : queue[j].n \in Nat /\ (IsRequest(queue[j]) => queue[j].n <= awaiting')
    <3>1. \A j \in 1..Len(queue) : queue[j] \in Messages
      BY <1>1
    <3>2. \A j \in 1..Len(queue) : queue[j].n \in Nat
      BY <3>1 DEF Messages
    <3> QED
      BY <3>2 DEF Numbered
  <2>3. CASE queue' = queue
    BY <2>2, <2>3
  <2>4. CASE queue # <<>> /\ queue' = Tail(queue)
    <3>1. /\ Len(queue') = Len(queue) - 1
          /\ \A i \in 1..Len(queue') : queue'[i] = queue[i + 1]
      BY <1>1, <2>4, HeadTailProperties
    <3> QED
      BY <1>1, <2>2, <3>1
  <2>5. ASSUME NEW m \in Messages, IsRequest(m) => m.n <= awaiting', queue' = Append(queue, m)
        PROVE  \A j \in 1..Len(queue') : IsRequest(queue'[j]) => queue'[j].n <= awaiting'
    <3>1. /\ Len(queue') = Len(queue) + 1 /\ queue'[Len(queue) + 1] = m
          /\ \A i \in 1..Len(queue) : queue'[i] = queue[i]
      BY <1>1, <2>5, AppendProperties
    <3> QED
      BY <1>1, <2>2, <2>5, <3>1
  <2> QED
    BY <2>3, <2>4, <2>5
<1> QED
  BY <1>2, <1>3 DEF Numbered

\* What a call does to the history: at most one message, which is not a request.
LEMMA CallTells ==
    ASSUME TypeOK, NEW a \in Actions, ToolCall(a) \/ OfferEvent(a)
    PROVE  /\ UNCHANGED <<log, paused, thread, control, awaiting, answer>>
           /\ \/ queue' = queue
              \/ \E m \in Messages : m.what \in {"start", "end", "drops"} /\ queue' = Append(queue, m)
<1>1. /\ act[a].event \in {"start", "end"} /\ next \in Nat /\ unreported \in Nat
      /\ a \in Actions \cup {Nobody} /\ Nobody \in Actions \cup {Nobody} /\ 0 \in Nat
      /\ {"start", "end", "drops"} \subseteq Kinds
  BY DEF TypeOK, ActTypeOK, Calls, StoreTypeOK, Kinds
<1>2. CASE BeginAction(a) \/ PassGate(a) \/ FinishAction(a) \/ TryLock(a)
  BY <1>2 DEF BeginAction, PassGate, FinishAction, TryLock, store, switches, writer, request
<1>3. CASE ReportDrops(a)
  <2> DEFINE m == Event("drops", Nobody, unreported, next)
  <2>1. m \in Messages /\ m.what = "drops"
    BY <1>1, MessageType DEF Event
  <2> QED
    BY <1>3, <2>1 DEF ReportDrops, store, switches, request
<1>4. CASE TrySend(a)
  <2> DEFINE m == Event(act[a].event, a, 0, next)
  <2>1. m \in Messages /\ m.what = act[a].event
    BY <1>1, MessageType DEF Event
  <2> QED
    BY <1>1, <1>4, <2>1 DEF TrySend, store, switches, request
<1> QED
  BY <1>2, <1>3, <1>4 DEF ToolCall, OfferEvent

\* A resume whose marker is sent: it stays where it is while the writer lives, an
\* answered flush finds it stored, and only then is the gate opened.
Resuming ==
    control.op = "resume" =>
        /\ thread = "running" /\ control.at \in {"clone", "cloned", "flush"} => Resumed(Told, Len(Told))
        /\ thread = "running" /\ control.at = "flushing" => Asked(Told, awaiting)
        /\ (control.at = "flushing" /\ answer = "ok") \/ control.at = "open" => Resumed(Told, Len(log))

ResumeInv == Numbered /\ Resuming

\* A step that ends with no resume under way, or with one before its marker.
LEMMA ResumingIdle ==
    ASSUME control'.op # "resume" \/ control'.at \notin {"clone", "cloned", "flush", "flushing", "open"}
    PROVE  Resuming'
BY DEF Resuming

LEMMA ResumingKept ==
    ASSUME Resuming, UNCHANGED <<log, queue, control, awaiting, answer>>,
           thread' = "running" => thread = "running"
    PROVE  Resuming'
<1>1. Told' = Told
  BY DEF Told
<1> QED
  BY <1>1 DEF Resuming

\* A tool call sends an event.
LEMMA ResumingMore ==
    ASSUME TypeOK, Resuming, UNCHANGED <<log, thread, control, awaiting, answer>>,
           NEW m \in Messages, m.what \in {"start", "end", "drops"}, queue' = Append(queue, m)
    PROVE  Resuming'
<1>1. /\ Told' = Append(Told, m) /\ Told \in Seq(Messages)
      /\ Len(Told) = Len(log) + Len(queue) /\ Len(log) \in Nat /\ Len(queue) \in Nat
  BY ToldSent, ToldType DEF TypeOK, StoreTypeOK, WriterTypeOK
<1>2. Len(Told') = Len(Told) + 1
  BY <1>1, AppendProperties
<1>3. ASSUME Resumed(Told, Len(Told)) PROVE Resumed(Told', Len(Told'))
  <2>1. Resumed(Told', Len(Told))
    BY <1>1, <1>3, ResumedMore
  <2> QED
    BY <1>1, <1>2, <2>1, ResumedUpTo
<1>4. ASSUME Resumed(Told, Len(log)) PROVE Resumed(Told', Len(log'))
  BY <1>1, <1>4, ResumedMore
<1>5. ASSUME Asked(Told, awaiting) PROVE Asked(Told', awaiting')
  BY <1>1, <1>5, AskedMore DEF IsRequest
<1> QED
  BY <1>3, <1>4, <1>5 DEF Resuming

\* The writer takes a message that it does not store.
LEMMA ResumingTaken ==
    ASSUME TypeOK, Resuming, UNCHANGED <<log, control, awaiting>>, queue # <<>>, queue' = Tail(queue),
           thread' = "running" => thread = "running" /\ Head(queue).what # "resume",
           answer' = "ok" /\ control.op = "resume" /\ control.at = "flushing" =>
               \/ answer = "ok"
               \/ thread = "running" /\ IsRequest(Head(queue)) /\ Head(queue).n = awaiting
    PROVE  Resuming'
<1>1. /\ Without(Told, Told', Len(log) + 1) /\ Told' \in Seq(Messages)
      /\ Told[Len(log) + 1] = Head(queue) /\ Told \in Seq(Messages)
      /\ Len(Told) = Len(log) + Len(queue) /\ Len(log) \in Nat /\ Len(queue) \in Nat
  BY ToldTaken, ToldType DEF TypeOK, StoreTypeOK, WriterTypeOK
<1>2. Len(log) + 1 \in 1..Len(Told) /\ Len(Told') = Len(Told) - 1
  BY <1>1 DEF Without
<1>3. ASSUME Resumed(Told, Len(log)) PROVE Resumed(Told', Len(log'))
  <2>1. Len(log) \in 0..Len(Told) /\ Len(log) < Len(log) + 1 /\ ~(Len(log) + 1 <= Len(log))
    BY <1>1
  <2> QED
    BY <1>1, <1>3, <2>1, ResumedLess
<1>4. ASSUME thread' = "running", Resumed(Told, Len(Told)) PROVE Resumed(Told', Len(Told'))
  <2>1. Len(Told) \in 0..Len(Told) /\ Len(log) + 1 <= Len(Told)
    BY <1>2
  <2> QED
    BY <1>1, <1>2, <1>4, <2>1, ResumedLess
<1>5. ASSUME thread' = "running", Asked(Told, awaiting) PROVE Asked(Told', awaiting')
  BY <1>1, <1>5, AskedLess
<1>6. ASSUME Asked(Told, awaiting), IsRequest(Head(queue)), Head(queue).n = awaiting
      PROVE  Resumed(Told, Len(log))
  <2>1. Resumed(Told, (Len(log) + 1) - 1)
    BY <1>1, <1>2, <1>6 DEF Asked
  <2>2. (Len(log) + 1) - 1 = Len(log)
    BY <1>1
  <2> QED
    BY <2>1, <2>2
<1> QED
  BY <1>3, <1>4, <1>5, <1>6 DEF Resuming

LEMMA ResumeWriter ==
    ASSUME TypeOK, ResumeInv, WriterLoop \/ MaintenanceFails
    PROVE  ResumeInv' /\ paused' = paused /\ control' = control
<1>1. /\ Numbered /\ Resuming /\ StoreTypeOK /\ WriterTypeOK /\ awaiting \in Nat
      /\ (queue # <<>> => Head(queue) \in Messages)
      /\ Len(log) \in Nat /\ Len(queue) \in Nat
  BY ReceiveType DEF ResumeInv, TypeOK, ControlTypeOK, StoreTypeOK, WriterTypeOK
<1>2. UNCHANGED <<paused, control, awaiting>>
  BY DEF WriterLoop, AppendEvent, AppendFails, DiscardEvent, AnswerRequest, ExitThread,
     MaintenanceFails, switches, request
<1>3. CASE AppendEvent
  <2>1. /\ UNCHANGED <<thread, control, awaiting, answer>> /\ queue # <<>>
        /\ log' = Append(log, Head(queue)) /\ queue' = Tail(queue) /\ ~IsRequest(Head(queue))
    BY <1>3 DEF AppendEvent, IsEvent, IsRequest, request
  <2>2. Told' = Told /\ Len(log') = Len(log) + 1 /\ Len(log') <= Len(Told')
    BY <1>1, <2>1, ToldAppended, ToldType, AppendProperties DEF StoreTypeOK
  <2>3. Resumed(Told, Len(log)) => Resumed(Told', Len(log'))
    BY <1>1, <2>2, ResumedUpTo
  <2>4. Resuming'
    BY <1>1, <2>1, <2>2, <2>3 DEF Resuming
  <2>5. Numbered'
    BY <1>1, <1>2, <2>1, NumberedStep
  <2> QED
    BY <1>2, <2>4, <2>5 DEF ResumeInv
<1>4. CASE AppendFails \/ DiscardEvent \/ ExitThread
  <2>1. /\ UNCHANGED <<log, control, awaiting, answer>> /\ queue # <<>>
        /\ queue' = Tail(queue) /\ thread' # "running"
    BY <1>4 DEF AppendFails, DiscardEvent, ExitThread, Fail, Discards, store, request
  <2>2. Resuming'
    BY <1>1, <2>1, ResumingTaken
  <2>3. Numbered'
    BY <1>1, <1>2, <2>1, NumberedStep
  <2> QED
    BY <1>2, <2>2, <2>3 DEF ResumeInv
<1>5. CASE AnswerRequest
  <2>1. /\ UNCHANGED <<log, control, awaiting, thread>> /\ queue # <<>> /\ thread # "none"
        /\ queue' = Tail(queue) /\ IsRequest(Head(queue)) /\ Head(queue).what # "resume"
    BY <1>5 DEF AnswerRequest, IsRequest, store
  <2>2. answer' = "ok" => \/ answer = "ok"
                          \/ thread = "running" /\ Head(queue).n = awaiting
    BY <1>1, <1>5 DEF AnswerRequest, Verdicts, WriterTypeOK
  <2>3. Resuming'
    BY <1>1, <2>1, <2>2, ResumingTaken
  <2>4. Numbered'
    BY <1>1, <1>2, <2>1, NumberedStep
  <2> QED
    BY <1>2, <2>3, <2>4 DEF ResumeInv
<1>6. CASE MaintenanceFails
  <2>1. UNCHANGED <<log, queue, awaiting, control>> /\ control.op = "none"
    BY <1>6 DEF MaintenanceFails, Resting, At, store, request
  <2>2. Resuming'
    BY <2>1, ResumingIdle
  <2>3. Numbered'
    BY <1>1, <2>1, NumberedStep
  <2> QED
    BY <1>2, <2>2, <2>3 DEF ResumeInv
<1> QED
  BY <1>3, <1>4, <1>5, <1>6 DEF WriterLoop

LEMMA ResumeCall ==
    ASSUME TypeOK, ResumeInv, NEW a \in Actions, ToolCall(a) \/ OfferEvent(a)
    PROVE  ResumeInv' /\ paused' = paused
<1>1. /\ UNCHANGED <<log, paused, thread, control, awaiting, answer>>
      /\ \/ queue' = queue
         \/ \E m \in Messages : m.what \in {"start", "end", "drops"} /\ queue' = Append(queue, m)
  BY CallTells
<1>2. Numbered /\ Resuming /\ StoreTypeOK /\ WriterTypeOK /\ awaiting \in Nat
  BY DEF ResumeInv, TypeOK, ControlTypeOK
<1>3. Numbered'
  BY <1>1, <1>2, NumberedStep DEF IsRequest
<1>4. Resuming'
  BY <1>1, <1>2, ResumingKept, ResumingMore
<1> QED
  BY <1>1, <1>3, <1>4 DEF ResumeInv

LEMMA ResumeStart ==
    ASSUME TypeOK, ResumeInv, StartOperation
    PROVE  ResumeInv' /\ control.op = "none"
<1>1. ASSUME NEW op, NEW where, Begin(op, where), where \notin {"clone", "cloned", "flush", "flushing", "open"}
      PROVE  ResumeInv' /\ control.op = "none"
  <2>1. UNCHANGED <<log, queue, awaiting>>
    BY <1>1 DEF Begin, store, writer, request
  <2>2. control.op = "none" /\ control'.at = where
    BY <1>1, BeginFields
  <2>3. Resuming'
    BY <1>1, <2>2, ResumingIdle
  <2>4. Numbered'
    BY <2>1, NumberedStep DEF ResumeInv, TypeOK, ControlTypeOK
  <2> QED
    BY <2>2, <2>3, <2>4 DEF ResumeInv
<1>2. CASE Enable \/ Query
  BY <1>1, <1>2 DEF Enable, Query
<1>3. CASE Disable
  <2>1. PICK where \in {"persist first", "persist"} : Begin("disable", where)
    BY <1>3 DEF Disable
  <2> QED
    BY <1>1, <2>1
<1>4. CASE DeleteAll
  <2>1. PICK where \in {"mark", "persist"} : Begin("delete", where)
    BY <1>4 DEF DeleteAll
  <2> QED
    BY <1>1, <2>1
<1>5. CASE Pause \/ Resume \/ Flush
  BY <1>1, <1>5 DEF Pause, Resume, Flush, Adjust
<1> QED
  BY <1>2, <1>3, <1>4, <1>5 DEF StartOperation

\* What a step of an operation does to the history.
LEMMA NumberedRun ==
    ASSUME TypeOK, HistoryInv, Numbered, RunOperation
    PROVE  Numbered'
<1>1. /\ StoreTypeOK /\ WriterTypeOK /\ awaiting \in Nat /\ next \in Nat /\ LastSeq \in Nat /\ Course
      /\ control.op \in AllOperations \cup {"none"}
  BY LastType, ControlFields DEF TypeOK, ControlTypeOK, StoreTypeOK, HistoryInv, Shape
<1>2. CASE UNCHANGED <<log, queue, awaiting>>
  BY <1>1, <1>2, NumberedStep
<1>3. CASE StartWriter
  <2> DEFINE m == Event("enable", Nobody, 0, FirstSequence)
  <2>1. m \in Messages /\ ~IsRequest(m)
    BY <1>1, MessageType DEF FirstSequence, Kinds, AllOperations, Event, IsRequest
  <2>2. UNCHANGED <<queue, awaiting>> /\ log' \in {log, Append(log, m)}
    BY <1>3 DEF StartWriter, request
  <2> QED
    BY <1>1, <2>1, <2>2, NumberedStep
<1>4. CASE QueryOffline
  <2> DEFINE m == Event("access", Nobody, 0, NextOffline)
  <2>1. m \in Messages /\ ~IsRequest(m)
    BY <1>1, MessageType DEF NextOffline, Kinds, AllOperations, Event, IsRequest
  <2>2. UNCHANGED <<queue, awaiting>> /\ log' \in {log, Append(log, m)}
    BY <1>4 DEF QueryOffline, writer, request
  <2> QED
    BY <1>1, <2>1, <2>2, NumberedStep
<1>5. CASE SendMarker
  <2> DEFINE m == Event(Marker(control.op), Nobody, 0, next)
  <2>1. control.op \in AllOperations
    BY <1>1, <1>5 DEF SendMarker, Course
  <2>2. m.what = Marker(control.op) /\ m \in Messages
    BY <1>1, <2>1, MarkerKind, MessageType DEF Event
  <2>3. ~IsRequest(m)
    BY <2>1, <2>2, MarkerKind DEF IsRequest
  <2>4. UNCHANGED <<log, awaiting>> /\ queue' = Append(queue, m)
    BY <1>5 DEF SendMarker, store, request
  <2> QED
    BY <1>1, <2>2, <2>3, <2>4, NumberedStep
<1>6. CASE Ask
  <2>1. PICK what \in {"Flush", "ReadSnapshot"} : queue' = Append(queue, Request(what, awaiting'))
    BY <1>6 DEF Ask
  <2>2. log' = log /\ awaiting' = awaiting + 1
    BY <1>6 DEF Ask, store
  <2>3. Request(what, awaiting') \in Messages /\ Request(what, awaiting').n = awaiting'
    BY <1>1, <2>2, RequestType DEF Request, Event
  <2> QED
    BY <1>1, <2>1, <2>2, <2>3, NumberedStep
<1>7. CASE SendShutdown
  <2>1. Request("Shutdown", 0) \in Messages /\ Request("Shutdown", 0).what = "Shutdown"
    BY RequestType DEF Request, Event
  <2>2. UNCHANGED <<log, awaiting>> /\ queue' = Append(queue, Request("Shutdown", 0))
    BY <1>7 DEF SendShutdown, store, request
  <2> QED
    BY <1>1, <2>1, <2>2, NumberedStep DEF IsRequest
<1>8. CASE Erase
  <2>1. UNCHANGED <<queue, awaiting>> /\ log' \in {log, <<>>}
    BY <1>8 DEF Erase, writer, request
  <2> QED
    BY <1>1, <2>1, NumberedStep
<1>9. CASE Persist \/ PersistFails \/ TakeSlot \/ CloneSender \/ Flushed \/ Undo \/ Open \/ Settle \/ Join
           \/ SnapshotRead
  BY <1>2, <1>9 DEF Persist, PersistFails, TakeSlot, CloneSender, Flushed, Undo, Open, Settle, Join,
     SnapshotRead, store, writer, request
<1> QED
  BY <1>3, <1>4, <1>5, <1>6, <1>7, <1>8, <1>9 DEF RunOperation

\* The marker of a resume is sent after everything that was told before.
LEMMA MarkerSent ==
    ASSUME NEW s \in Seq(Messages), NEW m \in Messages, m.what = "resume"
    PROVE  Resumed(Append(s, m), Len(Append(s, m)))
<1>1. /\ Len(Append(s, m)) = Len(s) + 1 /\ Append(s, m)[Len(s) + 1] = m /\ Len(s) \in Nat
  BY AppendProperties
<1>2. Len(s) + 1 \in 1..Len(Append(s, m))
  BY <1>1
<1>3. \A j \in (Len(s) + 1) + 1..Len(Append(s, m)) : Append(s, m)[j].what # "pause"
  BY <1>1
<1> QED
  BY <1>1, <1>2, <1>3 DEF Resumed

\* Nothing that was told asks for what is only asked now.
LEMMA Unasked ==
    ASSUME TypeOK, Numbered, NEW w \in Nat, w > awaiting
    PROVE  Asked(Told, w)
<1>1. /\ Len(log) \in Nat /\ Len(queue) \in Nat /\ awaiting \in Nat /\ queue \in Seq(Messages)
      /\ Len(Told) = Len(log) + Len(queue)
  BY ToldType DEF TypeOK, StoreTypeOK, WriterTypeOK, ControlTypeOK
<1> SUFFICES ASSUME NEW j \in 1..Len(Told), IsRequest(Told[j]), Told[j].n = w PROVE FALSE
  BY DEF Asked
<1>2. CASE j <= Len(log)
  <2>1. Told[j] = log[j] /\ j \in 1..Len(log)
    BY <1>1, <1>2, ToldType DEF TypeOK
  <2> QED
    BY <2>1 DEF Numbered
<1>3. CASE j > Len(log)
  <2>1. Told[j] = queue[j - Len(log)] /\ j - Len(log) \in 1..Len(queue)
    BY <1>1, <1>3, ToldType DEF TypeOK
  <2>2. queue[j - Len(log)].n <= awaiting
    BY <2>1 DEF Numbered
  <2> QED
    BY <1>1, <2>1, <2>2
<1> QED
  BY <1>1, <1>2, <1>3

LEMMA ResumingRun ==
    ASSUME TypeOK, HistoryInv, ResumeInv, RunOperation
    PROVE  Resuming'
<1>1. /\ Numbered /\ Resuming /\ StoreTypeOK /\ WriterTypeOK /\ ControlTypeOK /\ Course
      /\ next \in Nat /\ awaiting \in Nat /\ control.op \in AllOperations \cup {"none"}
  BY ControlFields DEF TypeOK, StoreTypeOK, ControlTypeOK, HistoryInv, Shape, ResumeInv
<1>2. CASE StartWriter \/ Undo \/ Settle \/ Erase \/ SnapshotRead \/ QueryOffline
  <2>1. control'.at \in {"persist", "idle", "mark"}
    BY <1>2, GotoFields, ReturnFields DEF StartWriter, Undo, Settle, Erase, SnapshotRead, QueryOffline
  <2> QED
    BY <2>1, ResumingIdle
<1>3. CASE Persist
  <2>1. control'.op = control.op /\ control'.at = Persisted
    BY <1>3, GotoFields DEF Persist
  <2>2. control.op = "resume" => Persisted = "mark"
    BY DEF Persisted
  <2> QED
    BY <2>1, <2>2, ResumingIdle
<1>4. CASE PersistFails
  <2>1. control'.at \in {"stop", "idle"}
    BY <1>4, AtFields DEF PersistFails, PersistFailed, Resting
  <2> QED
    BY <2>1, ResumingIdle
<1>5. CASE TakeSlot
  <2>1. CASE control.at = "clone"
    <3>1. /\ control'.op = control.op /\ control'.at = "cloned"
          /\ UNCHANGED <<log, queue, thread>>
      BY <1>5, <2>1, GotoFields DEF TakeSlot, store
    <3>2. Told' = Told
      BY <3>1 DEF Told
    <3> QED
      BY <1>1, <2>1, <3>1, <3>2 DEF Resuming
  <2>2. CASE control.at # "clone"
    <3>1. control'.at \in {"marking", "stopping", "ask", "offline"}
      BY <1>5, <2>2, GotoFields DEF TakeSlot
    <3> QED
      BY <3>1, ResumingIdle
  <2> QED
    BY <2>1, <2>2
<1>6. CASE SendMarker
  <2>1. control'.op = control.op /\ control'.at = "clone"
    BY <1>6, GotoFields DEF SendMarker
  <2>2. CASE control.op = "resume"
    <3> DEFINE m == Event("resume", Nobody, 0, next)
    <3>1. m \in Messages /\ m.what = "resume"
      BY <1>1, MessageType DEF Kinds, AllOperations, Event
    <3>2. log' = log /\ queue' = Append(queue, m)
      BY <1>6, <2>2 DEF SendMarker, Marker, store
    <3>3. Told' = Append(Told, m) /\ Told \in Seq(Messages)
      BY <1>1, <3>1, <3>2, ToldSent, ToldType
    <3>4. Resumed(Told', Len(Told'))
      BY <3>1, <3>3, MarkerSent
    <3> QED
      BY <2>1, <3>4 DEF Resuming
  <2>3. CASE control.op # "resume"
    BY <2>1, <2>3, ResumingIdle
  <2> QED
    BY <2>2, <2>3
<1>7. CASE CloneSender
  <2>1. /\ control'.op = control.op /\ control'.at = "flush" /\ control.at = "cloned"
        /\ UNCHANGED <<log, queue, thread>>
    BY <1>7, GotoFields DEF CloneSender, store, writer
  <2>2. Told' = Told
    BY <2>1 DEF Told
  <2> QED
    BY <1>1, <2>1, <2>2 DEF Resuming
<1>8. CASE Ask
  <2>1. CASE control.at = "flush"
    <3> DEFINE m == Request("Flush", awaiting')
    <3>1. /\ control'.op = control.op /\ control'.at = "flushing" /\ answer' = "none"
          /\ UNCHANGED <<log, thread>> /\ queue' = Append(queue, m) /\ awaiting' = awaiting + 1
      BY <1>8, <2>1, GotoFields DEF Ask, store
    <3>2. m \in Messages /\ m.what = "Flush"
      BY <1>1, <3>1, RequestType DEF Request, Event
    <3>3. Told' = Append(Told, m) /\ Told \in Seq(Messages)
      BY <1>1, <3>1, <3>2, ToldSent, ToldType
    <3>4. awaiting' \in Nat /\ awaiting' > awaiting
      BY <1>1, <3>1
    <3>5. Asked(Told, awaiting')
      BY <1>1, <3>4, Unasked
    <3>6. Resumed(Told, Len(Told)) => Asked(Told', awaiting')
      BY <3>2, <3>3, <3>5, AskedMore
    <3> QED
      BY <1>1, <2>1, <3>1, <3>6 DEF Resuming
  <2>2. CASE control.at # "flush"
    <3>1. control'.at = "reading"
      BY <1>8, <2>2, GotoFields DEF Ask
    <3> QED
      BY <3>1, ResumingIdle
  <2> QED
    BY <2>1, <2>2
<1>9. CASE Flushed
  <2>1. PICK outcome \in Outcomes :
            control' = CASE control.op \in {"disable", "delete"} -> At(control.op, "stop")
                         [] control.op \in {"flush", "query"}    -> Resting
                         [] OTHER -> IF outcome = "error" THEN At(control.op, "undo")
                                     ELSE At(control.op, IF control.op = "resume" THEN "open"
                                                         ELSE "settle")
    BY <1>9 DEF Flushed
  <2>2. control.at = "flushing" /\ UNCHANGED <<log, queue>>
    BY <1>9 DEF Flushed, store, writer
  <2>3. Told' = Told
    BY <2>2 DEF Told
  <2>4. CASE control.op = "resume" /\ outcome # "error"
    <3>1. answer = "ok" /\ control'.at = "open"
      BY <1>1, <2>1, <2>4, AtFields DEF Outcomes, ControlTypeOK
    <3> QED
      BY <1>1, <2>2, <2>3, <2>4, <3>1 DEF Resuming
  <2>5. CASE control.op = "resume" /\ outcome = "error"
    <3>1. control'.at = "undo"
      BY <2>1, <2>5, AtFields
    <3> QED
      BY <3>1, ResumingIdle
  <2>6. CASE control.op # "resume"
    <3>1. control'.at \in {"stop", "idle", "undo", "settle"}
      BY <2>1, <2>6, AtFields DEF Resting
    <3> QED
      BY <3>1, ResumingIdle
  <2> QED
    BY <2>4, <2>5, <2>6
<1>10. CASE Open \/ SendShutdown
  <2>1. control'.at \in {"settle", "join"}
    BY <1>10, GotoFields DEF Open, SendShutdown
  <2> QED
    BY <2>1, ResumingIdle
<1>11. CASE Join
  <2>1. control.op \in {"enable", "disable", "delete"}
    BY <1>1, <1>11 DEF Join, Course, Marking, Stopping
  <2>2. control'.at \in {"idle", "settle", "persist"}
    BY <1>11, <2>1, AtFields DEF Join, Resting
  <2> QED
    BY <2>2, ResumingIdle
<1> QED
  BY <1>2, <1>3, <1>4, <1>5, <1>6, <1>7, <1>8, <1>9, <1>10, <1>11 DEF RunOperation

LEMMA ResumeNext ==
    ASSUME TypeOK, HistoryInv, ResumeInv, [Next]_vars
    PROVE  ResumeInv'
<1>1. CASE Restart
  <2>1. log' = log /\ queue' = <<>> /\ awaiting' = 0 /\ control'.op = "none"
    BY <1>1 DEF Restart, store, Resting, At
  <2>2. Numbered'
    BY <2>1, NumberedStep DEF ResumeInv, TypeOK, ControlTypeOK
  <2> QED
    BY <2>1, <2>2, ResumingIdle DEF ResumeInv
<1>2. CASE UNCHANGED vars
  <2>1. UNCHANGED <<log, queue, control, awaiting, answer, thread>>
    BY <1>2 DEF vars, store, writer, request
  <2>2. Numbered'
    BY <2>1, NumberedStep DEF ResumeInv, TypeOK, ControlTypeOK
  <2> QED
    BY <2>1, <2>2, ResumingKept DEF ResumeInv
<1>3. CASE RunOperation
  BY <1>3, NumberedRun, ResumingRun DEF ResumeInv
<1> QED
  BY <1>1, <1>2, <1>3, ResumeCall, ResumeWriter, ResumeStart DEF Next

LEMMA ResumeInit == Init => ResumeInv
<1> SUFFICES ASSUME Init PROVE ResumeInv
  OBVIOUS
<1>1. Len(log) = 0 /\ Len(queue) = 0 /\ control.op = "none"
  BY EmptyType DEF Init, Resting, At
<1> QED
  BY <1>1 DEF ResumeInv, Numbered, Resuming

\* What the open gate of a resume stands for.
LEMMA ResumedStored ==
    ASSUME TypeOK, Resumed(Told, Len(log))
    PROVE  \E i \in DOMAIN log : log[i].what = "resume"
                                 /\ \A j \in i + 1..Len(log) : log[j].what # "pause"
<1>1. /\ DOMAIN log = 1..Len(log) /\ Len(log) \in Nat /\ Len(queue) \in Nat
      /\ Len(Told) = Len(log) + Len(queue)
      /\ \A i \in 1..Len(log) : Told[i] = log[i]
  <2>1. DOMAIN log = 1..Len(log) /\ Len(log) \in Nat /\ Len(queue) \in Nat
    BY DEF TypeOK, StoreTypeOK, WriterTypeOK
  <2>2. Len(Told) = Len(log) + Len(queue)
    BY ToldType DEF TypeOK
  <2>3. ASSUME NEW i \in 1..Len(log) PROVE Told[i] = log[i]
    <3>1. i \in 1..Len(Told) /\ i <= Len(log)
      BY <2>1, <2>2
    <3> QED
      BY <3>1, ToldType DEF TypeOK
  <2> QED
    BY <2>1, <2>2, <2>3
<1>2. PICK i \in 1..Len(log) : Told[i].what = "resume" /\ \A j \in i + 1..Len(Told) : Told[j].what # "pause"
  BY DEF Resumed
<1>3. \A j \in i + 1..Len(log) : j \in 1..Len(log) /\ j \in i + 1..Len(Told)
  BY <1>1, <1>2
<1> QED
  BY <1>1, <1>2, <1>3

\* A resume lets producers in only when its marker is stored after that of the
\* pause it ends (resume, history.rs 699), however many events, drops and late
\* answers lie between, and also if the writer fails meanwhile.
THEOREM ResumeFollowsMarker == Spec => ResumeMarkerFirst
<1> DEFINE Marked == \E i \in DOMAIN log : log[i].what = "resume"
                                           /\ \A j \in i + 1..Len(log) : log[j].what # "pause"
<1>1. TypeOK /\ HistoryInv /\ ResumeInv /\ [Next]_vars => ResumeInv'
  BY ResumeNext
<1>2. ASSUME TypeOK, HistoryInv, ResumeInv, [Next]_vars,
             control.op = "resume", paused, ~paused', restarts' = restarts
      PROVE  Marked
  <2>1. CASE \E a \in Actions : ToolCall(a) \/ OfferEvent(a)
    BY <1>2, <2>1, ResumeCall
  <2>2. CASE WriterLoop \/ MaintenanceFails
    BY <1>2, <2>2, ResumeWriter
  <2>3. CASE StartOperation
    BY <1>2, <2>3, ResumeStart
  <2>4. CASE Restart
    BY <1>2, <2>4 DEF Restart, TypeOK, ControlTypeOK
  <2>5. CASE UNCHANGED vars
    BY <1>2, <2>5 DEF vars, switches
  <2>6. CASE RunOperation
    <3>1. CASE Open
      BY <1>2, <3>1, ResumedStored DEF Open, ResumeInv, Resuming
    <3>2. CASE Settle
      BY <1>2, <3>2 DEF Settle
    <3>3. CASE Persist \/ Flushed
      BY <1>2, <3>3 DEF Persist, Flushed
    <3>4. CASE StartWriter \/ PersistFails \/ TakeSlot \/ SendMarker \/ CloneSender \/ Ask
               \/ Undo \/ SendShutdown \/ Join \/ Erase \/ SnapshotRead \/ QueryOffline
      BY <1>2, <3>4 DEF StartWriter, PersistFails, TakeSlot, SendMarker, CloneSender, Ask, Undo,
         SendShutdown, Join, Erase, SnapshotRead, QueryOffline, switches
    <3> QED
      BY <2>6, <3>1, <3>2, <3>3, <3>4 DEF RunOperation
  <2> QED
    BY <1>2, <2>1, <2>2, <2>3, <2>4, <2>5, <2>6 DEF Next
<1>3. TypeOK /\ HistoryInv /\ ResumeInv /\ [Next]_vars =>
          [control.op = "resume" /\ paused /\ ~paused' /\ restarts' = restarts => Marked]_vars
  BY <1>2
<1> QED
  BY Invariant, ResumeInit, <1>1, <1>3, PTL DEF Spec, ResumeMarkerFirst

-----------------------------------------------------------------------------
(* Sums over sequences.  Induction is by the least number that fails.        *)

LEMMA LeastNatural ==
    ASSUME NEW S, S \subseteq Nat, S # {}
    PROVE  \E m \in S : \A k \in S : m <= k
<1> DEFINE R == {ss \in Nat \X Nat : ss[1] < ss[2]}
<1>1. IsWellFoundedOn(R, Nat)
  BY NatLessThanWellFounded DEF OpToRel
<1> HIDE DEF R
<1>2. \E x \in S : \A y \in S : ~ (<<y, x>> \in R)
  BY <1>1, WFMin
<1>3. PICK m \in S : \A y \in S : ~ (<<y, m>> \in R)
  BY <1>2
<1>4. ASSUME NEW k \in S PROVE m <= k
  <2>1. m \in Nat /\ k \in Nat /\ ~(k < m)
    BY <1>3 DEF R
  <2> QED
    BY <2>1
<1> QED
  BY <1>4

\* A set that holds 0 and with every number up to n the next one holds them all.
LEMMA UpTo ==
    ASSUME NEW n \in Nat, NEW S, 0 \in S, \A i \in 0..n : i \in S /\ i < n => i + 1 \in S
    PROVE  \A i \in 0..n : i \in S
<1> SUFFICES ASSUME NEW j \in 0..n, j \notin S PROVE FALSE
  OBVIOUS
<1> DEFINE T == (0..n) \ S
<1>0. T \subseteq Nat /\ T # {}
  OBVIOUS
<1> HIDE DEF T
<1>1. PICK m \in T : \A k \in T : m <= k
  BY <1>0, LeastNatural
<1> USE DEF T
<1>2. m - 1 \in 0..n /\ m - 1 < n /\ m = (m - 1) + 1
  BY <1>1
<1>3. m - 1 \in S
  BY <1>1, <1>2
<1> QED
  BY <1>1, <1>2, <1>3

\* What a message reports, and the sums of what the first n messages of s report.
Weight(m) == IF m.what = "drops" THEN m.n ELSE 0
Sums(f, s, n) == f = [i \in 0..n |-> IF i = 0 THEN 0 ELSE f[i - 1] + Weight(s[i])]

LEMMA WeightType == ASSUME NEW m \in Messages PROVE Weight(m) \in Nat
BY DEF Weight, Messages

\* The recursion defines a function.
LEMMA SumsExist ==
    ASSUME NEW s, NEW n \in Nat
    PROVE  \E f : Sums(f, s, n)
<1> DEFINE S == {i \in 0..n : \E f : Sums(f, s, i)}
<1>1. 0 \in S
  <2>1. Sums([i \in 0..0 |-> 0], s, 0)
    BY DEF Sums
  <2> QED
    BY <2>1
<1>2. ASSUME NEW i \in 0..n, i \in S, i < n PROVE i + 1 \in S
  <2>1. PICK f : Sums(f, s, i)
    BY <1>2
  <2> DEFINE g == [j \in 0..i + 1 |-> IF j <= i THEN f[j] ELSE f[i] + Weight(s[i + 1])]
  <2>2. \A j \in 0..i : f[j] = IF j = 0 THEN 0 ELSE f[j - 1] + Weight(s[j])
    BY <2>1 DEF Sums
  <2>3. ASSUME NEW j \in 0..i + 1
        PROVE  g[j] = IF j = 0 THEN 0 ELSE g[j - 1] + Weight(s[j])
    <3>1. CASE j <= i
      <4>1. j \in 0..i /\ (j # 0 => j - 1 \in 0..i /\ j - 1 \in 0..i + 1)
        BY <3>1
      <4>2. g[j] = f[j] /\ (j # 0 => g[j - 1] = f[j - 1])
        BY <3>1, <4>1
      <4> QED
        BY <2>2, <4>1, <4>2
    <3>2. CASE j = i + 1
      <4>1. j - 1 = i /\ i \in 0..i + 1 /\ j # 0 /\ ~(j <= i)
        BY <3>2
      <4> QED
        BY <3>2, <4>1
    <3> QED
      BY <3>1, <3>2
  <2>4. Sums(g, s, i + 1)
    BY <2>3 DEF Sums
  <2> QED
    BY <2>4, <1>2
<1>3. \A i \in 0..n : i \in S
  <2> HIDE DEF S
  <2> QED
    BY <1>1, <1>2, UpTo
<1> QED
  BY <1>3

\* Its last value is what the sequence reports, and the values are numbers.
LEMMA ReportedIs ==
    ASSUME NEW s \in Seq(Messages)
    PROVE  \E f : /\ Reported(s) = f[Len(s)] /\ f[0] = 0
                  /\ \A i \in 1..Len(s) : f[i] = f[i - 1] + Weight(s[i])
                  /\ \A i \in 0..Len(s) : f[i] \in Nat
<1> DEFINE f == CHOOSE f : Sums(f, s, Len(s))
<1>1. Len(s) \in Nat
  OBVIOUS
<1>2. Reported(s) = f[Len(s)]
  BY DEF Reported, Sums, Weight
<1>3. Sums(f, s, Len(s))
  BY <1>1, SumsExist
<1> HIDE DEF f
<1>4. f[0] = 0 /\ \A i \in 1..Len(s) : f[i] = f[i - 1] + Weight(s[i])
  BY <1>1, <1>3 DEF Sums
<1>5. \A i \in 1..Len(s) : Weight(s[i]) \in Nat
  BY WeightType
<1> DEFINE S == {i \in 0..Len(s) : f[i] \in Nat}
<1>6. 0 \in S /\ \A i \in 0..Len(s) : i \in S /\ i < Len(s) => i + 1 \in S
  <2>1. 0 \in S
    BY <1>1, <1>4
  <2>2. ASSUME NEW i \in 0..Len(s), i \in S, i < Len(s) PROVE i + 1 \in S
    <3>1. i + 1 \in 1..Len(s) /\ (i + 1) - 1 = i
      BY <1>1, <2>2
    <3>2. f[i + 1] = f[i] + Weight(s[i + 1]) /\ Weight(s[i + 1]) \in Nat
      BY <1>4, <1>5, <3>1
    <3> QED
      BY <2>2, <3>1, <3>2
  <2> QED
    BY <2>1, <2>2
<1>7. \A i \in 0..Len(s) : i \in S
  <2> HIDE DEF S
  <2> QED
    BY <1>1, <1>6, UpTo
<1> QED
  BY <1>2, <1>4, <1>7

LEMMA ReportedType == ASSUME NEW s \in Seq(Messages) PROVE Reported(s) \in Nat
<1>1. Len(s) \in Nat /\ Len(s) \in 0..Len(s)
  OBVIOUS
<1> QED
  BY <1>1, ReportedIs

LEMMA ReportedEmpty == Reported(<<>>) = 0
<1>1. <<>> \in Seq(Messages) /\ Len(<<>>) = 0
  BY EmptyType
<1> QED
  BY <1>1, ReportedIs

\* A message that is appended adds its weight.
LEMMA ReportedAppend ==
    ASSUME NEW s \in Seq(Messages), NEW m \in Messages
    PROVE  Reported(Append(s, m)) = Reported(s) + Weight(m)
<1> DEFINE t == Append(s, m)
<1>1. /\ t \in Seq(Messages) /\ Len(t) = Len(s) + 1 /\ t[Len(s) + 1] = m
      /\ \A i \in 1..Len(s) : t[i] = s[i]
  BY AppendProperties
<1>2. Len(s) \in Nat
  OBVIOUS
<1> HIDE DEF t
<1>3. PICK f : /\ Reported(s) = f[Len(s)] /\ f[0] = 0
               /\ \A i \in 1..Len(s) : f[i] = f[i - 1] + Weight(s[i])
  BY ReportedIs
<1>4. PICK g : /\ Reported(t) = g[Len(t)] /\ g[0] = 0
               /\ \A i \in 1..Len(t) : g[i] = g[i - 1] + Weight(t[i])
  BY <1>1, ReportedIs
<1> DEFINE S == {i \in 0..Len(s) : g[i] = f[i]}
<1>5. 0 \in S
  BY <1>2, <1>3, <1>4
<1>6. ASSUME NEW i \in 0..Len(s), i \in S, i < Len(s) PROVE i + 1 \in S
  <2>1. i + 1 \in 1..Len(s) /\ i + 1 \in 1..Len(t) /\ (i + 1) - 1 = i
    BY <1>1, <1>2, <1>6
  <2>2. g[i + 1] = g[i] + Weight(t[i + 1]) /\ f[i + 1] = f[i] + Weight(s[i + 1])
    BY <1>3, <1>4, <2>1
  <2>3. t[i + 1] = s[i + 1]
    BY <1>1, <2>1
  <2> QED
    BY <1>6, <2>1, <2>2, <2>3
<1>7. \A i \in 0..Len(s) : i \in S
  <2> HIDE DEF S
  <2> QED
    BY <1>2, <1>5, <1>6, UpTo
<1>8. g[Len(s)] = f[Len(s)]
  BY <1>2, <1>7
<1>9. g[Len(s) + 1] = g[Len(s)] + Weight(m)
  <2>1. Len(s) + 1 \in 1..Len(t) /\ (Len(s) + 1) - 1 = Len(s)
    BY <1>1, <1>2
  <2> QED
    BY <1>1, <1>4, <2>1
<1> QED
  BY <1>1, <1>3, <1>4, <1>8, <1>9 DEF t

\* The first message takes its weight with it.
LEMMA ReportedTail ==
    ASSUME NEW s \in Seq(Messages), s # <<>>
    PROVE  Reported(s) = Weight(Head(s)) + Reported(Tail(s))
<1> DEFINE t == Tail(s)
<1>1. /\ t \in Seq(Messages) /\ Len(t) = Len(s) - 1 /\ Head(s) = s[1]
      /\ \A i \in 1..Len(t) : t[i] = s[i + 1]
  BY HeadTailProperties
<1>2. Len(s) \in Nat \ {0} /\ Len(t) \in Nat
  BY <1>1
<1> HIDE DEF t
<1>3. PICK f : /\ Reported(s) = f[Len(s)] /\ f[0] = 0
               /\ \A i \in 1..Len(s) : f[i] = f[i - 1] + Weight(s[i])
               /\ \A i \in 0..Len(s) : f[i] \in Nat
  BY ReportedIs
<1>4. PICK g : /\ Reported(t) = g[Len(t)] /\ g[0] = 0
               /\ \A i \in 1..Len(t) : g[i] = g[i - 1] + Weight(t[i])
               /\ \A i \in 0..Len(t) : g[i] \in Nat
  BY <1>1, ReportedIs
<1>5. Weight(s[1]) \in Nat
  BY <1>2, WeightType
<1> DEFINE S == {i \in 0..Len(t) : f[i + 1] = Weight(s[1]) + g[i]}
<1>6. 0 \in S
  <2>1. f[1] = f[1 - 1] + Weight(s[1]) /\ 1 - 1 = 0
    BY <1>2, <1>3
  <2>2. f[0 + 1] = Weight(s[1]) + g[0]
    BY <2>1, <1>3, <1>4, <1>5
  <2> QED
    BY <2>2, <1>2
<1>7. ASSUME NEW i \in 0..Len(t), i \in S, i < Len(t) PROVE i + 1 \in S
  <2>1. /\ i + 1 \in 1..Len(t) /\ (i + 1) - 1 = i /\ i + 1 \in 0..Len(t) /\ i \in 0..Len(t)
        /\ (i + 1) + 1 \in 1..Len(s) /\ ((i + 1) + 1) - 1 = i + 1
    BY <1>1, <1>2, <1>7
  <2>2. f[(i + 1) + 1] = f[i + 1] + Weight(s[(i + 1) + 1]) /\ g[i + 1] = g[i] + Weight(t[i + 1])
    BY <1>3, <1>4, <2>1
  <2>3. t[i + 1] = s[(i + 1) + 1]
    BY <1>1, <2>1
  <2>4. f[i + 1] = Weight(s[1]) + g[i]
    BY <1>7
  <2>5. g[i] \in Nat /\ Weight(t[i + 1]) \in Nat
    <3>1. t[i + 1] \in Messages
      BY <1>1, <2>1
    <3> QED
      BY <3>1, <1>4, <2>1, WeightType
  <2>6. f[(i + 1) + 1] = Weight(s[1]) + g[i + 1]
    BY <2>2, <2>3, <2>4, <2>5, <1>5
  <2> QED
    BY <2>1, <2>6
<1>8. \A i \in 0..Len(t) : i \in S
  <2> HIDE DEF S
  <2> QED
    BY <1>2, <1>6, <1>7, UpTo
<1>9. f[Len(t) + 1] = Weight(s[1]) + g[Len(t)]
  BY <1>2, <1>8
<1>10. Len(t) + 1 = Len(s)
  BY <1>1, <1>2
<1> QED
  BY <1>1, <1>3, <1>4, <1>9, <1>10 DEF t

-----------------------------------------------------------------------------
(* Every event that was dropped.                                             *)

\* A writer that failed has left the store unsound; else every drop is accounted for.
Counted == /\ thread = "failed" => broken
           /\ DropsAreReported

LEMMA CountedInit == Init => Counted
BY ReportedEmpty DEF Init, Counted, DropsAreReported

\* A step that stores and sends nothing: it drops an event, or nothing.
LEMMA CountedKept ==
    ASSUME StoreTypeOK, WriterTypeOK, Counted, UNCHANGED <<log, queue>>,
           thread' = "failed" => thread = "failed", broken => broken',
           RecordDrop \/ UNCHANGED <<dropped, unreported>>
    PROVE  Counted'
<1>1. Reported(log) \in Nat /\ Reported(queue) \in Nat /\ dropped \in Nat /\ unreported \in Nat
  BY ReportedType DEF StoreTypeOK, WriterTypeOK
<1> QED
  BY <1>1 DEF Counted, DropsAreReported, RecordDrop

\* A step after which the store is unsound.
LEMMA CountedBroken == broken' => Counted'
BY DEF Counted, DropsAreReported

\* A message is sent, and is the report if it takes away what is unreported.
LEMMA CountedSent ==
    ASSUME StoreTypeOK, WriterTypeOK, Counted, NEW m \in Messages, log' = log,
           queue' = Append(queue, m), thread' = thread, broken' = broken, dropped' = dropped,
           unreported' \in Nat, unreported = unreported' + Weight(m)
    PROVE  Counted'
<1>1. /\ Reported(log) \in Nat /\ Reported(queue) \in Nat /\ dropped \in Nat /\ unreported \in Nat
      /\ Weight(m) \in Nat
  BY ReportedType, WeightType DEF StoreTypeOK, WriterTypeOK
<1>2. Reported(queue') = Reported(queue) + Weight(m)
  BY ReportedAppend DEF WriterTypeOK
<1> QED
  BY <1>1, <1>2 DEF Counted, DropsAreReported

\* An event without a report is stored.
LEMMA CountedStored ==
    ASSUME StoreTypeOK, WriterTypeOK, Counted, NEW m \in Messages, Weight(m) = 0,
           log' = Append(log, m), queue' = queue, thread' # "failed", broken' = broken,
           UNCHANGED <<dropped, unreported>>
    PROVE  Counted'
<1>1. Reported(log) \in Nat /\ Reported(queue) \in Nat
  BY ReportedType DEF StoreTypeOK, WriterTypeOK
<1>2. Reported(log') = Reported(log) + Weight(m)
  BY ReportedAppend DEF StoreTypeOK
<1> QED
  BY <1>1, <1>2 DEF Counted, DropsAreReported

\* The first message is taken: stored, or without a report.
LEMMA CountedTaken ==
    ASSUME StoreTypeOK, WriterTypeOK, Counted, queue # <<>>, queue' = Tail(queue),
           thread' = "failed" => thread = "failed", broken' = broken,
           UNCHANGED <<dropped, unreported>>,
           log' = Append(log, Head(queue)) \/ (log' = log /\ Weight(Head(queue)) = 0)
    PROVE  Counted'
<1>1. Head(queue) \in Messages /\ Tail(queue) \in Seq(Messages)
  BY ReceiveType
<1>2. /\ Reported(log) \in Nat /\ Reported(queue) \in Nat /\ Reported(Tail(queue)) \in Nat
      /\ Weight(Head(queue)) \in Nat
  BY <1>1, ReportedType, WeightType DEF StoreTypeOK, WriterTypeOK
<1>3. Reported(queue) = Weight(Head(queue)) + Reported(queue')
  BY ReportedTail DEF WriterTypeOK
<1>4. Reported(log') + Reported(queue') = Reported(log) + Reported(queue)
  <2>1. CASE log' = Append(log, Head(queue))
    <3>1. Reported(log') = Reported(log) + Weight(Head(queue))
      BY <2>1, <1>1, ReportedAppend DEF StoreTypeOK
    <3> QED
      BY <3>1, <1>2, <1>3
  <2>2. CASE log' = log /\ Weight(Head(queue)) = 0
    BY <2>2, <1>2, <1>3
  <2> QED
    BY <2>1, <2>2
<1>5. dropped \in Nat /\ unreported \in Nat /\ Reported(log') \in Nat /\ Reported(queue') \in Nat
  <2>1. log' \in Seq(Messages)
    BY <1>1 DEF StoreTypeOK
  <2> QED
    BY <2>1, <1>2, ReportedType DEF StoreTypeOK
<1>6. DropsAreReported'
  <2> SUFFICES ASSUME ~broken'
               PROVE  dropped' = unreported' + Reported(log') + Reported(queue')
    BY DEF DropsAreReported
  <2>1. dropped = unreported + Reported(log) + Reported(queue)
    BY DEF Counted, DropsAreReported
  <2> DEFINE a == Reported(log')
             b == Reported(queue')
             c == Reported(log)
             d == Reported(queue)
  <2>2. a \in Nat /\ b \in Nat /\ c \in Nat /\ d \in Nat /\ a + b = c + d
    BY <1>2, <1>4, <1>5
  <2>3. dropped = unreported + c + d /\ unreported \in Nat
    BY <2>1, <1>5
  <2> HIDE DEF a, b, c, d
  <2>4. dropped = unreported + a + b
    BY <2>2, <2>3
  <2> QED
    BY <2>4 DEF a, b
<1> QED
  BY <1>6 DEF Counted

LEMMA CountedCall ==
    ASSUME StoreTypeOK, WriterTypeOK, ActTypeOK, Counted, NEW a \in Actions,
           ToolCall(a) \/ OfferEvent(a)
    PROVE  Counted'
<1>1. UNCHANGED <<log, thread, broken>> /\ next \in Nat /\ unreported \in Nat
  BY DEF ToolCall, OfferEvent, BeginAction, PassGate, FinishAction, TryLock, ReportDrops,
     TrySend, store, writer, past, StoreTypeOK
<1>2. CASE ToolCall(a) \/ TryLock(a)
  <2>1. queue' = queue /\ (RecordDrop \/ UNCHANGED <<dropped, unreported>>)
    BY <1>2 DEF ToolCall, BeginAction, PassGate, FinishAction, TryLock, writer, counters
  <2> QED
    BY <1>1, <2>1, CountedKept
<1>3. CASE ReportDrops(a)
  <2> DEFINE m == Event("drops", Nobody, unreported, next)
  <2>1. m \in Messages /\ Weight(m) = unreported
    BY <1>1, MessageType DEF Kinds, Event, Weight
  <2>2. CASE queue' = queue /\ unreported' = unreported
    BY <1>1, <1>3, <2>2, CountedKept DEF ReportDrops
  <2>3. CASE queue' = Append(queue, m) /\ unreported' = 0
    <3>1. unreported' \in Nat /\ unreported = unreported' + Weight(m) /\ dropped' = dropped
      BY <1>1, <1>3, <2>1, <2>3 DEF ReportDrops
    <3> HIDE DEF m
    <3> QED
      BY <1>1, <2>1, <2>3, <3>1, CountedSent
  <2> QED
    BY <1>3, <2>2, <2>3 DEF ReportDrops, Unsent
<1>4. CASE TrySend(a)
  <2> DEFINE m == Event(act[a].event, a, 0, next)
  <2>1. m \in Messages /\ Weight(m) = 0
    <3>1. act[a].event # "drops"
      BY DEF ActTypeOK, Calls
    <3> QED
      BY <1>1, <3>1, CallKinds, MessageType DEF Event, Weight
  <2>2. CASE queue' = queue
    BY <1>1, <1>4, <2>2, CountedKept DEF TrySend, RecordDrop
  <2>3. CASE queue' = Append(queue, m) /\ UNCHANGED <<dropped, unreported>>
    <3>1. unreported' \in Nat /\ unreported = unreported' + Weight(m)
      BY <1>1, <2>1, <2>3
    <3> HIDE DEF m
    <3> QED
      BY <1>1, <2>1, <2>3, <3>1, CountedSent
  <2> QED
    BY <1>4, <2>2, <2>3 DEF TrySend
<1> QED
  BY <1>2, <1>3, <1>4 DEF OfferEvent

LEMMA CountedWriter ==
    ASSUME StoreTypeOK, WriterTypeOK, Counted, WriterLoop \/ MaintenanceFails
    PROVE  Counted'
<1>1. CASE AppendEvent
  BY <1>1, CountedTaken DEF AppendEvent, counters, past
<1>2. CASE AppendFails \/ MaintenanceFails
  BY <1>2, CountedBroken DEF AppendFails, MaintenanceFails, Fail
<1>3. CASE DiscardEvent
  BY <1>3, CountedBroken DEF DiscardEvent, Discards, Counted, past
<1>4. CASE AnswerRequest \/ ExitThread
  <2>1. Head(queue).what # "drops"
    BY <1>4 DEF AnswerRequest, ExitThread
  <2> QED
    BY <1>4, <2>1, CountedTaken DEF AnswerRequest, ExitThread, store, counters, past, Weight
<1> QED
  BY <1>1, <1>2, <1>3, <1>4 DEF WriterLoop

LEMMA CountedStart == ASSUME StoreTypeOK, WriterTypeOK, Counted, StartOperation PROVE Counted'
<1>1. UNCHANGED <<log, queue, thread, broken, dropped, unreported>>
  BY DEF StartOperation, Enable, Disable, DeleteAll, Pause, Resume, Flush, Query, Adjust,
     Begin, store, counters, writer
<1> QED
  BY <1>1, CountedKept

LEMMA CountedRun ==
    ASSUME TypeOK, HistoryInv, Counted, RunOperation
    PROVE  Counted'
<1>1. /\ StoreTypeOK /\ WriterTypeOK /\ ControlTypeOK /\ Shape /\ Course
      /\ next \in Nat /\ unreported \in Nat /\ LastSeq \in Nat
  BY LastType DEF TypeOK, StoreTypeOK, HistoryInv, Shape
<1>2. CASE StartWriter
  <2>1. UNCHANGED <<queue, dropped, unreported, broken>> /\ (thread' = thread \/ thread' = "running")
    BY <1>2 DEF StartWriter, past
  <2> DEFINE m == Event("enable", Nobody, 0, FirstSequence)
  <2>2. m \in Messages /\ Weight(m) = 0
    BY <1>1, MessageType DEF FirstSequence, Event, Kinds, AllOperations, Weight
  <2>3. CASE log' = log
    BY <1>1, <2>1, <2>3, CountedKept
  <2>4. CASE log' = Append(log, m)
    <3>1. thread = "none"
      BY <1>1, <1>2 DEF StartWriter, Shape, Agreement, Gone, ThreadInv
    <3> HIDE DEF m
    <3> QED
      BY <1>1, <2>1, <2>2, <2>4, <3>1, CountedStored
  <2> QED
    BY <1>2, <2>3, <2>4 DEF StartWriter
<1>3. CASE SendMarker
  <2> DEFINE m == Event(Marker(control.op), Nobody, 0, next)
  <2>1. control.op \in AllOperations
    BY <1>1, <1>3 DEF SendMarker, Course, Marking, Stopping, AllOperations
  <2>2. Marker(control.op) \in Kinds /\ Marker(control.op) # "drops"
    BY <2>1 DEF Marker, Kinds, AllOperations
  <2>3. m \in Messages /\ Weight(m) = 0
    BY <1>1, <2>2, MessageType DEF Event, Weight
  <2>4. UNCHANGED <<log, thread, broken, dropped, unreported>> /\ queue' = Append(queue, m)
    BY <1>3 DEF SendMarker, store, past
  <2>5. unreported' \in Nat /\ unreported = unreported' + Weight(m)
    BY <1>1, <2>3, <2>4
  <2> HIDE DEF m
  <2> QED
    BY <1>1, <2>3, <2>4, <2>5, CountedSent
<1>4. CASE Ask \/ SendShutdown
  <2>1. PICK what \in {"Flush", "ReadSnapshot", "Shutdown"}, n \in Nat :
            queue' = Append(queue, Request(what, n))
    BY <1>1, <1>4 DEF Ask, SendShutdown, ControlTypeOK
  <2> DEFINE m == Request(what, n)
  <2>2. m \in Messages /\ Weight(m) = 0
    BY RequestType DEF Request, Event, Weight
  <2>3. UNCHANGED <<log, thread, broken, dropped, unreported>> /\ queue' = Append(queue, m)
    BY <1>4, <2>1 DEF Ask, SendShutdown, store, counters, past
  <2>4. unreported' \in Nat /\ unreported = unreported' + Weight(m)
    BY <1>1, <2>2, <2>3
  <2> HIDE DEF m
  <2> QED
    BY <1>1, <2>2, <2>3, <2>4, CountedSent
<1>5. CASE Erase
  <2>1. CASE broken'
    BY <2>1, CountedBroken
  <2>2. CASE ~broken'
    BY <1>1, <1>5, <2>2, CountedKept DEF Erase, writer
  <2> QED
    BY <2>1, <2>2
<1>6. CASE QueryOffline
  <2>1. UNCHANGED <<queue, thread, dropped, unreported, broken>>
    BY <1>6 DEF QueryOffline, writer, past
  <2> DEFINE m == Event("access", Nobody, 0, NextOffline)
  <2>2. m \in Messages /\ Weight(m) = 0
    BY <1>1, MessageType DEF NextOffline, Event, Kinds, Weight
  <2>3. CASE log' = log
    BY <1>1, <2>1, <2>3, CountedKept
  <2>4. CASE log' = Append(log, m)
    <3>1. thread = "none"
      BY <1>1, <1>6 DEF QueryOffline, Shape, Agreement, Gone, ThreadInv
    <3> HIDE DEF m
    <3> QED
      BY <1>1, <2>1, <2>2, <2>4, <3>1, CountedStored
  <2> QED
    BY <1>6, <2>3, <2>4 DEF QueryOffline
<1>7. CASE Persist \/ PersistFails \/ TakeSlot \/ CloneSender \/ Flushed \/ Undo \/ Open
           \/ Settle \/ Join \/ SnapshotRead
  <2>1. UNCHANGED <<log, queue, thread, broken, dropped, unreported>>
    BY <1>7 DEF Persist, PersistFails, TakeSlot, CloneSender, Flushed, Undo, Open, Settle,
       Join, SnapshotRead, store, counters, writer, past
  <2> QED
    BY <1>1, <2>1, CountedKept
<1> QED
  BY <1>2, <1>3, <1>4, <1>5, <1>6, <1>7 DEF RunOperation

LEMMA CountedNext ==
    ASSUME TypeOK, HistoryInv, Counted, [Next]_vars
    PROVE  Counted'
<1>1. StoreTypeOK /\ WriterTypeOK /\ ActTypeOK
  BY DEF TypeOK
<1>2. CASE Restart
  BY <1>2, CountedBroken DEF Restart
<1>3. CASE UNCHANGED vars
  BY <1>1, <1>3, CountedKept DEF vars, store, counters, writer, past
<1> QED
  BY <1>1, <1>2, <1>3, CountedCall, CountedWriter, CountedStart, CountedRun DEF Next

\* Every event that was dropped, at a busy slot or a full queue, is in a report
\* that is stored or on its way or is still to be reported (record_drop and
\* report_pending_drops, history.rs), for any capacity and any number of calls, as
\* long as the writer has not failed, the log not been erased and the process lives.
THEOREM DropsReported == Spec => []DropsAreReported
<1>1. TypeOK /\ HistoryInv /\ Counted /\ [Next]_vars => Counted'
  BY CountedNext
<1>2. Counted => DropsAreReported
  BY DEF Counted
<1> QED
  BY Invariant, CountedInit, <1>1, <1>2, PTL DEF Spec
=============================================================================
