-------------------------- MODULE WorkQueue_proofs --------------------------
(***************************************************************************)
(* The work queue for any number of items, of workers and of interleaved   *)
(* steps: types, a counter that is right, and, if no item is queued again  *)
(* while its old worker still has it in hand, that it implements WorkPool  *)
(* and that no signal to a sleeping thread is lost.                        *)
(***************************************************************************)
EXTENDS WorkQueue, FiniteSetTheorems, WellFoundedInduction, TLAPS

-----------------------------------------------------------------------------
(* Types.                                                                  *)

\* The places where a thread has an item in hand.
Handling == {"run", "marked", "await", "arm", "check", "block", "dispose"}
InHand == \A t \in Thread : pc[t] \in Handling => item[t] \in Item

Typed == TypeOK /\ InHand

LEMMA Threads == Caller \in Thread /\ Worker \subseteq Thread
BY ThreadAssumption DEF Caller, Thread, Worker

\* A batch is a sequence of different items.
LEMMA BatchType ==
    ASSUME NEW s \in Batches
    PROVE  s \in Seq(Item) /\ Len(s) \in Nat /\ IsInjective(s)
BY ThreadAssumption DEF Batches, SeqOf

LEMMA MoveTyped ==
    ASSUME Typed, NEW t \in Thread, NEW from, NEW to \in Places,
           to \in Handling => from \in Handling, Move(t, from, to)
    PROVE  Typed'
BY DEF Typed, TypeOK, InHand, Move, At, Goto, queue, work, store, marks, signals, crew

LEMMA TypedInit == Init => Typed
<1> SUFFICES ASSUME Init PROVE Typed
    OBVIOUS
<1>1. threads \in 0 .. MaxThreads /\ flags \subseteq {"MULTI", "HIGH_FREQ"} /\ auto \in BOOLEAN
    <2>1. PICK q \in Queues : threads = q.threads /\ flags = q.flags /\ auto = q.auto
        BY DEF Init
    <2>2. /\ q.flags \subseteq {"MULTI", "HIGH_FREQ"} /\ q.threads \in 0 .. MaxThreads
          /\ q.auto \in BOOLEAN
        BY QueueAssumption
    <2>3. auto \in BOOLEAN
        BY <2>1, <2>2, Zenon
    <2>4. QED
        BY <2>1, <2>2, <2>3
<1>2. \A t \in Thread : pc[t] \in {"ready", "idle", "gone"}
    BY DEF Init
<1>3. pc \in [Thread -> Places] /\ item \in [Thread -> Item \cup {None}]
    BY <1>2 DEF Init, Places
<1>4. TypeOK
    <2>1. /\ list \in Seq(Item) /\ items \in Int /\ live \in Int /\ batch \in Nat
          /\ free \subseteq Item /\ held \subseteq Item
          /\ done \in [Item -> BOOLEAN] /\ event \in [Item -> BOOLEAN]
          /\ wake \in [Worker -> BOOLEAN]
        BY DEF Init
    <2>2. exiting \in BOOLEAN /\ waiting \in BOOLEAN /\ doneevent \in BOOLEAN
        BY DEF Init
    <2>3. QED
        BY <1>1, <1>3, <2>1, <2>2, Zenon DEF TypeOK
<1>5. InHand
    BY <1>2 DEF InHand, Handling
<1>6. QED
    BY <1>4, <1>5 DEF Typed

LEMMA ProcessTyped ==
    ASSUME Typed, NEW t \in Thread, Process(t) PROVE Typed'
<1> USE DEF Typed
<1>1. CASE Pull(t)
    BY <1>1 DEF Pull, TypeOK, InHand, At, Goto, Take, Places, Handling,
                queue, work, store, marks, signals, crew
<1>2. CASE Finish(t)
    BY <1>2 DEF Finish, TypeOK, InHand, At, Goto, Places, Handling,
                queue, work, store, marks, signals, crew
<1>3. CASE SignalItem(t)
    BY <1>3 DEF SignalItem, TypeOK, InHand, At, Goto, Take, Places, Handling,
                queue, work, store, marks, signals, crew
<1>4. CASE Drained(t)
    BY <1>4, MoveTyped DEF Drained, AfterDrain, Places, Handling
<1>5. CASE Tell(t)
    BY <1>5 DEF Tell, AfterDrain, TypeOK, InHand, At, Goto, Places, Handling,
                queue, work, store, marks, signals, crew
<1>6. CASE Await(t) \/ Check(t) \/ Unblock(t)
    BY <1>6, MoveTyped DEF Await, Check, Unblock, Places, Handling
<1>7. CASE Arm(t)
    BY <1>7 DEF Arm, TypeOK, InHand, At, Goto, Places, Handling,
                queue, work, store, marks, signals, crew
<1>8. CASE Dispose(t)
    BY <1>8 DEF Dispose, TypeOK, InHand, At, Goto, Take, Places, Handling,
                queue, work, store, marks, signals, crew
<1>9. QED
    BY <1>1, <1>2, <1>3, <1>4, <1>5, <1>6, <1>7, <1>8 DEF Process

LEMMA WorkerTyped ==
    ASSUME Typed, NEW w \in Worker, WorkerStep(w) PROVE Typed'
<1> USE DEF Typed
<1>0. w \in Thread
    BY Threads
<1>1. CASE Process(w)
    BY <1>0, <1>1, ProcessTyped
<1>2. CASE Idle(w) \/ Recheck(w)
    BY <1>0, <1>2, MoveTyped DEF Idle, Recheck, Places, Handling
<1>3. CASE GoLive(w)
    BY <1>0, <1>3 DEF GoLive, TypeOK, InHand, At, Goto, Places, Handling,
                queue, work, store, marks, signals
<1>4. CASE ResetWake(w)
    BY <1>0, <1>4 DEF ResetWake, TypeOK, InHand, At, Goto, Places, Handling,
                queue, work, store, marks, signals
<1>5. CASE Retire(w)
    BY <1>0, <1>5 DEF Retire, TypeOK, InHand, At, Goto, Places, Handling,
                queue, work, store, marks, signals
<1>6. QED
    BY <1>1, <1>2, <1>3, <1>4, <1>5 DEF WorkerStep

LEMMA CallTyped ==
    ASSUME Typed, Call PROVE Typed'
<1> USE Threads DEF Typed
<1>1. ASSUME NEW s \in Batches, Enqueue(s) PROVE Typed'
    BY <1>1, BatchType DEF Enqueue, TypeOK, InHand, At, Goto, Places, Handling, ToSet,
                queue, signals, crew
<1>2. CASE QueueWait
    BY <1>2, MoveTyped DEF QueueWait, Places, Handling
<1>3. ASSUME NEW i \in Item, ItemWait(i) \/ Release(i) PROVE Typed'
    BY <1>3 DEF ItemWait, Release, TypeOK, InHand, At, Goto, Take, Places, Handling,
                queue, work, store, marks, signals, crew
<1>4. CASE Free
    BY <1>4 DEF Free, TypeOK, InHand, At, Goto, Places, Handling,
                work, store, marks, signals
<1>5. QED
    BY <1>1, <1>2, <1>3, <1>4 DEF Call

LEMMA CallerTyped ==
    ASSUME Typed, CallerStep \/ TimeOut PROVE Typed'
<1> USE Threads DEF Typed
<1>1. CASE Process(Caller)
    BY <1>1, ProcessTyped
<1>2. CASE AddItems
    BY <1>2 DEF AddItems, TypeOK, InHand, At, Goto, Places, Handling,
                queue, store, marks, signals, crew
<1>3. CASE WakeWorkers
    BY <1>3 DEF WakeWorkers, TypeOK, InHand, At, Goto, Places, Handling,
                queue, work, store, marks, signals
<1>4. CASE Spin \/ Look \/ Doze \/ Join \/ TimeOut
    BY <1>4, MoveTyped DEF Spin, Look, Doze, Join, TimeOut, Places, Handling
<1>5. CASE ResetDone \/ Announce \/ Leave
    BY <1>5 DEF ResetDone, Announce, Leave, TypeOK, InHand, At, Goto, Places, Handling,
                queue, work, store, marks, crew
<1>6. CASE ItemDone
    BY <1>6 DEF ItemDone, TypeOK, InHand, At, Goto, Take, Places, Handling,
                queue, work, store, marks, signals, crew
<1>7. QED
    BY <1>1, <1>2, <1>3, <1>4, <1>5, <1>6 DEF CallerStep

LEMMA StutterTyped == ASSUME Typed, UNCHANGED vars PROVE Typed'
BY DEF vars, Typed, TypeOK, InHand, queue, work, store, marks, signals, crew

LEMMA TypedStep == Typed /\ [Next]_vars => Typed'
BY CallTyped, CallerTyped, WorkerTyped, StutterTyped DEF Next

\* Every variable has its type, and threads that handle items have one.
LEMMA AlwaysTyped == Spec => []Typed
BY TypedInit, TypedStep, PTL DEF Spec

THEOREM TypeCorrect == Spec => []TypeOK
<1>1. Typed => TypeOK
    BY DEF Typed
<1>2. QED
    BY <1>1, AlwaysTyped, PTL

-----------------------------------------------------------------------------
(* The counter.                                                            *)

\* The threads that are in a callback.
Ran(p) == {t \in Thread : p[t] = "run"}

LEMMA RanFinite ==
    ASSUME NEW p PROVE IsFiniteSet(Ran(p)) /\ Cardinality(Ran(p)) \in Nat
<1>1. IsFiniteSet(Thread)
    BY ThreadAssumption, FS_Interval DEF Thread
<1>2. QED
    BY <1>1, FS_Subset, FS_CardinalityType DEF Ran

\* A thread's step changes the number of callbacks by its own.
LEMMA RanChanges ==
    ASSUME Typed, NEW t \in Thread, NEW to \in Places, Goto(t, to)
    PROVE  Cardinality(Ran(pc')) = Cardinality(Ran(pc))
               + (IF to = "run" THEN 1 ELSE 0) - (IF At(t, "run") THEN 1 ELSE 0)
<1>1. \A u \in Thread : pc'[u] = IF u = t THEN to ELSE pc[u]
    BY DEF Goto, Typed, TypeOK
<1>2. CASE to = "run"
    <2>1. Ran(pc') = Ran(pc) \cup {t}
        BY <1>1, <1>2 DEF Ran
    <2>2. t \in Ran(pc) <=> At(t, "run")
        BY DEF Ran, At
    <2>3. Cardinality(Ran(pc) \cup {t}) =
              IF t \in Ran(pc) THEN Cardinality(Ran(pc)) ELSE Cardinality(Ran(pc)) + 1
        BY RanFinite, FS_AddElement
    <2>4. Cardinality(Ran(pc)) \in Nat
        BY RanFinite
    <2>5. CASE At(t, "run")
        BY <1>2, <2>1, <2>2, <2>3, <2>4, <2>5
    <2>6. CASE ~At(t, "run")
        BY <1>2, <2>1, <2>2, <2>3, <2>4, <2>6
    <2>7. QED
        BY <2>5, <2>6
<1>3. CASE to # "run"
    <2>1. Ran(pc') = Ran(pc) \ {t}
        BY <1>1, <1>3 DEF Ran
    <2>2. t \in Ran(pc) <=> At(t, "run")
        BY DEF Ran, At
    <2>3. Cardinality(Ran(pc) \ {t}) =
              IF t \in Ran(pc) THEN Cardinality(Ran(pc)) - 1 ELSE Cardinality(Ran(pc))
        BY RanFinite, FS_RemoveElement
    <2>4. Cardinality(Ran(pc)) \in Nat
        BY RanFinite
    <2>5. CASE At(t, "run")
        BY <1>3, <2>1, <2>2, <2>3, <2>4, <2>5
    <2>6. CASE ~At(t, "run")
        BY <1>3, <2>1, <2>2, <2>3, <2>4, <2>6
    <2>7. QED
        BY <2>5, <2>6
<1>4. QED
    BY <1>2, <1>3

Uncounted == IF At(Caller, "count") THEN batch ELSE 0

LEMMA Counts == CountsAddUp <=> items + Uncounted = Len(list) + Cardinality(Ran(pc))
BY DEF CountsAddUp, Ran, Uncounted, At

LEMMA CountsNext == CountsAddUp' <=> items' + Uncounted' = Len(list') + Cardinality(Ran(pc'))
BY DEF CountsAddUp, Ran, Uncounted, At

\* A step that neither counts, lists nor runs anything.
LEMMA QuietCounts ==
    ASSUME Typed, CountsAddUp, NEW t \in Thread, NEW to \in Places \ {"run", "count"},
           Goto(t, to), ~At(t, "run"), ~At(t, "count"), UNCHANGED <<items, list, batch>>
    PROVE  CountsAddUp'
<1>1. Cardinality(Ran(pc')) = Cardinality(Ran(pc))
    BY RanChanges, RanFinite
<1>2. Uncounted' = Uncounted
    BY Threads DEF Uncounted, At, Goto, Typed, TypeOK
<1>3. QED
    BY <1>1, <1>2, Counts, CountsNext

LEMMA MoveCounts ==
    ASSUME Typed, CountsAddUp, NEW t \in Thread, NEW from, NEW to \in Places,
           {from, to} \cap {"run", "count"} = {}, Move(t, from, to)
    PROVE  CountsAddUp'
<1>1. Goto(t, to) /\ ~At(t, "run") /\ ~At(t, "count") /\ UNCHANGED <<items, list, batch>>
    BY DEF Move, At, work
<1>2. QED
    BY <1>1, QuietCounts

LEMMA ProcessCounts ==
    ASSUME Typed, CountsAddUp, NEW t \in Thread, Process(t) PROVE CountsAddUp'
<1>1. CASE Pull(t)
    <2>1. CASE list = <<>>
        BY <1>1, <2>1, QuietCounts DEF Pull, At, Places
    <2>2. CASE list # <<>>
        <3>1. Goto(t, "run") /\ list' = Tail(list) /\ At(t, "pull") /\ UNCHANGED <<items, batch>>
            BY <1>1, <2>2 DEF Pull
        <3>2. Cardinality(Ran(pc')) = Cardinality(Ran(pc)) + 1
            BY <3>1, RanChanges, RanFinite DEF At, Places
        <3>3. Len(list) = Len(list') + 1 /\ Len(list') \in Nat
            BY <2>2, <3>1 DEF Typed, TypeOK
        <3>4. Uncounted' = Uncounted
            BY <3>1, Threads DEF Uncounted, At, Goto, Typed, TypeOK
        <3>5. QED
            BY <3>1, <3>2, <3>3, <3>4, Counts, CountsNext, RanFinite
    <2>3. QED
        BY <2>1, <2>2
<1>2. CASE Finish(t)
    <2>1. Goto(t, "marked") /\ At(t, "run") /\ items' = items - 1 /\ UNCHANGED <<list, batch>>
        BY <1>2 DEF Finish
    <2>2. Cardinality(Ran(pc')) = Cardinality(Ran(pc)) - 1
        BY <2>1, RanChanges, RanFinite DEF Places
    <2>3. Uncounted' = Uncounted
        BY <2>1, Threads DEF Uncounted, At, Goto, Typed, TypeOK
    <2>4. items \in Int /\ Len(list) \in Nat /\ Uncounted \in Nat
        BY DEF Typed, TypeOK, Uncounted
    <2>5. QED
        BY <2>1, <2>2, <2>3, <2>4, Counts, CountsNext, RanFinite
<1>3. CASE SignalItem(t)
    BY <1>3, QuietCounts DEF SignalItem, At, Places, work
<1>4. CASE Drained(t)
    BY <1>4, MoveCounts DEF Drained, AfterDrain, Places
<1>5. CASE Tell(t)
    BY <1>5, QuietCounts DEF Tell, AfterDrain, At, Places, work
<1>6. CASE Await(t) \/ Check(t) \/ Unblock(t)
    BY <1>6, MoveCounts DEF Await, Check, Unblock, Places
<1>7. CASE Arm(t)
    BY <1>7, QuietCounts DEF Arm, At, Places, work
<1>8. CASE Dispose(t)
    BY <1>8, QuietCounts DEF Dispose, At, Places, work
<1>9. QED
    BY <1>1, <1>2, <1>3, <1>4, <1>5, <1>6, <1>7, <1>8 DEF Process

LEMMA WorkerCounts ==
    ASSUME Typed, CountsAddUp, NEW w \in Worker, WorkerStep(w) PROVE CountsAddUp'
<1>0. w \in Thread
    BY Threads
<1>1. CASE Process(w)
    BY <1>0, <1>1, ProcessCounts
<1>2. CASE Idle(w) \/ Recheck(w)
    BY <1>0, <1>2, MoveCounts DEF Idle, Recheck, Places
<1>3. CASE GoLive(w)
    BY <1>0, <1>3, QuietCounts DEF GoLive, At, Places, work
<1>4. CASE ResetWake(w) \/ Retire(w)
    BY <1>0, <1>4, QuietCounts DEF ResetWake, Retire, At, Places, work
<1>5. QED
    BY <1>1, <1>2, <1>3, <1>4 DEF WorkerStep

LEMMA CallCounts ==
    ASSUME Typed, CountsAddUp, Call PROVE CountsAddUp'
<1> USE Threads
<1>1. ASSUME NEW s \in Batches, Enqueue(s) PROVE CountsAddUp'
    <2>1. /\ Goto(Caller, "count") /\ At(Caller, "ready")
          /\ list' = list \o s /\ batch' = Len(s) /\ items' = items
        BY <1>1 DEF Enqueue
    <2>2. Cardinality(Ran(pc')) = Cardinality(Ran(pc))
        BY <2>1, RanChanges, RanFinite DEF At, Places
    <2>3. Len(list') = Len(list) + Len(s) /\ Len(list) \in Nat /\ Len(s) \in Nat
        BY <2>1, BatchType DEF Typed, TypeOK
    <2>4. Uncounted = 0 /\ Uncounted' = Len(s)
        BY <2>1 DEF Uncounted, At, Goto, Typed, TypeOK
    <2>5. items \in Int
        BY DEF Typed, TypeOK
    <2>6. QED
        BY <2>1, <2>2, <2>3, <2>4, <2>5, Counts, CountsNext, RanFinite
<1>2. CASE QueueWait
    BY <1>2, MoveCounts DEF QueueWait, Places
<1>3. ASSUME NEW i \in Item, ItemWait(i) \/ Release(i) PROVE CountsAddUp'
    BY <1>3, QuietCounts DEF ItemWait, Release, At, Places, work
<1>4. CASE Free
    BY <1>4, QuietCounts DEF Free, At, Places, work
<1>5. QED
    BY <1>1, <1>2, <1>3, <1>4 DEF Call

LEMMA CallerCounts ==
    ASSUME Typed, CountsAddUp, CallerStep \/ TimeOut PROVE CountsAddUp'
<1> USE Threads
<1>1. CASE Process(Caller)
    BY <1>1, ProcessCounts
<1>2. CASE AddItems
    <2>1. /\ Goto(Caller, "wake") /\ At(Caller, "count")
          /\ items' = items + batch /\ UNCHANGED <<list, batch>>
        BY <1>2 DEF AddItems
    <2>2. Cardinality(Ran(pc')) = Cardinality(Ran(pc))
        BY <2>1, RanChanges, RanFinite DEF At, Places
    <2>3. Uncounted = batch /\ Uncounted' = 0 /\ batch \in Nat /\ items \in Int
        BY <2>1 DEF Uncounted, At, Goto, Typed, TypeOK
    <2>4. QED
        BY <2>1, <2>2, <2>3, Counts, CountsNext
<1>3. CASE WakeWorkers
    <2>1. /\ At(Caller, "wake") /\ \E to \in {"pull", "ready"} : Goto(Caller, to)
          /\ UNCHANGED <<items, list>>
        BY <1>3 DEF WakeWorkers, work
    <2>2. Cardinality(Ran(pc')) = Cardinality(Ran(pc))
        BY <2>1, RanChanges, RanFinite DEF At, Places
    <2>3. Uncounted = 0 /\ Uncounted' = 0
        BY <2>1 DEF Uncounted, At, Goto, Typed, TypeOK
    <2>4. QED
        BY <2>1, <2>2, <2>3, Counts, CountsNext
<1>4. CASE Spin \/ Look \/ Doze \/ Join \/ TimeOut
    BY <1>4, MoveCounts DEF Spin, Look, Doze, Join, TimeOut, Places
<1>5. CASE ResetDone \/ Announce \/ Leave
    BY <1>5, QuietCounts DEF ResetDone, Announce, Leave, At, Places, work
<1>6. CASE ItemDone
    BY <1>6, QuietCounts DEF ItemDone, At, Places, work
<1>7. QED
    BY <1>1, <1>2, <1>3, <1>4, <1>5, <1>6 DEF CallerStep

LEMMA CountsInit == Init => CountsAddUp
<1> SUFFICES ASSUME Init PROVE CountsAddUp
    OBVIOUS
<1>1. Ran(pc) = {}
    BY DEF Init, Ran
<1>2. Uncounted = 0 /\ items = 0 /\ Len(list) = 0
    BY Threads DEF Init, Uncounted, At
<1>3. QED
    BY <1>1, <1>2, Counts, FS_EmptySet

LEMMA CountsStep == Typed /\ CountsAddUp /\ [Next]_vars => CountsAddUp'
<1>1. ASSUME CountsAddUp, UNCHANGED vars PROVE CountsAddUp'
    BY <1>1, Counts, CountsNext DEF vars, work, Uncounted, At
<1>2. QED
    BY <1>1, CallCounts, CallerCounts, WorkerCounts DEF Next

\* queue->items is the number of items listed or running, but for a batch
\* about to be counted: osd_work_queue_wait and the end of a drain may trust it.
THEOREM CounterIsRight == Spec => []CountsAddUp
BY AlwaysTyped, CountsInit, CountsStep, PTL DEF Spec

-----------------------------------------------------------------------------
(* Lists of different items.                                               *)

Once(s) == \A a, b \in 1 .. Len(s) : s[a] = s[b] => a = b

LEMMA ItemsOf ==
    ASSUME NEW s \in Seq(Item) PROVE ToSet(s) = {s[a] : a \in 1 .. Len(s)}
BY DEF ToSet

LEMMA OnceConcat ==
    ASSUME NEW s \in Seq(Item), NEW u \in Seq(Item), Once(s), Once(u),
           ToSet(s) \cap ToSet(u) = {}
    PROVE  Once(s \o u) /\ ToSet(s \o u) = ToSet(s) \cup ToSet(u)
<1> DEFINE v == s \o u
<1>1. v \in Seq(Item) /\ Len(v) = Len(s) + Len(u) /\ Len(s) \in Nat /\ Len(u) \in Nat
    OBVIOUS
<1>2. /\ \A a \in 1 .. Len(s) : v[a] = s[a] /\ v[a] \in ToSet(s)
      /\ \A a \in Len(s) + 1 .. Len(v) : v[a] = u[a - Len(s)] /\ v[a] \in ToSet(u)
    BY <1>1, ItemsOf
<1>3. \A a \in 1 .. Len(u) : v[a + Len(s)] = u[a]
    BY <1>1
<1> HIDE DEF v
<1>4. Once(v)
    <2> SUFFICES ASSUME NEW a \in 1 .. Len(v), NEW b \in 1 .. Len(v), v[a] = v[b]
                 PROVE  a = b
        BY DEF Once
    <2>1. CASE a <= Len(s) /\ b <= Len(s)
        <3>1. a \in 1 .. Len(s) /\ b \in 1 .. Len(s)
            BY <1>1, <2>1
        <3>2. s[a] = s[b]
            BY <1>2, <3>1
        <3>3. QED
            BY <3>1, <3>2 DEF Once
    <2>2. CASE a > Len(s) /\ b > Len(s)
        <3>1. a - Len(s) \in 1 .. Len(u) /\ b - Len(s) \in 1 .. Len(u)
            BY <1>1, <2>2
        <3>2. u[a - Len(s)] = u[b - Len(s)]
            <4>1. a \in Len(s) + 1 .. Len(v) /\ b \in Len(s) + 1 .. Len(v)
                BY <1>1, <2>2
            <4>2. v[a] = u[a - Len(s)] /\ v[b] = u[b - Len(s)]
                BY <1>2, <4>1
            <4>3. QED
                BY <4>2
        <3>3. a - Len(s) = b - Len(s)
            BY <3>1, <3>2 DEF Once
        <3>4. QED
            BY <1>1, <3>3
    <2>3. CASE ~(a <= Len(s) <=> b <= Len(s))
        <3>1. \/ v[a] \in ToSet(s) /\ v[b] \in ToSet(u)
              \/ v[b] \in ToSet(s) /\ v[a] \in ToSet(u)
            BY <1>1, <1>2, <2>3
        <3>2. v[a] \in ToSet(s) /\ v[a] \in ToSet(u)
            BY <3>1, Zenon
        <3>3. QED
            BY <3>2, Zenon
    <2>4. QED
        BY <1>1, <2>1, <2>2, <2>3
<1>5. ToSet(v) = ToSet(s) \cup ToSet(u)
    <2>1. ToSet(v) \subseteq ToSet(s) \cup ToSet(u)
        <3> SUFFICES ASSUME NEW a \in 1 .. Len(v) PROVE v[a] \in ToSet(s) \cup ToSet(u)
            BY <1>1, ItemsOf
        <3>1. a \in 1 .. Len(s) \/ a \in Len(s) + 1 .. Len(v)
            BY <1>1
        <3>2. QED
            BY <1>2, <3>1
    <2>2. ToSet(s) \subseteq ToSet(v)
        <3> SUFFICES ASSUME NEW a \in 1 .. Len(s) PROVE s[a] \in ToSet(v)
            BY ItemsOf
        <3>1. a \in 1 .. Len(v)
            BY <1>1
        <3>2. QED
            BY <1>1, <1>2, <3>1, ItemsOf
    <2>3. ToSet(u) \subseteq ToSet(v)
        <3> SUFFICES ASSUME NEW a \in 1 .. Len(u) PROVE u[a] \in ToSet(v)
            BY ItemsOf
        <3>1. a + Len(s) \in 1 .. Len(v)
            BY <1>1
        <3>2. QED
            BY <1>1, <1>3, <3>1, ItemsOf
    <2>4. QED
        BY <2>1, <2>2, <2>3, Zenon
<1>6. QED
    BY <1>4, <1>5 DEF v

LEMMA OnceTail ==
    ASSUME NEW s \in Seq(Item), s # <<>>, Once(s)
    PROVE  /\ Once(Tail(s)) /\ ToSet(Tail(s)) = ToSet(s) \ {Head(s)}
           /\ Head(s) \in ToSet(s) /\ Head(s) \in Item
<1> DEFINE v == Tail(s)
<1>1. v \in Seq(Item) /\ Len(v) = Len(s) - 1 /\ Len(s) \in Nat /\ Len(s) > 0
    OBVIOUS
<1>2. \A a \in 1 .. Len(v) : v[a] = s[a + 1]
    BY <1>1
<1>3. Head(s) = s[1] /\ 1 \in 1 .. Len(s)
    BY <1>1
<1> HIDE DEF v
<1>4. Once(v)
    <2> SUFFICES ASSUME NEW a \in 1 .. Len(v), NEW b \in 1 .. Len(v), v[a] = v[b]
                 PROVE  a = b
        BY DEF Once
    <2>1. a + 1 \in 1 .. Len(s) /\ b + 1 \in 1 .. Len(s) /\ s[a + 1] = s[b + 1]
        BY <1>1, <1>2
    <2>2. a + 1 = b + 1
        BY <2>1 DEF Once
    <2>3. QED
        BY <2>2
<1>5. ToSet(v) \subseteq ToSet(s) \ {Head(s)}
    <2> SUFFICES ASSUME NEW a \in 1 .. Len(v) PROVE v[a] \in ToSet(s) \ {Head(s)}
        BY <1>1, ItemsOf
    <2>1. a + 1 \in 1 .. Len(s) /\ a + 1 # 1 /\ v[a] = s[a + 1]
        BY <1>1, <1>2
    <2>2. s[a + 1] # s[1]
        BY <1>3, <2>1 DEF Once
    <2>3. QED
        BY <1>3, <2>1, <2>2, ItemsOf
<1>6. ToSet(s) \ {Head(s)} \subseteq ToSet(v)
    <2> SUFFICES ASSUME NEW a \in 1 .. Len(s), s[a] # Head(s) PROVE s[a] \in ToSet(v)
        BY ItemsOf
    <2>1. a - 1 \in 1 .. Len(v)
        BY <1>1, <1>3
    <2>2. v[a - 1] = s[a]
        BY <1>1, <1>2, <2>1
    <2>3. QED
        BY <1>1, <2>1, <2>2, ItemsOf
<1>7. QED
    BY <1>3, <1>4, <1>5, <1>6, ItemsOf DEF v

-----------------------------------------------------------------------------
(* The invariant.  An item is fresh, not done and not free, while it is     *)
(* listed or running, and running in one thread only.  The worker that      *)
(* releases an item has it to itself; of an item that the caller releases   *)
(* the worker lets go with the event.                                       *)

Waiting == {"await", "arm", "check", "block", "dispose"}
After == Waiting \cup {"marked"}

HeldApart == held \cap free = {} /\ (auto => held = {})

ListedFresh == Once(list) /\ \A i \in ToSet(list) : ~done[i] /\ i \notin free

RunningFresh ==
    \A t \in Thread : At(t, "run") =>
        /\ ~done[item[t]] /\ item[t] \notin free /\ item[t] \notin ToSet(list)
        /\ \A u \in Thread : At(u, "run") /\ item[u] = item[t] => u = t

WorkersHand ==
    auto => \A t \in Thread : pc[t] \in After =>
        /\ done[item[t]] /\ item[t] \notin free
        /\ \A u \in Thread : pc[u] \in After /\ item[u] = item[t] => u = t

CallersHand ==
    ~auto => \A t \in Thread :
        /\ At(t, "marked") => done[item[t]]
        /\ pc[t] \in Waiting => t = Caller /\ item[t] \notin free
        /\ pc[t] \in {"check", "block"} /\ event[item[t]] => done[item[t]]
        /\ At(t, "dispose") => done[item[t]] \/ item[t] \in held

PoolInv == HeldApart /\ ListedFresh /\ RunningFresh /\ WorkersHand /\ CallersHand

\* Steps that put nothing in a thread's hand and move no item.
Quiet(t) ==
    /\ ~At(t, "run") /\ \E to \in Places \ Handling : Goto(t, to)
    /\ \A u \in Thread \ {t} : item'[u] = item[u]
    /\ UNCHANGED <<auto, list, free, held, done>>
    /\ \A i \in Item : event'[i] => event[i] \/ done[i]

\* Steps on the way to the release of an item, or in a wait for it.
OnTheWay(t) ==
    \/ Await(t) \/ Arm(t) \/ Check(t) \/ Unblock(t)
    \/ auto /\ SignalItem(t)
    \/ t = Caller /\ \E i \in Item : ItemWait(i) \/ Release(i)
    \/ t = Caller /\ item[t] \in held /\ Move(t, "block", "dispose")

PullOne(t) == list # <<>> /\ Pull(t)

LEMMA MoveQuiet ==
    ASSUME NEW t \in Thread, NEW from, NEW to \in Places \ Handling, from # "run",
           Move(t, from, to)
    PROVE  Quiet(t)
BY DEF Move, Quiet, At, queue, work, store, marks

LEMMA ProcessKinds ==
    ASSUME Typed, PoolInv, NEW t \in Thread, Process(t)
    PROVE  PullOne(t) \/ Finish(t) \/ Dispose(t) \/ OnTheWay(t) \/ Quiet(t)
<1>1. CASE Pull(t) /\ list = <<>>
    BY <1>1 DEF Pull, Quiet, At, Goto, Places, Handling, queue, store, marks
<1>2. CASE SignalItem(t) /\ ~auto
    <2>1. At(t, "marked") /\ done[item[t]] /\ item[t] \in Item
        BY <1>2 DEF SignalItem, At, PoolInv, CallersHand, Typed, InHand, Handling
    <2>2. \A i \in Item : event'[i] => event[i] \/ done[i]
        BY <1>2, <2>1 DEF SignalItem, Typed, TypeOK
    <2>3. Goto(t, "pull") /\ Take(t, None) /\ UNCHANGED <<auto, list, free, held, done>>
        BY <1>2 DEF SignalItem, queue, work, store
    <2>4. QED
        BY <2>1, <2>2, <2>3 DEF Quiet, At, Take, Places, Handling, Typed, TypeOK
<1>3. CASE Drained(t)
    BY <1>3, MoveQuiet DEF Drained, AfterDrain, Places, Handling
<1>4. CASE Tell(t)
    BY <1>4 DEF Tell, AfterDrain, Quiet, At, Places, Handling, queue, work, store, marks
<1>5. CASE Await(t) \/ Arm(t) \/ Check(t) \/ Unblock(t) \/ (SignalItem(t) /\ auto)
    BY <1>5 DEF OnTheWay
<1>6. QED
    BY <1>1, <1>2, <1>3, <1>4, <1>5 DEF Process, PullOne

\* Every step is of one of these kinds.
LEMMA Kinds ==
    ASSUME Typed, PoolInv, Next
    PROVE  \/ \E s \in Batches : Enqueue(s)
           \/ \E t \in Thread :
                PullOne(t) \/ Finish(t) \/ Dispose(t) \/ OnTheWay(t) \/ Quiet(t)
<1> DEFINE Kind(t) == PullOne(t) \/ Finish(t) \/ Dispose(t) \/ OnTheWay(t) \/ Quiet(t)
<1> USE Threads
<1>1. ASSUME NEW w \in Worker, WorkerStep(w) PROVE Kind(w)
    <2>1. CASE Process(w)
        BY <2>1, ProcessKinds
    <2>2. CASE Idle(w) \/ Recheck(w)
        BY <2>2, MoveQuiet DEF Idle, Recheck, Places, Handling
    <2>3. CASE GoLive(w) \/ ResetWake(w) \/ Retire(w)
        BY <2>3 DEF GoLive, ResetWake, Retire, Quiet, At, Places, Handling,
                    queue, work, store, marks
    <2>4. QED
        BY <1>1, <2>1, <2>2, <2>3 DEF WorkerStep
<1>2. CASE CallerStep
    <2>1. CASE Process(Caller)
        BY <2>1, ProcessKinds
    <2>2. CASE Spin \/ Look \/ Doze \/ Join
        BY <2>2, MoveQuiet DEF Spin, Look, Doze, Join, Places, Handling
    <2>3. CASE AddItems \/ WakeWorkers
        BY <2>3 DEF AddItems, WakeWorkers, Quiet, At, Places, Handling, queue, work, store, marks
    <2>4. CASE ResetDone \/ Announce \/ Leave
        BY <2>4 DEF ResetDone, Announce, Leave, Quiet, At, Places, Handling,
                    queue, work, store, marks
    <2>5. CASE ItemDone
        BY <2>5 DEF ItemDone, Quiet, At, Take, Places, Handling, Typed, TypeOK,
                    queue, work, store, marks
    <2>6. QED
        BY <1>2, <2>1, <2>2, <2>3, <2>4, <2>5 DEF CallerStep
<1>3. CASE TimeOut
    BY <1>3, MoveQuiet DEF TimeOut, OnTheWay, Places, Handling
<1>4. CASE Call
    <2>1. CASE QueueWait
        BY <2>1, MoveQuiet DEF QueueWait, Places, Handling
    <2>2. CASE Free
        BY <2>2 DEF Free, Quiet, At, Places, Handling, queue, work, store, marks
    <2>3. CASE \E i \in Item : ItemWait(i) \/ Release(i)
        BY <2>3 DEF OnTheWay
    <2>4. QED
        BY <1>4, <2>1, <2>2, <2>3 DEF Call
<1>5. QED
    BY <1>1, <1>2, <1>3, <1>4 DEF Next

-----------------------------------------------------------------------------
(* The invariant holds at first, and every kind of step keeps it.          *)

LEMMA PoolStarts == Init => PoolInv
<1> SUFFICES ASSUME Init PROVE PoolInv
    OBVIOUS
<1>1. \A t \in Thread : pc[t] \in {"ready", "idle", "gone"}
    BY DEF Init
<1>2. HeldApart /\ ListedFresh
    BY DEF Init, HeldApart, ListedFresh, Once, ToSet
<1>3. RunningFresh /\ WorkersHand /\ CallersHand
    BY <1>1 DEF RunningFresh, WorkersHand, CallersHand, At, After, Waiting
<1>4. QED
    BY <1>2, <1>3 DEF PoolInv

LEMMA QuietKeeps ==
    ASSUME Typed, PoolInv, NEW t \in Thread, Quiet(t)
    PROVE  PoolInv'
<1>1. /\ pc'[t] \notin Handling
      /\ \A u \in Thread \ {t} : pc'[u] = pc[u] /\ item'[u] = item[u]
    BY DEF Quiet, Goto, Typed, TypeOK
<1>2. UNCHANGED <<auto, list, free, held, done>>
    BY DEF Quiet
<1>3. \A u \in Thread : pc'[u] \in Handling => u # t
    BY <1>1
<1>4. HeldApart' /\ ListedFresh'
    BY <1>2 DEF PoolInv, HeldApart, ListedFresh
<1>5. RunningFresh'
    BY <1>1, <1>2, <1>3 DEF PoolInv, RunningFresh, At, Handling
<1>6. WorkersHand'
    BY <1>1, <1>2, <1>3 DEF PoolInv, WorkersHand, After, Waiting, Handling
<1>7. CallersHand'
    <2> SUFFICES ASSUME ~auto, NEW u \in Thread \ {t}
                 PROVE  /\ At(u, "marked") => done[item[u]]
                        /\ pc[u] \in Waiting => u = Caller /\ item[u] \notin free
                        /\ pc[u] \in {"check", "block"} /\ event'[item[u]] => done[item[u]]
                        /\ At(u, "dispose") => done[item[u]] \/ item[u] \in held
        BY <1>1, <1>2, <1>3 DEF CallersHand, At, Waiting, Handling
    <2>1. pc[u] \in {"check", "block"} /\ event'[item[u]] => event[item[u]] \/ done[item[u]]
        BY DEF Quiet, Typed, InHand, Handling
    <2>2. QED
        BY <2>1 DEF PoolInv, CallersHand
<1>8. QED
    BY <1>4, <1>5, <1>6, <1>7 DEF PoolInv

LEMMA PullKeeps ==
    ASSUME Typed, PoolInv, NEW t \in Thread, PullOne(t)
    PROVE  PoolInv'
<1> DEFINE i == Head(list)
<1>1. /\ pc'[t] = "run" /\ item'[t] = i /\ list' = Tail(list) /\ list # <<>>
      /\ \A u \in Thread \ {t} : pc'[u] = pc[u] /\ item'[u] = item[u]
    BY DEF PullOne, Pull, Goto, Take, Typed, TypeOK
<1>2. UNCHANGED <<auto, free, held, done, event>>
    BY DEF PullOne, Pull, queue, store, marks
<1>3. /\ Once(list') /\ ToSet(list') = ToSet(list) \ {i}
      /\ i \in ToSet(list) /\ i \in Item
    BY <1>1, OnceTail DEF PoolInv, ListedFresh, Typed, TypeOK
<1>4. ~done[i] /\ i \notin free
    BY <1>3 DEF PoolInv, ListedFresh
<1> HIDE DEF i
<1>5. HeldApart' /\ ListedFresh'
    BY <1>2, <1>3 DEF PoolInv, HeldApart, ListedFresh
<1>6. RunningFresh'
    <2>1. \A u \in Thread \ {t} : At(u, "run") => item[u] # i
        BY <1>3 DEF PoolInv, RunningFresh
    <2>2. QED
        BY <1>1, <1>2, <1>3, <1>4, <2>1 DEF PoolInv, RunningFresh, At
<1>7. WorkersHand'
    BY <1>1, <1>2 DEF PoolInv, WorkersHand, After, Waiting
<1>8. CallersHand'
    BY <1>1, <1>2 DEF PoolInv, CallersHand, After, Waiting, At
<1>9. QED
    BY <1>5, <1>6, <1>7, <1>8 DEF PoolInv

LEMMA FinishKeeps ==
    ASSUME Typed, PoolInv, NEW t \in Thread, Finish(t)
    PROVE  PoolInv'
<1> DEFINE i == item[t]
<1>1. /\ At(t, "run") /\ pc'[t] = "marked"
      /\ \A u \in Thread \ {t} : pc'[u] = pc[u]
    BY DEF Finish, Goto, Typed, TypeOK
<1>2. UNCHANGED <<auto, list, free, held, event, item>>
    BY DEF Finish, queue, store
<1>3. i \in Item
    BY <1>1 DEF Typed, InHand, Handling, At
<1>4. done'[i] /\ \A j \in Item : j # i => done'[j] = done[j]
    BY <1>3 DEF Finish, Typed, TypeOK
<1>5. /\ ~done[i] /\ i \notin free /\ i \notin ToSet(list)
      /\ \A u \in Thread : At(u, "run") /\ item[u] = i => u = t
    BY <1>1 DEF PoolInv, RunningFresh
<1>6. \A u \in Thread : pc[u] \in Handling /\ done[item[u]] => done'[item[u]]
    BY <1>4 DEF Typed, InHand
<1>7. HeldApart'
    BY <1>2 DEF PoolInv, HeldApart
<1>8. ListedFresh'
    <2>1. \A j \in ToSet(list) : j \in Item
        BY ItemsOf DEF Typed, TypeOK
    <2>2. QED
        BY <1>2, <1>4, <1>5, <2>1 DEF PoolInv, ListedFresh
<1>9. RunningFresh'
    <2> SUFFICES ASSUME NEW u \in Thread \ {t}, At(u, "run")
                 PROVE  /\ ~done'[item[u]] /\ item[u] \notin free /\ item[u] \notin ToSet(list)
                        /\ \A v \in Thread : At(v, "run") /\ item[v] = item[u] => v = u
        BY <1>1, <1>2 DEF RunningFresh, At
    <2>1. item[u] # i /\ item[u] \in Item
        BY <1>5 DEF Typed, InHand, Handling, At
    <2>2. QED
        BY <1>4, <2>1 DEF PoolInv, RunningFresh
<1>10. WorkersHand'
    <2> SUFFICES ASSUME auto, NEW u \in Thread, pc'[u] \in After
                 PROVE  /\ done'[item[u]] /\ item[u] \notin free
                        /\ \A v \in Thread : pc'[v] \in After /\ item[v] = item[u] => v = u
        BY <1>2 DEF WorkersHand
    <2>1. \A v \in Thread \ {t} : pc'[v] \in After => done[item[v]] /\ pc[v] \in Handling
        BY <1>1 DEF PoolInv, WorkersHand, After, Waiting, Handling
    <2>2. CASE u = t
        BY <1>4, <1>5, <2>1, <2>2
    <2>3. CASE u # t
        BY <1>1, <1>5, <1>6, <2>1, <2>3 DEF PoolInv, WorkersHand
    <2>4. QED
        BY <2>2, <2>3
<1>11. CallersHand'
    <2> SUFFICES ASSUME ~auto, NEW u \in Thread
                 PROVE  /\ At(u, "marked")' => done'[item[u]]
                        /\ pc'[u] \in Waiting => u = Caller /\ item[u] \notin free
                        /\ pc'[u] \in {"check", "block"} /\ event[item[u]] => done'[item[u]]
                        /\ At(u, "dispose")' => done'[item[u]] \/ item[u] \in held
        BY <1>2 DEF CallersHand, At
    <2>1. CASE u = t
        BY <1>1, <1>4, <2>1 DEF At, Waiting
    <2>2. CASE u # t
        BY <1>1, <1>6, <2>2 DEF PoolInv, CallersHand, At, Handling, Waiting
    <2>3. QED
        BY <2>1, <2>2
<1>12. QED
    BY <1>7, <1>8, <1>9, <1>10, <1>11 DEF PoolInv

LEMMA DisposeKeeps ==
    ASSUME Typed, PoolInv, NEW t \in Thread, Dispose(t)
    PROVE  PoolInv' /\ done[item[t]]
<1> DEFINE i == item[t]
<1>1. /\ At(t, "dispose") /\ pc'[t] \in {"pull", "ready"}
      /\ \A u \in Thread \ {t} : pc'[u] = pc[u] /\ item'[u] = item[u]
    BY DEF Dispose, Goto, Take, Typed, TypeOK
<1>2. UNCHANGED <<auto, list, held, done, event>> /\ free' = free \cup {i} /\ i \notin held
    BY DEF Dispose, queue, work, marks
<1>3. done[i]
    BY <1>1, <1>2 DEF PoolInv, WorkersHand, CallersHand, After, Waiting, At
<1>4. HeldApart' /\ ListedFresh'
    BY <1>2, <1>3 DEF PoolInv, HeldApart, ListedFresh
<1>5. RunningFresh'
    BY <1>1, <1>2, <1>3 DEF PoolInv, RunningFresh, At
<1>6. WorkersHand'
    <2>1. auto => \A u \in Thread \ {t} : pc[u] \in After => item[u] # i
        BY <1>1 DEF PoolInv, WorkersHand, After, Waiting, At
    <2>2. QED
        BY <1>1, <1>2, <2>1 DEF PoolInv, WorkersHand, After, Waiting
<1>7. CallersHand'
    <2>1. ~auto => \A u \in Thread \ {t} : pc[u] \notin Waiting
        BY <1>1 DEF PoolInv, CallersHand, Waiting, At
    <2>2. QED
        BY <1>1, <1>2, <2>1 DEF PoolInv, CallersHand, Waiting, At
<1>8. QED
    BY <1>3, <1>4, <1>5, <1>6, <1>7 DEF PoolInv

\* A thread's way to an item's release: the caller takes the item in hand,
\* a worker keeps the one it has.
LEMMA MoveFacts ==
    ASSUME Typed, NEW t \in Thread, NEW from, NEW to, Move(t, from, to)
    PROVE  /\ pc[t] = from /\ pc'[t] = to /\ \A u \in Thread \ {t} : pc'[u] = pc[u]
           /\ item' = item /\ UNCHANGED <<auto, list, free, held, done, event>>
BY DEF Move, At, Goto, Typed, TypeOK, queue, work, store, marks

WayOfAny(t) ==
    /\ ~At(t, "run") /\ pc'[t] \in Waiting
    /\ \A u \in Thread \ {t} : pc'[u] = pc[u] /\ item'[u] = item[u]
    /\ UNCHANGED <<auto, list, free, done>> /\ held' \subseteq held

WayOfWorker(t) == auto => pc[t] \in After /\ item'[t] = item[t]

WayOfCaller(t) ==
    ~auto => /\ t = Caller /\ item'[t] \notin free
             /\ pc'[t] \in {"check", "block"} /\ event'[item'[t]] => done[item'[t]]
             /\ pc'[t] = "dispose" => done[item'[t]] \/ item'[t] \in held'

\* A wait for the item in hand may end.
Over(t) ==
    \/ done[item[t]]
    \/ At(t, "block") /\ event[item[t]]
    \/ item[t] \in held

LEMMA WayMoves ==
    ASSUME Typed, PoolInv, NEW t \in Thread, NEW from \in Waiting, NEW to \in Waiting,
           Move(t, from, to), to # "dispose",
           to \in {"check", "block"} => from \in {"check", "block"}
    PROVE  WayOfAny(t) /\ WayOfWorker(t) /\ WayOfCaller(t)
<1>1. WayOfAny(t)
    BY MoveFacts DEF WayOfAny, At, Waiting
<1>2. WayOfWorker(t)
    BY MoveFacts DEF WayOfWorker, After
<1>3. WayOfCaller(t)
    BY MoveFacts DEF WayOfCaller, PoolInv, CallersHand
<1>4. QED
    BY <1>1, <1>2, <1>3

LEMMA WayEnds ==
    ASSUME Typed, PoolInv, NEW t \in Thread, NEW from \in Waiting,
           Move(t, from, "dispose"), Over(t)
    PROVE  WayOfAny(t) /\ WayOfWorker(t) /\ WayOfCaller(t)
<1>1. WayOfAny(t)
    BY MoveFacts DEF WayOfAny, At, Waiting
<1>2. WayOfWorker(t)
    BY MoveFacts DEF WayOfWorker, After
<1>3. WayOfCaller(t)
    BY MoveFacts DEF WayOfCaller, PoolInv, CallersHand, Over, At
<1>4. QED
    BY <1>1, <1>2, <1>3

LEMMA WayFacts ==
    ASSUME Typed, PoolInv, NEW t \in Thread, OnTheWay(t)
    PROVE  WayOfAny(t) /\ WayOfWorker(t) /\ WayOfCaller(t)
<1>1. CASE Await(t)
    <2>1. CASE done[item[t]]
        <3>1. Move(t, "await", "dispose") /\ Over(t)
            BY <1>1, <2>1, Zenon DEF Await, Over
        <3>2. QED
            BY <3>1, WayEnds DEF Waiting
    <2>2. CASE ~done[item[t]]
        <3>1. Move(t, "await", "arm")
            BY <1>1, <2>2, Zenon DEF Await
        <3>2. QED
            BY <3>1, WayMoves DEF Waiting
    <2>3. QED
        BY <2>1, <2>2
<1>2. CASE Arm(t)
    <2>1. /\ pc[t] = "arm" /\ pc'[t] = "check" /\ item[t] \in Item
          /\ \A u \in Thread \ {t} : pc'[u] = pc[u]
        BY <1>2 DEF Arm, At, Goto, Typed, TypeOK, InHand, Handling
    <2>2. item' = item /\ UNCHANGED <<auto, list, free, held, done>>
        BY <1>2 DEF Arm, queue, work, store
    <2>3. ~event'[item[t]]
        BY <1>2, <2>1 DEF Arm, Typed, TypeOK
    <2>4. WayOfAny(t)
        BY <2>1, <2>2 DEF WayOfAny, At, Waiting
    <2>5. WayOfWorker(t)
        BY <2>1, <2>2 DEF WayOfWorker, After, Waiting
    <2>6. WayOfCaller(t)
        BY <2>1, <2>2, <2>3 DEF WayOfCaller, PoolInv, CallersHand, Waiting
    <2>7. QED
        BY <2>4, <2>5, <2>6
<1>3. CASE Check(t)
    <2>1. CASE done[item[t]]
        <3>1. Move(t, "check", "dispose") /\ Over(t)
            BY <1>3, <2>1, Zenon DEF Check, Over
        <3>2. QED
            BY <3>1, WayEnds DEF Waiting
    <2>2. CASE ~done[item[t]]
        <3>1. Move(t, "check", "block")
            BY <1>3, <2>2, Zenon DEF Check
        <3>2. QED
            BY <3>1, WayMoves DEF Waiting
    <2>3. QED
        BY <2>1, <2>2
<1>4. CASE Unblock(t)
    BY <1>4, WayEnds DEF Unblock, Move, Over, Waiting
<1>5. CASE auto /\ SignalItem(t)
    <2>1. /\ pc[t] = "marked" /\ pc'[t] = "await" /\ item' = item
          /\ \A u \in Thread \ {t} : pc'[u] = pc[u]
        BY <1>5 DEF SignalItem, At, Goto, Typed, TypeOK
    <2>2. UNCHANGED <<auto, list, free, held, done>>
        BY <1>5 DEF SignalItem, queue, work, store
    <2>3. WayOfAny(t)
        BY <2>1, <2>2 DEF WayOfAny, At, Waiting
    <2>4. QED
        BY <1>5, <2>1, <2>3 DEF WayOfWorker, WayOfCaller, After
<1>6. CASE t = Caller /\ \E i \in Item : ItemWait(i) \/ Release(i)
    <2> PICK i \in Item : ItemWait(i) \/ Release(i)
        BY <1>6
    <2>1. /\ i \in held /\ pc[t] = "ready" /\ pc'[t] = "await" /\ item'[t] = i
          /\ \A u \in Thread \ {t} : pc'[u] = pc[u] /\ item'[u] = item[u]
        BY <1>6 DEF ItemWait, Release, Take, At, Goto, Typed, TypeOK
    <2>2. UNCHANGED <<auto, list, free, done>> /\ held' \subseteq held
        BY DEF ItemWait, Release, queue, work, store, marks
    <2>3. ~auto /\ i \notin free
        BY <2>1 DEF PoolInv, HeldApart
    <2>4. WayOfAny(t)
        BY <2>1, <2>2 DEF WayOfAny, At, Waiting
    <2>5. QED
        BY <1>6, <2>1, <2>3, <2>4 DEF WayOfWorker, WayOfCaller
<1>7. CASE t = Caller /\ item[t] \in held /\ Move(t, "block", "dispose")
    BY <1>7, WayEnds DEF Over, Waiting
<1>8. QED
    BY <1>1, <1>2, <1>3, <1>4, <1>5, <1>6, <1>7 DEF OnTheWay

LEMMA WayKeeps ==
    ASSUME Typed, PoolInv, NEW t \in Thread, OnTheWay(t)
    PROVE  PoolInv'
<1>1. /\ ~At(t, "run") /\ pc'[t] \in Waiting
      /\ \A u \in Thread \ {t} : pc'[u] = pc[u] /\ item'[u] = item[u]
      /\ UNCHANGED <<auto, list, free, done>> /\ held' \subseteq held
    BY WayFacts DEF WayOfAny
<1>2. auto => pc[t] \in After /\ item'[t] = item[t]
    BY WayFacts DEF WayOfWorker
<1>3. HeldApart' /\ ListedFresh'
    BY <1>1 DEF PoolInv, HeldApart, ListedFresh
<1>4. RunningFresh'
    BY <1>1 DEF PoolInv, RunningFresh, At, Waiting
<1>5. WorkersHand'
    BY <1>1, <1>2 DEF PoolInv, WorkersHand, After
<1>6. CallersHand'
    <2> SUFFICES ASSUME ~auto, NEW u \in Thread
                 PROVE  /\ At(u, "marked")' => done[item'[u]]
                        /\ pc'[u] \in Waiting => u = Caller /\ item'[u] \notin free
                        /\ pc'[u] \in {"check", "block"} /\ event'[item'[u]] => done[item'[u]]
                        /\ At(u, "dispose")' => done[item'[u]] \/ item'[u] \in held'
        BY <1>1 DEF CallersHand
    <2>1. CASE u = t
        BY <1>1, <2>1, WayFacts DEF WayOfCaller, At, Waiting
    <2>2. CASE u # t
        <3>1. t = Caller /\ pc[u] \notin Waiting
            BY <2>2, WayFacts DEF WayOfCaller, PoolInv, CallersHand
        <3>2. QED
            BY <1>1, <2>2, <3>1 DEF PoolInv, CallersHand, At, Waiting
    <2>3. QED
        BY <2>1, <2>2
<1>7. QED
    BY <1>3, <1>4, <1>5, <1>6 DEF PoolInv

LEMMA EnqueueKeeps ==
    ASSUME Typed, PoolInv, ~LateReuse, NEW s \in Batches, Enqueue(s)
    PROVE  PoolInv' /\ ToSet(list') = ToSet(list) \cup ToSet(s)
<1>1. /\ pc'[Caller] = "count" /\ \A u \in Thread \ {Caller} : pc'[u] = pc[u]
      /\ UNCHANGED <<auto, event, item>>
      /\ free' = free \ ToSet(s) /\ held' = IF auto THEN held ELSE held \cup ToSet(s)
    BY Threads DEF Enqueue, Goto, Typed, TypeOK, queue
<1>2. /\ list' = list \o s /\ ToSet(s) \subseteq free
      /\ \A t \in Thread : item[t] \notin ToSet(s)
      /\ done' = [i \in Item |-> done[i] /\ i \notin ToSet(s)]
    BY DEF Enqueue
<1>3. Once(list') /\ ToSet(list') = ToSet(list) \cup ToSet(s)
    <2>1. list \in Seq(Item) /\ s \in Seq(Item) /\ Once(list)
        BY BatchType DEF Typed, TypeOK, PoolInv, ListedFresh
    <2>2. Once(s)
        <3>1. DOMAIN s = 1 .. Len(s)
            BY <2>1
        <3>2. QED
            BY <3>1, BatchType DEF IsInjective, Once
    <2>3. ToSet(list) \cap ToSet(s) = {}
        BY <1>2 DEF PoolInv, ListedFresh
    <2>4. QED
        BY <1>2, <2>1, <2>2, <2>3, OnceConcat
<1>4. HeldApart'
    BY <1>1 DEF PoolInv, HeldApart
<1>5. ListedFresh'
    <2>1. \A i \in ToSet(list) \cup ToSet(s) : i \in Item
        BY <1>2, ItemsOf DEF Typed, TypeOK
    <2>2. QED
        BY <1>1, <1>2, <1>3, <2>1 DEF PoolInv, ListedFresh
<1>6. \A u \in Thread : pc'[u] \in Handling =>
        pc'[u] = pc[u] /\ (done'[item[u]] <=> done[item[u]]) /\ item[u] \notin ToSet(s)
    BY <1>1, <1>2 DEF Typed, InHand, Handling
<1>7. RunningFresh'
    BY <1>1, <1>3, <1>6 DEF PoolInv, RunningFresh, Handling, At
<1>8. WorkersHand'
    BY <1>1, <1>6 DEF PoolInv, WorkersHand, Handling, After, Waiting
<1>9. CallersHand'
    BY <1>1, <1>6 DEF PoolInv, CallersHand, Handling, Waiting, At
<1>10. QED
    BY <1>3, <1>4, <1>5, <1>7, <1>8, <1>9 DEF PoolInv

LEMMA PoolStep ==
    ASSUME ~LateReuse PROVE Typed /\ PoolInv /\ [Next]_vars => PoolInv'
<1>1. ASSUME Typed, PoolInv, Next PROVE PoolInv'
    BY <1>1, Kinds, QuietKeeps, PullKeeps, FinishKeeps, DisposeKeeps, WayKeeps, EnqueueKeeps
<1>2. ASSUME PoolInv, UNCHANGED vars PROVE PoolInv'
    BY <1>2 DEF vars, PoolInv, HeldApart, ListedFresh, RunningFresh, WorkersHand,
                CallersHand, At, queue, work, store, marks
<1>3. QED
    BY <1>1, <1>2

-----------------------------------------------------------------------------
(* How each kind of step moves the items.                                  *)

\* These items go from one stage to another, the others stay where they are.
Moves(S, from, to) ==
    /\ \A i \in S : StageOf(i) = from
    /\ \A i \in Item : StageOf(i)' = IF i \in S THEN to ELSE StageOf(i)

LEMMA EnqueueMoves ==
    ASSUME Typed, PoolInv, ~LateReuse, NEW s \in Batches, Enqueue(s)
    PROVE  Moves(ToSet(s), "free", "queued")
<1>1. /\ At(Caller, "ready") /\ At(Caller, "count")' /\ item' = item
      /\ \A u \in Thread \ {Caller} : pc'[u] = pc[u]
    BY Threads DEF Enqueue, At, Goto, Typed, TypeOK
<1>2. ToSet(s) \subseteq free /\ free' = free \ ToSet(s)
    BY DEF Enqueue
<1>3. ToSet(list') = ToSet(list) \cup ToSet(s)
    BY EnqueueKeeps
<1>4. \A i \in Item : Running(i)' <=> Running(i)
    BY <1>1 DEF Running, At
<1>5. \A i \in ToSet(s) : StageOf(i) = "free"
    BY <1>2 DEF StageOf, PoolInv, ListedFresh, RunningFresh, Running
<1>6. ASSUME NEW i \in Item
      PROVE  StageOf(i)' = IF i \in ToSet(s) THEN "queued" ELSE StageOf(i)
    <2>1. i \in ToSet(list') <=> i \in ToSet(list) \/ i \in ToSet(s)
        BY <1>3
    <2>2. i \in free' <=> i \in free /\ i \notin ToSet(s)
        BY <1>2
    <2>3. QED
        BY <1>4, <2>1, <2>2 DEF StageOf
<1>7. QED
    BY <1>5, <1>6 DEF Moves

LEMMA PullMoves ==
    ASSUME Typed, PoolInv, NEW t \in Thread, PullOne(t)
    PROVE  \E i \in Item : Moves({i}, "queued", "running")
<1> PICK i \in Item : i = Head(list)
    BY OnceTail DEF PullOne, PoolInv, ListedFresh, Typed, TypeOK
<1>1. /\ At(t, "pull") /\ At(t, "run")' /\ item'[t] = i /\ free' = free
      /\ list' = Tail(list) /\ list # <<>>
      /\ \A u \in Thread \ {t} : pc'[u] = pc[u] /\ item'[u] = item[u]
    BY DEF PullOne, Pull, At, Goto, Take, Typed, TypeOK, store
<1>2. ToSet(list') = ToSet(list) \ {i} /\ i \in ToSet(list)
    BY <1>1, OnceTail DEF PoolInv, ListedFresh, Typed, TypeOK
<1>3. Running(i)' /\ \A j \in Item \ {i} : Running(j)' <=> Running(j)
    BY <1>1 DEF Running, At
<1>4. StageOf(i) = "queued" /\ StageOf(i)' = "running"
    BY <1>2, <1>3 DEF StageOf
<1>5. ASSUME NEW j \in Item \ {i} PROVE StageOf(j)' = StageOf(j)
    <2>1. j \in ToSet(list') <=> j \in ToSet(list)
        BY <1>2
    <2>2. QED
        BY <1>1, <1>3, <2>1 DEF StageOf
<1>6. QED
    BY <1>2, <1>4, <1>5 DEF Moves

LEMMA FinishMoves ==
    ASSUME Typed, PoolInv, NEW t \in Thread, Finish(t)
    PROVE  \E i \in Item : Moves({i}, "running", "done")
<1> PICK i \in Item : i = item[t]
    BY DEF Finish, At, Typed, InHand, Handling
<1>1. /\ At(t, "run") /\ At(t, "marked")' /\ item' = item
      /\ free' = free /\ list' = list
      /\ \A u \in Thread \ {t} : pc'[u] = pc[u]
    BY DEF Finish, At, Goto, Typed, TypeOK, store
<1>2. /\ i \notin free /\ i \notin ToSet(list)
      /\ \A u \in Thread : At(u, "run") /\ item[u] = i => u = t
    BY <1>1 DEF PoolInv, RunningFresh
<1>3. Running(i) /\ ~Running(i)' /\ \A j \in Item \ {i} : Running(j)' <=> Running(j)
    BY <1>1, <1>2 DEF Running, At
<1>4. StageOf(i) = "running" /\ StageOf(i)' = "done"
    BY <1>1, <1>2, <1>3 DEF StageOf
<1>5. ASSUME NEW j \in Item \ {i} PROVE StageOf(j)' = StageOf(j)
    BY <1>1, <1>3 DEF StageOf
<1>6. QED
    BY <1>2, <1>4, <1>5 DEF Moves

LEMMA DisposeMoves ==
    ASSUME Typed, PoolInv, NEW t \in Thread, Dispose(t)
    PROVE  \E i \in Item : Moves({i}, "done", "free")
<1> PICK i \in Item : i = item[t]
    BY DEF Dispose, At, Typed, InHand, Handling
<1>1. /\ At(t, "dispose") /\ pc'[t] \in {"pull", "ready"} /\ list' = list
      /\ free' = free \cup {i}
      /\ \A u \in Thread \ {t} : pc'[u] = pc[u] /\ item'[u] = item[u]
    BY DEF Dispose, At, Goto, Take, Typed, TypeOK, work
<1>2. done[i]
    BY DisposeKeeps
<1>3. i \notin ToSet(list) /\ ~Running(i) /\ i \notin free
    BY <1>1, <1>2 DEF PoolInv, ListedFresh, RunningFresh, Running, WorkersHand, CallersHand,
                      After, Waiting, At
<1>4. \A j \in Item : Running(j)' <=> Running(j)
    BY <1>1 DEF Running, At
<1>5. StageOf(i) = "done" /\ StageOf(i)' = "free"
    BY <1>1, <1>2, <1>3, <1>4 DEF StageOf
<1>6. ASSUME NEW j \in Item \ {i} PROVE StageOf(j)' = StageOf(j)
    BY <1>1, <1>4 DEF StageOf
<1>7. QED
    BY <1>2, <1>5, <1>6 DEF Moves

\* The other steps move no item.
LEMMA OthersStay ==
    ASSUME Typed, PoolInv, NEW t \in Thread, OnTheWay(t) \/ Quiet(t)
    PROVE  \A i \in Item : StageOf(i)' = StageOf(i)
<1>1. /\ ~At(t, "run") /\ ~At(t, "run")' /\ list' = list /\ free' = free
      /\ \A u \in Thread \ {t} : pc'[u] = pc[u] /\ item'[u] = item[u]
    <2>1. CASE OnTheWay(t)
        BY <2>1, WayFacts DEF WayOfAny, At, Waiting
    <2>2. CASE Quiet(t)
        BY <2>2 DEF Quiet, At, Goto, Handling, Typed, TypeOK
    <2>3. QED
        BY <2>1, <2>2
<1>2. \A i \in Item : Running(i)' <=> Running(i)
    BY <1>1 DEF Running, At
<1>3. QED
    BY <1>1, <1>2 DEF StageOf

-----------------------------------------------------------------------------
(* The refinement.                                                         *)

LEMMA MovesInPool ==
    ASSUME NEW S \in SUBSET Item, NEW from, NEW to, Moves(S, from, to)
    PROVE  Pool!Move(S, from, to)
BY DEF Moves, Stage, Pool!Move

LEMMA PoolNextStep ==
    ASSUME Typed, PoolInv, ~LateReuse, Next
    PROVE  Pool!PoolNext \/ \A i \in Item : StageOf(i)' = StageOf(i)
<1>1. ASSUME NEW s \in Batches, Enqueue(s) PROVE Pool!PoolNext
    <2>1. ToSet(s) \in SUBSET Item
        BY <1>1 DEF Enqueue, Typed, TypeOK
    <2>2. Pool!Queue(ToSet(s))
        BY <1>1, <2>1, EnqueueMoves, MovesInPool DEF Pool!Queue
    <2>3. QED
        BY <2>1, <2>2 DEF Pool!PoolNext
<1>2. ASSUME NEW t \in Thread, PullOne(t) PROVE Pool!PoolNext
    BY <1>2, PullMoves, MovesInPool DEF Pool!Start, Pool!PoolNext
<1>3. ASSUME NEW t \in Thread, Finish(t) PROVE Pool!PoolNext
    BY <1>3, FinishMoves, MovesInPool DEF Pool!Finish, Pool!PoolNext
<1>4. ASSUME NEW t \in Thread, Dispose(t) PROVE Pool!PoolNext
    BY <1>4, DisposeMoves, MovesInPool DEF Pool!Release, Pool!PoolNext
<1>5. QED
    BY <1>1, <1>2, <1>3, <1>4, Kinds, OthersStay

LEMMA AlwaysPoolInv ==
    ASSUME ~LateReuse PROVE Spec => []PoolInv
<1>1. Typed /\ PoolInv /\ [Next]_vars => PoolInv'
    BY PoolStep
<1>2. QED
    BY <1>1, PoolStarts, AlwaysTyped, PTL DEF Spec

\* The queue with its threads keeps the promise of osdcore.h: whatever the
\* threads interleave, a queued item is taken off the list once, runs in one
\* thread, and is free only after its callback has returned.
THEOREM ItemsRunOnce ==
    ASSUME ~LateReuse PROVE Spec => PoolSpec
<1>1. Init => Pool!PoolInit
    <2>1. Init => \A i \in Item : ~Running(i)
        BY DEF Init, Running, At
    <2>2. Init => ToSet(list) = {} /\ free = Item
        BY DEF Init, ToSet
    <2>3. QED
        BY <2>1, <2>2 DEF Stage, StageOf, Pool!PoolInit
<1>2. Typed /\ PoolInv /\ [Next]_vars => [Pool!PoolNext]_Stage
    <2>1. ASSUME Typed, PoolInv, Next PROVE Pool!PoolNext \/ UNCHANGED Stage
        BY <2>1, PoolNextStep DEF Stage
    <2>2. ASSUME UNCHANGED vars PROVE UNCHANGED Stage
        BY <2>2 DEF vars, work, store, Stage, StageOf, Running, At
    <2>3. QED
        BY <2>1, <2>2
<1>3. QED
    BY <1>1, <1>2, AlwaysTyped, AlwaysPoolInv, PTL DEF Spec, PoolSpec, Pool!PoolSpec

-----------------------------------------------------------------------------
(* Signals.  The crew: live counts the workers that are up, and while the   *)
(* queue lives none of them has gone.                                       *)

Lively == Serving \cup {"drained", "tell", "recheck", "rest", "retire"}
LiveOnes(p) == {w \in Worker : p[w] \in Lively}

CrewInv ==
    /\ live = Cardinality(LiveOnes(pc))
    /\ \A w \in Worker : (w > threads => At(w, "gone")) /\ (~exiting /\ w <= threads => ~At(w, "gone"))
    /\ pc[Caller] \in {"count", "wake"} => batch >= 1
    /\ At(Caller, "join") => exiting
    /\ \A w \in Worker : pc[w] \in Lively \cup {"idle", "asleep", "gone"}

\* A worker's step changes the number of live workers by its own.
LEMMA LiveChanges ==
    ASSUME Typed, NEW w \in Worker, NEW to \in Places, Goto(w, to)
    PROVE  Cardinality(LiveOnes(pc')) = Cardinality(LiveOnes(pc))
               + (IF to \in Lively THEN 1 ELSE 0) - (IF pc[w] \in Lively THEN 1 ELSE 0)
<1>1. \A v \in Worker : pc'[v] = IF v = w THEN to ELSE pc[v]
    BY Threads DEF Goto, Typed, TypeOK
<1>2. w \in LiveOnes(pc) <=> pc[w] \in Lively
    BY DEF LiveOnes
<1>3. IsFiniteSet(LiveOnes(pc)) /\ Cardinality(LiveOnes(pc)) \in Nat
    <2>1. IsFiniteSet(Worker)
        BY ThreadAssumption, FS_Interval DEF Worker
    <2>2. QED
        BY <2>1, FS_Subset, FS_CardinalityType DEF LiveOnes
<1>4. CASE to \in Lively
    <2>1. LiveOnes(pc') = LiveOnes(pc) \cup {w}
        BY <1>1, <1>4 DEF LiveOnes
    <2>2. Cardinality(LiveOnes(pc) \cup {w}) =
              IF w \in LiveOnes(pc) THEN Cardinality(LiveOnes(pc)) ELSE Cardinality(LiveOnes(pc)) + 1
        BY <1>3, FS_AddElement
    <2>3. QED
        BY <1>2, <1>3, <1>4, <2>1, <2>2
<1>5. CASE to \notin Lively
    <2>1. LiveOnes(pc') = LiveOnes(pc) \ {w}
        BY <1>1, <1>5 DEF LiveOnes
    <2>2. Cardinality(LiveOnes(pc) \ {w}) =
              IF w \in LiveOnes(pc) THEN Cardinality(LiveOnes(pc)) - 1 ELSE Cardinality(LiveOnes(pc))
        BY <1>3, FS_RemoveElement
    <2>3. QED
        BY <1>2, <1>3, <1>5, <2>1, <2>2
<1>6. QED
    BY <1>4, <1>5

\* A step that notes the change in live keeps the count right.
LEMMA LiveNoted ==
    ASSUME Typed, live = Cardinality(LiveOnes(pc)), NEW w \in Worker, NEW to \in Places, Goto(w, to),
           live' = live + (IF to \in Lively THEN 1 ELSE 0) - (IF pc[w] \in Lively THEN 1 ELSE 0)
    PROVE  live' = Cardinality(LiveOnes(pc')) /\ pc'[w] = to
<1>1. pc'[w] = to
    BY Threads DEF Goto, Typed, TypeOK
<1>2. QED
    BY <1>1, LiveChanges

\* What a worker's step leaves alone.
LEMMA WorkerAlone ==
    ASSUME Typed, NEW w \in Worker, WorkerStep(w)
    PROVE  /\ \A t \in Thread \ {w} : pc'[t] = pc[t] /\ item'[t] = item[t]
           /\ \A v \in Worker \ {w} : wake'[v] = wake[v]
           /\ UNCHANGED <<threads, exiting, auto, waiting, held, batch>>
<1> USE Threads DEF Typed, TypeOK
<1>1. CASE Pull(w) \/ Finish(w)
    BY <1>1 DEF Pull, Finish, Goto, Take, queue, store, signals, crew
<1>2. CASE SignalItem(w) \/ Tell(w)
    BY <1>2 DEF SignalItem, Tell, Goto, Take, queue, work, store, signals, crew
<1>3. CASE Drained(w) \/ Await(w) \/ Check(w) \/ Unblock(w) \/ Idle(w) \/ Recheck(w)
    BY <1>3, MoveFacts DEF Drained, Await, Check, Unblock, Idle, Recheck, Move, queue, crew, signals, store
<1>4. CASE Arm(w) \/ Dispose(w)
    BY <1>4 DEF Arm, Dispose, Goto, Take, queue, work, store, signals, crew
<1>5. CASE GoLive(w) \/ ResetWake(w) \/ Retire(w)
    BY <1>5 DEF GoLive, ResetWake, Retire, Goto, queue, work, store, marks, signals
<1>6. QED
    BY <1>1, <1>2, <1>3, <1>4, <1>5 DEF WorkerStep, Process

\* Within worker_thread_process a worker stays live.
LEMMA ProcessGoes ==
    ASSUME Typed, NEW w \in Worker, Process(w)
    PROVE  /\ pc[w] \in Serving \cup {"drained", "tell"}
           /\ pc'[w] \in Lively /\ Goto(w, pc'[w]) /\ live' = live /\ wake' = wake
<1>0. w # Caller /\ w \in Thread
    BY ThreadAssumption, Threads DEF Worker, Caller
<1> USE <1>0 DEF Typed, TypeOK, Serving, Lively
<1>1. CASE Pull(w) \/ Finish(w) \/ SignalItem(w)
    BY <1>1 DEF Pull, Finish, SignalItem, Goto, At, crew
<1>2. CASE Drained(w) \/ Tell(w)
    BY <1>2 DEF Drained, Tell, Move, AfterDrain, Goto, At, crew
<1>3. CASE Await(w) \/ Arm(w) \/ Check(w) \/ Unblock(w) \/ Dispose(w)
    BY <1>3 DEF Await, Arm, Check, Unblock, Dispose, Move, Goto, At, crew
<1>4. QED
    BY <1>1, <1>2, <1>3 DEF Process

CallersStep == Call \/ CallerStep \/ TimeOut

\* What the caller's steps leave alone.
LEMMA CallerAlone ==
    ASSUME Typed, CallersStep
    PROVE  /\ \A w \in Worker : pc'[w] = pc[w] /\ item'[w] = item[w] /\ (wake[w] => wake'[w])
           /\ UNCHANGED <<threads, auto, live>>
           /\ exiting' = exiting \/ (Free /\ exiting')
<1>0. \A w \in Worker : w # Caller /\ w \in Thread
    BY ThreadAssumption, Threads DEF Worker, Caller
<1> USE <1>0, Threads DEF Typed, TypeOK
<1>1. CASE Call
    <2>1. CASE \E s \in Batches : Enqueue(s)
        BY <2>1 DEF Enqueue, Goto, queue, crew
    <2>2. CASE QueueWait
        BY <2>2 DEF QueueWait, Move, Goto, queue, crew
    <2>3. CASE \E i \in Item : ItemWait(i) \/ Release(i)
        BY <2>3 DEF ItemWait, Release, Goto, Take, queue, crew
    <2>4. CASE Free
        BY <2>4 DEF Free, Goto
    <2>5. QED
        BY <1>1, <2>1, <2>2, <2>3, <2>4 DEF Call
<1>2. CASE Process(Caller)
    <2>1. CASE Pull(Caller) \/ Finish(Caller) \/ SignalItem(Caller) \/ Tell(Caller)
        BY <2>1 DEF Pull, Finish, SignalItem, Tell, Goto, Take, queue, crew
    <2>2. CASE Drained(Caller) \/ Await(Caller) \/ Check(Caller) \/ Unblock(Caller)
        BY <2>2 DEF Drained, Await, Check, Unblock, Move, Goto, queue, crew
    <2>3. CASE Arm(Caller) \/ Dispose(Caller)
        BY <2>3 DEF Arm, Dispose, Goto, Take, queue, crew
    <2>4. QED
        BY <1>2, <2>1, <2>2, <2>3 DEF Process
<1>3. CASE AddItems \/ WakeWorkers \/ ItemDone
    BY <1>3 DEF AddItems, WakeWorkers, ItemDone, Goto, Take, queue, crew
<1>4. CASE Spin \/ Look \/ Doze \/ Join \/ TimeOut
    BY <1>4 DEF Spin, Look, Doze, Join, TimeOut, Move, Goto, queue, crew
<1>5. CASE ResetDone \/ Announce \/ Leave
    BY <1>5 DEF ResetDone, Announce, Leave, Goto, queue, crew
<1>6. QED
    BY <1>1, <1>2, <1>3, <1>4, <1>5 DEF CallersStep, CallerStep

\* Where the caller comes from, at the places that matter here.
LEMMA CallerComes ==
    ASSUME Typed, CallersStep
    PROVE  /\ At(Caller, "count")' => batch' >= 1
           /\ At(Caller, "wake")' => At(Caller, "count") /\ batch' = batch
           /\ At(Caller, "join")' => Free
           /\ Free => At(Caller, "join")' /\ exiting' /\ \A w \in Worker : w <= threads => wake'[w]
<1> USE Threads DEF Typed, TypeOK, At
<1>1. CASE Call
    <2>1. ASSUME NEW s \in Batches, Enqueue(s) PROVE batch' >= 1 /\ At(Caller, "count")'
        <3>1. Len(s) # 0
            BY <2>1, BatchType DEF Batches
        <3>2. QED
            BY <2>1, <3>1, BatchType DEF Enqueue, Goto
    <2>2. CASE QueueWait
        BY <2>2 DEF QueueWait, Move, Goto, Free
    <2>3. CASE \E i \in Item : ItemWait(i) \/ Release(i)
        BY <2>3 DEF ItemWait, Release, Goto, Free
    <2>4. CASE Free
        BY <2>4 DEF Free, Goto
    <2>5. \A s \in Batches : Enqueue(s) => ~Free
        <3> SUFFICES ASSUME NEW s \in Batches, Enqueue(s), Free PROVE FALSE
            OBVIOUS
        <3>1. pc'[Caller] = "count" /\ pc'[Caller] = "join"
            BY DEF Enqueue, Free, Goto
        <3>2. QED
            BY <3>1
    <2>6. QED
        BY <1>1, <2>1, <2>2, <2>3, <2>4, <2>5 DEF Call
<1>2. CASE Process(Caller)
    <2>1. CASE Pull(Caller) \/ Finish(Caller) \/ SignalItem(Caller) \/ Tell(Caller)
        BY <2>1 DEF Pull, Finish, SignalItem, Tell, Goto, AfterDrain, Free
    <2>2. CASE Drained(Caller) \/ Await(Caller) \/ Check(Caller) \/ Unblock(Caller)
        BY <2>2 DEF Drained, Await, Check, Unblock, Move, Goto, AfterDrain, Free
    <2>3. CASE Arm(Caller) \/ Dispose(Caller)
        BY <2>3 DEF Arm, Dispose, Goto, Free
    <2>4. QED
        BY <1>2, <2>1, <2>2, <2>3 DEF Process
<1>3. CASE AddItems \/ WakeWorkers \/ ItemDone
    BY <1>3 DEF AddItems, WakeWorkers, ItemDone, Goto, Free
<1>4. CASE Spin \/ Look \/ Doze \/ Join \/ TimeOut
    BY <1>4 DEF Spin, Look, Doze, Join, TimeOut, Move, Goto, Free
<1>5. CASE ResetDone \/ Announce \/ Leave
    BY <1>5 DEF ResetDone, Announce, Leave, Goto, Free
<1>6. QED
    BY <1>1, <1>2, <1>3, <1>4, <1>5 DEF CallersStep, CallerStep

LEMMA CrewStarts == Init => CrewInv
<1> SUFFICES ASSUME Init PROVE CrewInv
    OBVIOUS
<1>1. threads \in 0 .. MaxThreads
    BY TypedInit DEF Typed, TypeOK
<1>2. \A w \in Worker : pc[w] = IF w <= threads THEN "idle" ELSE "gone"
    BY <1>1, Threads, ThreadAssumption DEF Init, Worker, Caller
<1>3. LiveOnes(pc) = {} /\ live = 0
    BY <1>2 DEF LiveOnes, Lively, Serving, Init
<1>4. pc[Caller] = "ready"
    BY Threads DEF Init
<1>5. live = Cardinality(LiveOnes(pc))
    BY <1>3, FS_EmptySet
<1>6. QED
    BY <1>1, <1>2, <1>4, <1>5 DEF CrewInv, At, Worker

LEMMA CrewStep == Typed /\ CrewInv /\ [Next]_vars => CrewInv'
<1>1. ASSUME Typed, CrewInv, NEW w \in Worker, WorkerStep(w) PROVE CrewInv'
    <2>1. /\ \A v \in Worker \ {w} : pc'[v] = pc[v]
          /\ pc'[Caller] = pc[Caller] /\ UNCHANGED <<threads, exiting, batch>>
        BY <1>1, WorkerAlone, Threads, ThreadAssumption DEF Worker, Caller
    <2>2. /\ live' = Cardinality(LiveOnes(pc')) /\ pc'[w] \in Lively \cup {"idle", "asleep", "gone"}
          /\ (pc'[w] = "gone" <=> exiting /\ pc[w] \in {"idle", "asleep"})
          /\ pc[w] # "gone"
        <3>0. /\ w \in Thread /\ live \in Int /\ pc[w] \in Places
              /\ Cardinality(LiveOnes(pc)) = live
            BY <1>1, Threads DEF CrewInv, Typed, TypeOK
        <3>1. CASE Process(w)
            <4>1. pc'[w] \in Lively /\ pc[w] \in Lively /\ Goto(w, pc'[w]) /\ live' = live
                BY <1>1, <3>1, ProcessGoes DEF Lively
            <4>2. pc'[w] \in Places
                BY <4>1 DEF Lively, Serving, Places
            <4>3. Cardinality(LiveOnes(pc')) = live
                BY <1>1, <3>0, <4>1, <4>2, LiveChanges
            <4>4. QED
                BY <4>1, <4>3 DEF Lively, Serving
        <3>2. CASE Idle(w)
            <4>1. /\ pc[w] = "idle" /\ live' = live
                  /\ \E to \in {"gone", "asleep"} : Goto(w, to) /\ (to = "gone" <=> exiting)
                BY <3>2 DEF Idle, Move, At, crew
            <4>2. PICK to \in {"gone", "asleep"} : Goto(w, to) /\ (to = "gone" <=> exiting)
                BY <4>1
            <4>3. /\ to \in Places
                  /\ live' = live + (IF to \in Lively THEN 1 ELSE 0) - (IF pc[w] \in Lively THEN 1 ELSE 0)
                BY <3>0, <4>1 DEF Lively, Serving, Places
            <4>4. live' = Cardinality(LiveOnes(pc')) /\ pc'[w] = to
                BY <1>1, <3>0, <4>2, <4>3, LiveNoted
            <4>5. QED
                BY <4>1, <4>2, <4>4
        <3>3. CASE GoLive(w)
            <4>1. /\ pc[w] \in {"idle", "asleep"}
                  /\ exiting => live' = live /\ Goto(w, "gone")
                  /\ ~exiting => live' = live + 1 /\ Goto(w, "pull")
                BY <3>3 DEF GoLive, At
            <4>2. PICK to \in {"gone", "pull"} : Goto(w, to) /\ (to = "gone" <=> exiting)
                BY <4>1
            <4>3. /\ to \in Places
                  /\ live' = live + (IF to \in Lively THEN 1 ELSE 0) - (IF pc[w] \in Lively THEN 1 ELSE 0)
                BY <3>0, <4>1, <4>2 DEF Lively, Serving, Places
            <4>4. live' = Cardinality(LiveOnes(pc')) /\ pc'[w] = to
                BY <1>1, <3>0, <4>2, <4>3, LiveNoted
            <4>5. QED
                BY <4>1, <4>2, <4>4 DEF Lively, Serving
        <3>4. CASE Recheck(w) \/ ResetWake(w)
            <4>1. /\ pc[w] \in {"recheck", "rest"} /\ live' = live
                  /\ \E to \in {"rest", "pull", "retire"} : Goto(w, to)
                BY <3>4 DEF Recheck, ResetWake, Move, At, crew
            <4>2. PICK to \in {"rest", "pull", "retire"} : Goto(w, to)
                BY <4>1
            <4>3. /\ to \in Places
                  /\ live' = live + (IF to \in Lively THEN 1 ELSE 0) - (IF pc[w] \in Lively THEN 1 ELSE 0)
                BY <3>0, <4>1 DEF Lively, Serving, Places
            <4>4. live' = Cardinality(LiveOnes(pc')) /\ pc'[w] = to
                BY <1>1, <3>0, <4>2, <4>3, LiveNoted
            <4>5. QED
                BY <4>1, <4>2, <4>4 DEF Lively, Serving
        <3>5. CASE Retire(w)
            <4>1. pc[w] = "retire" /\ live' = live - 1 /\ Goto(w, "idle")
                BY <3>5 DEF Retire, At
            <4>2. /\ "idle" \in Places
                  /\ live' = live + (IF "idle" \in Lively THEN 1 ELSE 0) - (IF pc[w] \in Lively THEN 1 ELSE 0)
                BY <3>0, <4>1 DEF Lively, Serving, Places
            <4>3. live' = Cardinality(LiveOnes(pc')) /\ pc'[w] = "idle"
                BY <1>1, <3>0, <4>1, <4>2, LiveNoted
            <4>4. QED
                BY <4>1, <4>3
        <3>6. QED
            BY <1>1, <3>1, <3>2, <3>3, <3>4, <3>5 DEF WorkerStep
    <2>3. \A v \in Worker : /\ v > threads => pc'[v] = "gone"
                            /\ ~exiting /\ v <= threads => pc'[v] # "gone"
                            /\ pc'[v] \in Lively \cup {"idle", "asleep", "gone"}
        BY <1>1, <2>1, <2>2 DEF CrewInv, At
    <2>4. QED
        BY <1>1, <2>1, <2>2, <2>3 DEF CrewInv, At
<1>2. ASSUME Typed, CrewInv, CallersStep PROVE CrewInv'
    <2>1. /\ \A w \in Worker : pc'[w] = pc[w]
          /\ UNCHANGED <<threads, live>> /\ (exiting => exiting')
        BY <1>2, CallerAlone DEF Typed, TypeOK
    <2>2. LiveOnes(pc') = LiveOnes(pc)
        BY <2>1 DEF LiveOnes
    <2>3. /\ pc'[Caller] \in {"count", "wake"} => batch' >= 1
          /\ At(Caller, "join")' => exiting'
        BY <1>2, CallerComes DEF CrewInv, At
    <2>4. QED
        BY <1>2, <2>1, <2>2, <2>3 DEF CrewInv, At
<1>3. ASSUME CrewInv, UNCHANGED vars PROVE CrewInv'
    BY <1>3 DEF vars, CrewInv, LiveOnes, At, queue, crew
<1>4. QED
    BY <1>1, <1>2, <1>3 DEF Next, CallersStep

LEMMA AlwaysCrew == Spec => []CrewInv
<1>1. Typed /\ CrewInv /\ [Next]_vars => CrewInv'
    BY CrewStep
<1>2. QED
    BY <1>1, CrewStarts, AlwaysTyped, PTL DEF Spec

-----------------------------------------------------------------------------
(* Somebody looks at the list.                                             *)

\* A worker that steps while there is something on the list goes on to look.
LEMMA WorkerLooks ==
    ASSUME Typed, NEW w \in Worker, WorkerStep(w), list' # <<>>, ~exiting
    PROVE  WillLook(w)' /\ list # <<>>
<1>0. list' = list \/ (list' = Tail(list) /\ list # <<>>)
    <2>1. CASE Process(w)
        BY <2>1 DEF Process, Pull, Finish, SignalItem, Drained, Tell, Await, Arm, Check,
                    Unblock, Dispose, Move, work
    <2>2. CASE Idle(w) \/ GoLive(w) \/ Recheck(w) \/ ResetWake(w) \/ Retire(w)
        BY <2>2 DEF Idle, GoLive, Recheck, ResetWake, Retire, Move, work
    <2>3. QED
        BY <2>1, <2>2 DEF WorkerStep
<1>1. list # <<>>
    BY <1>0
<1>2. pc'[w] \notin {"gone", "asleep"}
    <2>1. CASE Process(w)
        BY <2>1, ProcessGoes DEF Lively, Serving
    <2>2. CASE Idle(w) \/ GoLive(w) \/ Recheck(w) \/ ResetWake(w) \/ Retire(w)
        BY <1>1, <2>2, Threads DEF Idle, GoLive, Recheck, ResetWake, Retire, Move, Goto, Typed, TypeOK
    <2>3. QED
        BY <2>1, <2>2 DEF WorkerStep
<1>3. QED
    BY <1>1, <1>2 DEF WillLook, At

\* The caller's step leaves something on the list: it has just put it there,
\* it wakes the workers now, or it was there before.
LEMMA CallerLeaves ==
    ASSUME Typed, CallersStep, list' # <<>>
    PROVE  \/ pc'[Caller] \in {"count", "wake"} \/ WakeWorkers
           \/ list # <<>> /\ pc[Caller] \notin {"count", "wake"}
<1> USE Threads DEF Typed, TypeOK, At
<1>1. CASE Call
    <2>1. CASE \E s \in Batches : Enqueue(s)
        BY <2>1 DEF Enqueue, Goto
    <2>2. CASE QueueWait
        BY <2>2 DEF QueueWait, Move, work
    <2>3. CASE \E i \in Item : ItemWait(i) \/ Release(i)
        BY <2>3 DEF ItemWait, Release, work
    <2>4. CASE Free
        BY <2>4 DEF Free, work
    <2>5. QED
        BY <1>1, <2>1, <2>2, <2>3, <2>4 DEF Call
<1>2. CASE Process(Caller)
    BY <1>2 DEF Process, Pull, Finish, SignalItem, Drained, Tell, Await, Arm, Check,
                Unblock, Dispose, Move, work
<1>3. CASE AddItems
    BY <1>3 DEF AddItems, Goto
<1>4. CASE Spin \/ Look \/ Doze \/ Join \/ TimeOut
    BY <1>4 DEF Spin, Look, Doze, Join, TimeOut, Move, work
<1>5. CASE ResetDone \/ Announce \/ Leave \/ ItemDone
    BY <1>5 DEF ResetDone, Announce, Leave, ItemDone, work
<1>6. QED
    BY <1>1, <1>2, <1>3, <1>4, <1>5 DEF CallersStep, CallerStep

\* A set of naturals that is not empty has a smallest element.
LEMMA Smallest ==
    ASSUME NEW T \in SUBSET Nat, T # {}
    PROVE  \E x \in T : \A y \in T : x <= y
<1> DEFINE Segments == {0 .. n : n \in T}
<1>1. Segments # {} /\ Segments \subseteq FiniteSubsetsOf(Nat)
    <2> SUFFICES ASSUME NEW n \in T PROVE 0 .. n \in FiniteSubsetsOf(Nat)
        OBVIOUS
    <2>1. IsFiniteSet(0 .. n) /\ 0 .. n \in SUBSET Nat
        BY FS_Interval
    <2>2. QED
        BY <2>1 DEF FiniteSubsetsOf
<1>2. PICK X \in Segments : \A Y \in Segments : <<Y, X>> \notin StrictSubsetOrdering(Nat)
    BY <1>1, WFMin, FS_StrictSubsetOrderingWellFounded
<1>3. PICK x \in T : X = 0 .. x
    OBVIOUS
<1>4. ASSUME NEW y \in T, y < x PROVE FALSE
    <2>1. 0 .. y \in Segments /\ 0 .. y \in SUBSET Nat /\ 0 .. x \in SUBSET Nat
        OBVIOUS
    <2>2. 0 .. y \subseteq 0 .. x /\ x \in 0 .. x /\ x \notin 0 .. y
        BY <1>4
    <2>3. QED
        BY <1>2, <1>3, <2>1, <2>2 DEF StrictSubsetOrdering
<1>5. QED
    BY <1>4

\* osd_work_item_queue_multiple wakes somebody who is asleep, or finds that
\* everybody is up: live is the number of those who are.
LEMMA WakeReaches ==
    ASSUME Typed, CrewInv, WakeWorkers, ~exiting, threads # 0
    PROVE  \E w \in 1 .. threads : WillLook(w)'
<1>1. /\ threads \in Nat \ {0} /\ 1 .. threads \subseteq Worker
      /\ pc[Caller] = "wake" /\ batch \in Nat /\ batch >= 1
      /\ wake \in [Worker -> BOOLEAN]
    BY ThreadAssumption DEF Typed, TypeOK, CrewInv, WakeWorkers, At, Worker
<1>2. \A w \in 1 .. threads : pc'[w] = pc[w] /\ pc[w] # "gone"
    <2>1. CallersStep
        BY DEF CallersStep, CallerStep
    <2>2. QED
        BY <1>1, <2>1, CallerAlone DEF CrewInv, At
<1>3. wake' = [w \in Worker |-> wake[w] \/ (live < threads /\ w \in Woken)]
    BY DEF WakeWorkers
<1>4. CASE \A w \in 1 .. threads : wake[w]
    <2>1. 1 \in 1 .. threads /\ 1 \in Worker
        BY <1>1
    <2>2. wake'[1]
        BY <1>3, <1>4, <2>1
    <2>3. QED
        BY <1>2, <2>1, <2>2 DEF WillLook, At
<1>5. CASE live < threads /\ \E w \in 1 .. threads : ~wake[w]
    <2> DEFINE Off == {w \in 1 .. threads : ~wake[w]}
    <2>1. Off \in SUBSET Nat /\ Off # {}
        BY <1>1, <1>5
    <2>2. PICK w \in Off : \A v \in Off : w <= v
        BY <2>1, Smallest
    <2>3. {v \in 1 .. w - 1 : ~wake[v]} = {}
        BY <1>1, <2>2
    <2>4. Cardinality({v \in 1 .. w - 1 : ~wake[v]}) < batch
        <3>1. Cardinality({v \in 1 .. w - 1 : ~wake[v]}) = Cardinality({})
            BY <2>3, Zenon
        <3>2. Cardinality({}) = 0
            BY FS_EmptySet
        <3>3. QED
            BY <1>1, <3>1, <3>2
    <2>5. w \in Woken
        BY <2>4 DEF Woken
    <2>6. wake'[w]
        BY <1>1, <1>3, <1>5, <2>5
    <2>7. QED
        BY <1>2, <2>6 DEF WillLook, At
<1>6. CASE ~(live < threads)
    <2>1. LiveOnes(pc) \in SUBSET (1 .. threads)
        BY <1>1 DEF LiveOnes, CrewInv, At, Lively, Serving, Worker
    <2>2. IsFiniteSet(1 .. threads) /\ Cardinality(1 .. threads) = threads
        BY <1>1, FS_Interval
    <2>3. Cardinality(LiveOnes(pc)) <= threads /\ live = Cardinality(LiveOnes(pc)) /\ live \in Int
        BY <2>1, <2>2, FS_Subset DEF CrewInv, Typed, TypeOK
    <2>4. Cardinality(LiveOnes(pc)) = Cardinality(1 .. threads)
        BY <1>1, <1>6, <2>2, <2>3
    <2>5. LiveOnes(pc) = 1 .. threads
        BY <2>1, <2>2, <2>4, FS_Subset
    <2>6. 1 \in 1 .. threads /\ pc[1] \in Lively
        BY <1>1, <2>5 DEF LiveOnes
    <2>7. QED
        BY <1>2, <2>6 DEF WillLook, At, Lively, Serving
<1>7. QED
    BY <1>4, <1>5, <1>6

\* Without workers the caller is on its way to the list, or the list is empty.
AloneInv ==
    /\ auto => held = {}
    /\ threads = 0 /\ list # <<>> =>
          \/ pc[Caller] \in {"count", "wake", "pull", "run", "marked"}
          \/ auto /\ pc[Caller] \in Waiting

CrewSees ==
    threads # 0 /\ list # <<>> /\ ~exiting =>
        pc[Caller] \in {"count", "wake"} \/ \E w \in 1 .. threads : WillLook(w)

SeenInv == AloneInv /\ CrewSees

LEMMA SeenInvIsEnough == SeenInv => WorkIsSeen
BY DEF SeenInv, AloneInv, CrewSees, WorkIsSeen, Waiting, Serving

LEMMA WorkerKeepsSeen ==
    ASSUME Typed, CrewInv, SeenInv, NEW w \in Worker, WorkerStep(w)
    PROVE  SeenInv'
<1>1. UNCHANGED <<threads, exiting, auto, held>> /\ pc'[Caller] = pc[Caller]
    BY WorkerAlone, Threads, ThreadAssumption DEF Worker, Caller
<1>2. pc[w] # "gone" /\ threads \in Nat
    <2>1. CASE Process(w)
        BY <2>1, ProcessGoes DEF Serving, Typed, TypeOK
    <2>2. CASE Idle(w) \/ GoLive(w) \/ Recheck(w) \/ ResetWake(w) \/ Retire(w)
        BY <2>2 DEF Idle, GoLive, Recheck, ResetWake, Retire, Move, At, Typed, TypeOK
    <2>3. QED
        BY <2>1, <2>2 DEF WorkerStep
<1>3. w \in 1 .. threads
    BY <1>2 DEF CrewInv, At, Worker
<1>4. threads # 0
    BY <1>3
<1>5. AloneInv'
    BY <1>1, <1>4 DEF SeenInv, AloneInv
<1>6. CrewSees'
    BY <1>1, <1>3, WorkerLooks DEF CrewSees
<1>7. QED
    BY <1>5, <1>6 DEF SeenInv

LEMMA CallerKeepsAlone ==
    ASSUME Typed, AloneInv, CallersStep
    PROVE  AloneInv'
<1> USE Threads DEF Typed, TypeOK, AloneInv, At, Waiting
<1>1. CASE Call
    <2>1. CASE \E s \in Batches : Enqueue(s)
        BY <2>1 DEF Enqueue, Goto, queue
    <2>2. CASE QueueWait
        BY <2>2 DEF QueueWait, Move, queue, store, work
    <2>3. CASE \E i \in Item : ItemWait(i) \/ Release(i)
        BY <2>3 DEF ItemWait, Release, queue, store, work
    <2>4. CASE Free
        BY <2>4 DEF Free, store, work
    <2>5. QED
        BY <1>1, <2>1, <2>2, <2>3, <2>4 DEF Call
<1>2. CASE Process(Caller)
    <2>1. CASE Pull(Caller)
        BY <2>1 DEF Pull, Goto, queue, store
    <2>2. CASE Finish(Caller) \/ SignalItem(Caller) \/ Tell(Caller)
        BY <2>2 DEF Finish, SignalItem, Tell, Goto, queue, store, work
    <2>3. CASE Drained(Caller) \/ Await(Caller) \/ Check(Caller) \/ Unblock(Caller)
        BY <2>3 DEF Drained, Await, Check, Unblock, Move, Goto, queue, store, work
    <2>4. CASE Arm(Caller) \/ Dispose(Caller)
        BY <2>4 DEF Arm, Dispose, Goto, queue, store, work
    <2>5. QED
        BY <1>2, <2>1, <2>2, <2>3, <2>4 DEF Process
<1>3. CASE AddItems \/ WakeWorkers \/ ItemDone
    BY <1>3 DEF AddItems, WakeWorkers, ItemDone, Goto, queue, store, work
<1>4. CASE Spin \/ Look \/ Doze \/ Join \/ TimeOut
    BY <1>4 DEF Spin, Look, Doze, Join, TimeOut, Move, Goto, queue, store, work
<1>5. CASE ResetDone \/ Announce \/ Leave
    BY <1>5 DEF ResetDone, Announce, Leave, queue, store, work
<1>6. QED
    BY <1>1, <1>2, <1>3, <1>4, <1>5 DEF CallersStep, CallerStep

LEMMA CallerKeepsCrewSees ==
    ASSUME Typed, CrewInv, CrewSees, CallersStep
    PROVE  CrewSees'
<1>1. /\ \A w \in Worker : pc'[w] = pc[w] /\ (wake[w] => wake'[w])
      /\ threads' = threads /\ (~exiting' => ~exiting) /\ 1 .. threads \subseteq Worker
    BY CallerAlone, ThreadAssumption DEF Worker, Typed, TypeOK
<1>2. SUFFICES ASSUME threads # 0, list' # <<>>, ~exiting', pc'[Caller] \notin {"count", "wake"}
               PROVE  \E w \in 1 .. threads : WillLook(w)'
    BY <1>1 DEF CrewSees
<1>3. CASE WakeWorkers
    BY <1>1, <1>2, <1>3, WakeReaches
<1>4. CASE ~WakeWorkers
    <2>1. list # <<>> /\ pc[Caller] \notin {"count", "wake"}
        BY <1>2, <1>4, CallerLeaves
    <2>2. PICK w \in 1 .. threads : WillLook(w)
        BY <1>1, <1>2, <2>1 DEF CrewSees
    <2>3. WillLook(w)'
        BY <1>1, <2>2 DEF WillLook, At
    <2>4. QED
        BY <2>3
<1>5. QED
    BY <1>3, <1>4

LEMMA SeenStep == Typed /\ CrewInv /\ SeenInv /\ [Next]_vars => SeenInv'
<1>1. ASSUME SeenInv, UNCHANGED vars PROVE SeenInv'
    BY <1>1 DEF vars, SeenInv, AloneInv, CrewSees, WillLook, At, queue, work, store, crew
<1>2. ASSUME Typed, CrewInv, SeenInv, CallersStep PROVE SeenInv'
    BY <1>2, CallerKeepsAlone, CallerKeepsCrewSees DEF SeenInv
<1>3. QED
    BY <1>1, <1>2, WorkerKeepsSeen DEF Next, CallersStep

\* A wake-up is never lost: whatever the order in which items are listed, the
\* live workers are counted, wake events are set and reset and workers look for
\* the last time, somebody is about to look while there is something to find.
THEOREM WorkIsAlwaysSeen == Spec => []WorkIsSeen
<1>1. Init => SeenInv
    BY DEF Init, SeenInv, AloneInv, CrewSees
<1>2. Typed /\ CrewInv /\ SeenInv /\ [Next]_vars => SeenInv'
    BY SeenStep
<1>3. QED
    BY <1>1, <1>2, AlwaysTyped, AlwaysCrew, SeenInvIsEnough, PTL DEF Spec

-----------------------------------------------------------------------------
(* A caller that waits for the queue is told.                              *)

Busy == Serving \cup {"drained", "tell"}

WaitInv == (waiting <=> pc[Caller] \in {"look", "doze", "leave"}) /\ WaitIsAnswered

\* A worker does not leave worker_thread_process without telling a waiting caller.
LEMMA BusyTells ==
    ASSUME Typed, NEW w \in Worker, Process(w), waiting, ~doneevent'
    PROVE  pc'[w] \in Busy
<1>0. w # Caller /\ w \in Thread
    BY ThreadAssumption, Threads DEF Worker, Caller
<1> USE <1>0 DEF Typed, TypeOK, Busy, Serving
<1>1. CASE Pull(w) \/ Finish(w) \/ SignalItem(w)
    BY <1>1 DEF Pull, Finish, SignalItem, Goto
<1>2. CASE Drained(w) \/ Tell(w)
    BY <1>2 DEF Drained, Tell, Move, Goto
<1>3. CASE Await(w) \/ Arm(w) \/ Check(w) \/ Unblock(w) \/ Dispose(w)
    BY <1>3 DEF Await, Arm, Check, Unblock, Dispose, Move, Goto
<1>4. QED
    BY <1>1, <1>2, <1>3 DEF Process

LEMMA WorkerKeepsWait ==
    ASSUME Typed, WaitInv, NEW w \in Worker, WorkerStep(w)
    PROVE  WaitInv'
<1>1. /\ pc'[Caller] = pc[Caller] /\ waiting' = waiting
      /\ \A v \in Worker \ {w} : pc'[v] = pc[v]
    BY WorkerAlone, Threads, ThreadAssumption DEF Worker, Caller
<1>2. SUFFICES ASSUME At(Caller, "doze"), ~doneevent'
               PROVE  list' # <<>> \/ \E v \in Worker : pc'[v] \in Busy
    BY <1>1 DEF WaitInv, WaitIsAnswered, At, Busy
<1>3. waiting
    BY <1>2 DEF WaitInv, At
<1>4. CASE Process(w)
    BY <1>2, <1>3, <1>4, BusyTells
<1>5. CASE Idle(w) \/ GoLive(w) \/ Recheck(w) \/ ResetWake(w) \/ Retire(w)
    <2>1. pc[w] \notin Busy /\ list' = list /\ doneevent' = doneevent
        BY <1>5 DEF Idle, GoLive, Recheck, ResetWake, Retire, Move, At, Busy, Serving, work, signals
    <2>2. list # <<>> \/ \E v \in Worker : pc[v] \in Busy
        BY <1>2, <2>1 DEF WaitInv, WaitIsAnswered, Busy
    <2>3. QED
        BY <1>1, <2>1, <2>2
<1>6. QED
    BY <1>4, <1>5 DEF WorkerStep

\* What the caller sees counted is listed or in a worker's callback.
LEMMA CountedIsSomewhere ==
    ASSUME Typed, CountsAddUp, items # 0, pc[Caller] \notin {"count", "run"}
    PROVE  list # <<>> \/ \E w \in Worker : pc[w] \in Busy
<1>1. items = Len(list) + Cardinality(Ran(pc)) /\ Len(list) \in Nat
    BY Counts, RanFinite DEF Uncounted, At, Typed, TypeOK
<1>2. CASE Ran(pc) = {}
    <2>1. Cardinality(Ran(pc)) = 0
        BY <1>2, FS_EmptySet
    <2>2. QED
        BY <1>1, <2>1
<1>3. CASE Ran(pc) # {}
    <2>1. PICK t \in Thread : pc[t] = "run"
        BY <1>3 DEF Ran
    <2>2. t \in Worker
        BY <2>1, ThreadAssumption DEF Worker, Thread, Caller
    <2>3. QED
        BY <2>1, <2>2 DEF Busy, Serving
<1>4. QED
    BY <1>2, <1>3

LEMMA CallerKeepsWait ==
    ASSUME Typed, CountsAddUp, WaitInv, CallersStep
    PROVE  WaitInv'
<1>1. \A w \in Worker : pc'[w] = pc[w]
    BY CallerAlone
<1>2. CASE Look
    <2>1. pc[Caller] = "look" /\ UNCHANGED <<list, waiting, doneevent>>
        BY <1>2 DEF Look, Move, At, work, signals
    <2>2. pc'[Caller] = (IF items # 0 THEN "doze" ELSE "leave")
        BY <1>2, Threads DEF Look, Move, Goto, Typed, TypeOK
    <2>3. CASE items = 0
        BY <2>1, <2>2, <2>3 DEF WaitInv, WaitIsAnswered, At
    <2>4. CASE items # 0
        <3>1. list # <<>> \/ \E w \in Worker : pc[w] \in Busy
            BY <2>1, <2>4, CountedIsSomewhere
        <3>2. waiting
            BY <2>1 DEF WaitInv
        <3>3. QED
            BY <1>1, <2>1, <2>2, <2>4, <3>1, <3>2 DEF WaitInv, WaitIsAnswered, At, Busy
    <2>5. QED
        BY <2>3, <2>4
<1>3. CASE ~Look
    <2>1. /\ pc'[Caller] # "doze"
          /\ waiting' <=> pc'[Caller] \in {"look", "doze", "leave"}
        <3> USE Threads DEF Typed, TypeOK, WaitInv, At
        <3>1. CASE Call
            BY <3>1 DEF Call, Enqueue, QueueWait, ItemWait, Release, Free, Move, Goto, signals
        <3>2. CASE Process(Caller)
            <4>1. CASE Pull(Caller) \/ Finish(Caller) \/ SignalItem(Caller) \/ Tell(Caller)
                BY <4>1 DEF Pull, Finish, SignalItem, Tell, AfterDrain, Goto, signals
            <4>2. CASE Drained(Caller) \/ Await(Caller) \/ Check(Caller) \/ Unblock(Caller)
                BY <4>2 DEF Drained, Await, Check, Unblock, AfterDrain, Move, Goto, signals
            <4>3. CASE Arm(Caller) \/ Dispose(Caller)
                BY <4>3 DEF Arm, Dispose, Goto, signals
            <4>4. QED
                BY <3>2, <4>1, <4>2, <4>3 DEF Process
        <3>3. CASE AddItems \/ WakeWorkers \/ ItemDone
            BY <3>3 DEF AddItems, WakeWorkers, ItemDone, Goto, signals
        <3>4. CASE Spin \/ Doze \/ Join \/ TimeOut
            BY <3>4 DEF Spin, Doze, Join, TimeOut, Move, Goto, signals
        <3>5. CASE ResetDone \/ Announce \/ Leave
            BY <3>5 DEF ResetDone, Announce, Leave, Goto
        <3>6. QED
            BY <1>3, <3>1, <3>2, <3>3, <3>4, <3>5 DEF CallersStep, CallerStep
    <2>2. QED
        BY <2>1 DEF WaitInv, WaitIsAnswered, At
<1>4. QED
    BY <1>2, <1>3

\* A caller asleep in osd_work_queue_wait is not forgotten: the done event that
\* it reset, its announcement and its look at the counter cannot fall between
\* the last items and the threads that finish them so that nobody tells it.
THEOREM WaitIsAlwaysAnswered == Spec => []WaitIsAnswered
<1>1. Init => WaitInv
    BY Threads DEF Init, WaitInv, WaitIsAnswered, At
<1>2. Typed /\ CountsAddUp /\ WaitInv /\ [Next]_vars => WaitInv'
    <2>1. ASSUME WaitInv, UNCHANGED vars PROVE WaitInv'
        BY <2>1 DEF vars, WaitInv, WaitIsAnswered, At, work, signals
    <2>2. QED
        BY <2>1, WorkerKeepsWait, CallerKeepsWait DEF Next, CallersStep
<1>3. WaitInv => WaitIsAnswered
    BY DEF WaitInv
<1>4. QED
    BY <1>1, <1>2, <1>3, AlwaysTyped, CounterIsRight, PTL DEF Spec

-----------------------------------------------------------------------------
(* No worker sleeps through the end.                                       *)

LEMMA ExitStep == Typed /\ CrewInv /\ ExitIsSeen /\ [Next]_vars => ExitIsSeen'
<1>1. ASSUME Typed, CrewInv, ExitIsSeen, NEW w \in Worker, WorkerStep(w) PROVE ExitIsSeen'
    <2>1. /\ pc'[Caller] = pc[Caller] /\ exiting' = exiting
          /\ \A v \in Worker \ {w} : pc'[v] = pc[v] /\ wake'[v] = wake[v]
        BY <1>1, WorkerAlone, Threads, ThreadAssumption DEF Worker, Caller
    <2>2. SUFFICES ASSUME At(Caller, "join") PROVE pc'[w] # "asleep"
        BY <1>1, <2>1 DEF ExitIsSeen, At
    <2>3. exiting
        BY <1>1, <2>2 DEF CrewInv
    <2>4. CASE Process(w)
        BY <1>1, <2>4, ProcessGoes DEF Lively, Serving
    <2>5. CASE Idle(w) \/ GoLive(w) \/ Recheck(w) \/ ResetWake(w) \/ Retire(w)
        BY <1>1, <2>3, <2>5, Threads DEF Idle, GoLive, Recheck, ResetWake, Retire, Move, Goto,
                                          Typed, TypeOK
    <2>6. QED
        BY <1>1, <2>4, <2>5 DEF WorkerStep
<1>2. ASSUME Typed, CrewInv, ExitIsSeen, CallersStep PROVE ExitIsSeen'
    <2>1. \A w \in Worker : pc'[w] = pc[w]
        BY <1>2, CallerAlone
    <2>2. CASE Free
        <3>1. \A w \in Worker : w <= threads => wake'[w]
            BY <1>2, <2>2, CallerComes
        <3>2. \A w \in Worker : At(w, "asleep") => ~(w > threads)
            BY <1>2 DEF CrewInv, At
        <3>3. \A w \in Worker : At(w, "asleep") => w <= threads
            BY <1>2, <3>2, ThreadAssumption DEF Worker, Typed, TypeOK
        <3>4. QED
            BY <2>1, <3>1, <3>3 DEF ExitIsSeen, At
    <2>3. CASE ~Free
        BY <1>2, <2>3, CallerComes DEF ExitIsSeen
    <2>4. QED
        BY <2>2, <2>3
<1>3. ASSUME ExitIsSeen, UNCHANGED vars PROVE ExitIsSeen'
    BY <1>3 DEF vars, ExitIsSeen, At, crew
<1>4. QED
    BY <1>1, <1>2, <1>3 DEF Next, CallersStep

\* osd_work_queue_free is not left waiting for a thread that nobody woke.
THEOREM ExitIsAlwaysSeen == Spec => []ExitIsSeen
<1>1. Init => ExitIsSeen
    BY Threads DEF Init, ExitIsSeen, At
<1>2. Typed /\ CrewInv /\ ExitIsSeen /\ [Next]_vars => ExitIsSeen'
    BY ExitStep
<1>3. QED
    BY <1>1, <1>2, AlwaysTyped, AlwaysCrew, PTL DEF Spec

-----------------------------------------------------------------------------
(* A caller that is blocked on an item is signalled.                       *)

Pending == \A i \in Item : ~done[i] => i \in ToSet(list) \/ Running(i)

LEMMA PendingStep ==
    ASSUME Typed, PoolInv, ~LateReuse, Pending, Next
    PROVE  Pending'
<1>1. ASSUME NEW s \in Batches, Enqueue(s) PROVE Pending'
    <2>1. ToSet(list') = ToSet(list) \cup ToSet(s) /\ item' = item
        BY <1>1, EnqueueKeeps DEF Enqueue
    <2>2. done' = [i \in Item |-> done[i] /\ i \notin ToSet(s)]
        BY <1>1 DEF Enqueue
    <2>3. \A t \in Thread : At(t, "run") => At(t, "run")'
        BY <1>1, Threads DEF Enqueue, At, Goto, Typed, TypeOK
    <2>4. QED
        BY <2>1, <2>2, <2>3 DEF Pending, Running
<1>2. ASSUME NEW t \in Thread, PullOne(t) PROVE Pending'
    <2>1. /\ pc[t] = "pull" /\ pc'[t] = "run" /\ item'[t] = Head(list) /\ done' = done
          /\ list' = Tail(list) /\ list # <<>>
          /\ \A u \in Thread \ {t} : pc'[u] = pc[u] /\ item'[u] = item[u]
        BY <1>2 DEF PullOne, Pull, At, Goto, Take, Typed, TypeOK, marks
    <2>2. ToSet(list') = ToSet(list) \ {Head(list)}
        BY <2>1, OnceTail DEF PoolInv, ListedFresh, Typed, TypeOK
    <2>3. QED
        BY <2>1, <2>2 DEF Pending, Running, At
<1>3. ASSUME NEW t \in Thread, Finish(t) PROVE Pending'
    <2>1. /\ done' = [done EXCEPT ![item[t]] = TRUE] /\ list' = list /\ item' = item
          /\ \A u \in Thread \ {t} : pc'[u] = pc[u]
        BY <1>3 DEF Finish, Goto, Typed, TypeOK
    <2>2. ASSUME NEW i \in Item, ~done'[i] PROVE i # item[t] /\ ~done[i]
        BY <2>1, <2>2 DEF Typed, TypeOK
    <2>3. QED
        BY <2>1, <2>2 DEF Pending, Running, At
<1>4. ASSUME NEW t \in Thread, Dispose(t) \/ OnTheWay(t) \/ Quiet(t) PROVE Pending'
    <2>1. /\ pc[t] # "run" /\ list' = list /\ done' = done
          /\ \A u \in Thread \ {t} : pc'[u] = pc[u] /\ item'[u] = item[u]
        <3>1. CASE Dispose(t)
            BY <3>1 DEF Dispose, At, Goto, Take, Typed, TypeOK, work, marks
        <3>2. CASE OnTheWay(t)
            BY <3>2, WayFacts DEF WayOfAny, At
        <3>3. CASE Quiet(t)
            BY <3>3 DEF Quiet, At, Goto, Typed, TypeOK
        <3>4. QED
            BY <1>4, <3>1, <3>2, <3>3
    <2>2. QED
        BY <2>1 DEF Pending, Running, At
<1>5. QED
    BY <1>1, <1>2, <1>3, <1>4, Kinds

\* The worker that has the item a caller is blocked on keeps it until it has
\* set its event, and nobody resets the event meanwhile.
LEMMA WorkerKeepsAnswer ==
    ASSUME Typed, PoolInv, ItemIsAnswered, NEW w \in Worker, WorkerStep(w)
    PROVE  ItemIsAnswered'
<1> DEFINE i == item[Caller]
<1>0. w # Caller /\ w \in Thread /\ Caller \in Thread
    BY ThreadAssumption, Threads DEF Worker, Caller
<1>1. /\ pc'[Caller] = pc[Caller] /\ item'[Caller] = i
      /\ \A v \in Worker \ {w} : pc'[v] = pc[v] /\ item'[v] = item[v]
    BY <1>0, WorkerAlone, Threads
<1>2. SUFFICES ASSUME pc[Caller] = "block", ~event'[i]
               PROVE  \/ i \in ToSet(list')
                      \/ \E v \in Worker : item'[v] = i /\ pc'[v] \in {"run", "marked"}
    BY <1>1 DEF ItemIsAnswered, At
<1>3. i \in Item
    BY <1>0, <1>2 DEF Typed, InHand, Handling
<1>4. /\ pc[w] = "marked" /\ auto => item[w] # i
      /\ pc[w] = "arm" => item[w] # i
    BY <1>0, <1>2 DEF PoolInv, WorkersHand, CallersHand, After, Waiting
<1> HIDE DEF i
<1> DEFINE Answered == i \in ToSet(list) \/ \E v \in Worker : item[v] = i /\ pc[v] \in {"run", "marked"}
<1>5. ~event[i] => Answered
    BY <1>2 DEF ItemIsAnswered, At, i
<1>6. CASE Pull(w)
    <2>1. event' = event /\ pc[w] = "pull"
        BY <1>6 DEF Pull, At, marks
    <2>2. CASE list = <<>>
        <3>1. list' = list
            BY <1>6, <2>2 DEF Pull
        <3>2. QED
            BY <1>1, <1>2, <1>5, <2>1, <3>1
    <2>3. CASE list # <<>>
        <3>1. /\ list' = Tail(list) /\ item'[w] = Head(list) /\ pc'[w] = "run"
            BY <1>0, <1>6, <2>3 DEF Pull, Goto, Take, Typed, TypeOK
        <3>2. ToSet(list') = ToSet(list) \ {Head(list)}
            BY <2>3, <3>1, OnceTail DEF PoolInv, ListedFresh, Typed, TypeOK
        <3>3. QED
            BY <1>1, <1>2, <1>5, <2>1, <3>1, <3>2
    <2>4. QED
        BY <2>2, <2>3
<1>7. CASE Finish(w)
    <2>1. event' = event /\ list' = list /\ item' = item /\ pc'[w] = "marked"
        BY <1>0, <1>7 DEF Finish, Goto, Typed, TypeOK
    <2>2. QED
        BY <1>1, <1>2, <1>5, <2>1
<1>8. CASE SignalItem(w)
    <2>1. pc[w] = "marked" /\ list' = list
        BY <1>8 DEF SignalItem, At, work
    <2>2. item[w] # i /\ (~event[i])
        <3>1. CASE auto
            BY <1>2, <1>4, <1>8, <2>1, <3>1 DEF SignalItem
        <3>2. CASE ~auto
            <4>1. event' = [event EXCEPT ![item[w]] = TRUE]
                BY <1>8, <3>2 DEF SignalItem
            <4>2. QED
                BY <1>2, <1>3, <4>1 DEF Typed, TypeOK
        <3>3. QED
            BY <3>1, <3>2
    <2>3. QED
        BY <1>1, <1>5, <2>1, <2>2
<1>9. CASE Arm(w)
    <2>1. pc[w] = "arm" /\ list' = list /\ event' = [event EXCEPT ![item[w]] = FALSE]
        BY <1>9 DEF Arm, At, work
    <2>2. ~event[i]
        BY <1>2, <1>3, <1>4, <2>1 DEF Typed, TypeOK
    <2>3. QED
        BY <1>1, <1>5, <2>1, <2>2
<1>10. CASE Drained(w) \/ Tell(w) \/ Await(w) \/ Check(w) \/ Unblock(w) \/ Dispose(w)
            \/ Idle(w) \/ GoLive(w) \/ Recheck(w) \/ ResetWake(w) \/ Retire(w)
    <2>1. pc[w] \notin {"run", "marked"} /\ list' = list /\ event' = event
        BY <1>10 DEF Drained, Tell, Await, Check, Unblock, Dispose, Idle, GoLive, Recheck,
                     ResetWake, Retire, Move, At, work, marks
    <2>2. QED
        BY <1>1, <1>2, <1>5, <2>1
<1>11. QED
    BY <1>6, <1>7, <1>8, <1>9, <1>10 DEF WorkerStep, Process

\* The caller blocks only on an item that it has just seen not done.
LEMMA CallerKeepsAnswer ==
    ASSUME Typed, Pending, CallersStep
    PROVE  ItemIsAnswered'
<1>1. \A w \in Worker : pc'[w] = pc[w] /\ item'[w] = item[w]
    BY CallerAlone
<1>2. CASE Check(Caller) /\ ~done[item[Caller]]
    <2>1. pc[Caller] = "check" /\ list' = list /\ item' = item /\ item[Caller] \in Item
        BY <1>2, Threads DEF Check, Move, At, work, Typed, InHand, Handling
    <2>2. \/ item[Caller] \in ToSet(list)
          \/ \E t \in Thread : item[t] = item[Caller] /\ pc[t] = "run"
        BY <1>2, <2>1 DEF Pending, Running, At
    <2>3. \A t \in Thread : pc[t] = "run" => t \in Worker
        BY <2>1, ThreadAssumption DEF Thread, Worker, Caller
    <2>4. QED
        BY <1>1, <2>1, <2>2, <2>3 DEF ItemIsAnswered
<1>3. CASE ~(Check(Caller) /\ ~done[item[Caller]])
    <2>1. pc'[Caller] # "block"
        <3> USE Threads DEF Typed, TypeOK, At
        <3>1. CASE Call
            BY <3>1 DEF Call, Enqueue, QueueWait, ItemWait, Release, Free, Move, Goto
        <3>2. CASE Process(Caller)
            <4>1. CASE Pull(Caller) \/ Finish(Caller) \/ SignalItem(Caller) \/ Tell(Caller)
                BY <4>1 DEF Pull, Finish, SignalItem, Tell, AfterDrain, Goto
            <4>2. CASE Drained(Caller) \/ Await(Caller) \/ Check(Caller) \/ Unblock(Caller)
                BY <1>3, <4>2 DEF Drained, Await, Check, Unblock, AfterDrain, Move, Goto
            <4>3. CASE Arm(Caller) \/ Dispose(Caller)
                BY <4>3 DEF Arm, Dispose, Goto
            <4>4. QED
                BY <3>2, <4>1, <4>2, <4>3 DEF Process
        <3>3. CASE AddItems \/ WakeWorkers \/ ItemDone
            BY <3>3 DEF AddItems, WakeWorkers, ItemDone, Goto
        <3>4. CASE Spin \/ Look \/ Doze \/ Join \/ TimeOut
            BY <3>4 DEF Spin, Look, Doze, Join, TimeOut, Move, Goto
        <3>5. CASE ResetDone \/ Announce \/ Leave
            BY <3>5 DEF ResetDone, Announce, Leave, Goto
        <3>6. QED
            BY <3>1, <3>2, <3>3, <3>4, <3>5 DEF CallersStep, CallerStep
    <2>2. QED
        BY <2>1 DEF ItemIsAnswered, At
<1>4. QED
    BY <1>2, <1>3

\* No signal is lost, in whatever order the threads get to their accesses: a
\* thread that sleeps has its signal, or somebody awake is on the way to send it.
THEOREM SignalsAreKept ==
    ASSUME ~LateReuse PROVE Spec => []NoSignalLost
<1> DEFINE Inv == Pending /\ ItemIsAnswered
<1>1. Init => Inv
    BY Threads DEF Init, Pending, ItemIsAnswered, At
<1>2. Typed /\ PoolInv /\ Inv /\ [Next]_vars => Inv'
    <2>1. ASSUME Inv, UNCHANGED vars PROVE Inv'
        BY <2>1 DEF vars, Pending, Running, ItemIsAnswered, At, work, marks
    <2>2. ASSUME Typed, PoolInv, Inv, Next PROVE Inv'
        BY <2>2, PendingStep, WorkerKeepsAnswer, CallerKeepsAnswer DEF Next, CallersStep
    <2>3. QED
        BY <2>1, <2>2
<1>3. Inv /\ WorkIsSeen /\ WaitIsAnswered /\ ExitIsSeen => NoSignalLost
    BY DEF NoSignalLost
<1>4. QED
    BY <1>1, <1>2, <1>3, AlwaysTyped, AlwaysPoolInv, WorkIsAlwaysSeen, WaitIsAlwaysAnswered,
       ExitIsAlwaysSeen, PTL DEF Spec
=============================================================================
