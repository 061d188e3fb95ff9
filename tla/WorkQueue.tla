------------------------------ MODULE WorkQueue ------------------------------
(***************************************************************************)
(* The threaded work queue of osd/osdsync.cpp: a calling thread that       *)
(* queues, waits, releases and frees, and worker threads.  An action is an *)
(* access to shared memory, a critical section of queue->lock, or a few    *)
(* such together where no other thread reads what is between them.         *)
(* The calling thread is thread 0, the workers are 1 .. threads.           *)
(***************************************************************************)
EXTENDS Integers, SequencesExt, FiniteSets

CONSTANTS
    Item,          \* work items
    MaxThreads,    \* at most this many workers (WORK_MAX_THREADS)
    Queues,        \* the queues to look at: threads, flags and,
                   \* as each caller uses one kind of items, whether they are AUTO_RELEASE
    MaxBatch,      \* at most this many items in one osd_work_item_queue_multiple
    LateReuse,     \* whether a released item may be queued again while the
                   \* worker that ran it has not let go of it yet
    None           \* no item

ASSUME ThreadAssumption == MaxThreads \in Nat /\ MaxBatch \in Nat \ {0}
\* Only a MULTI queue has more than one worker.
ASSUME QueueAssumption ==
    \A q \in Queues : /\ q.flags \subseteq {"MULTI", "HIGH_FREQ"}
                      /\ q.threads \in 0 .. MaxThreads
                      /\ q.auto \in BOOLEAN
                      /\ "MULTI" \in q.flags \/ q.threads <= 1
ASSUME ItemAssumption == None \notin Item /\ IsFiniteSet(Item)
ASSUME ReuseAssumption == LateReuse \in BOOLEAN

VARIABLES
    threads, flags, exiting,   \* osd_work_queue
    auto,                      \* whether its items are AUTO_RELEASE
    list, items,               \* the queue and its counter
    free, held,                \* released items; items the caller has to release
    done, event,               \* item->done, item->event
    waiting, doneevent,        \* for osd_work_queue_wait
    live, wake,                \* livethreads, [worker -> thread->wakeevent]
    batch,                     \* numitems of the call being made
    pc, item                   \* of each thread: place, item in hand

queue == <<threads, flags, exiting, auto>>
work == <<list, items>>
store == <<free, held>>
marks == <<done, event>>
signals == <<waiting, doneevent>>
crew == <<live, wake>>
vars == <<queue, work, store, marks, signals, crew, batch, pc, item>>

Caller == 0
Worker == 1 .. MaxThreads
Thread == 0 .. MaxThreads

At(t, place) == pc[t] = place
Goto(t, place) == pc' = [pc EXCEPT ![t] = place]
Take(t, i) == item' = [item EXCEPT ![t] = i]
\* A step that looks and moves on, and changes nothing that is shared.
Move(t, from, to) ==
    /\ At(t, from) /\ Goto(t, to)
    /\ UNCHANGED <<queue, work, store, marks, signals, crew, batch, item>>

-----------------------------------------------------------------------------
\* osd_work_queue_alloc.
Init ==
    /\ \E q \in Queues : threads = q.threads /\ flags = q.flags /\ auto = q.auto
    /\ exiting = FALSE
    /\ list = <<>> /\ items = 0
    /\ free = Item /\ held = {}
    /\ done = [i \in Item |-> TRUE] /\ event = [i \in Item |-> FALSE]
    /\ waiting = FALSE /\ doneevent = TRUE
    /\ live = 0 /\ wake = [w \in Worker |-> FALSE]
    /\ batch = 0
    /\ pc = [t \in Thread |-> IF t = Caller THEN "ready"
                              ELSE IF t <= threads THEN "idle" ELSE "gone"]
    /\ item = [t \in Thread |-> None]

-----------------------------------------------------------------------------
(* osd_work_item_queue_multiple: enqueue, count, wake.                     *)

\* Only the last item is returned, so the caller keeps single items only.
Enqueue(s) ==
    /\ At(Caller, "ready") /\ ~exiting
    /\ ToSet(s) \subseteq free /\ (auto \/ Len(s) = 1)
    /\ LateReuse \/ \A t \in Thread : item[t] \notin ToSet(s)
    /\ list' = list \o s
    /\ free' = free \ ToSet(s)
    /\ held' = IF auto THEN held ELSE held \cup ToSet(s)
    /\ done' = [i \in Item |-> done[i] /\ i \notin ToSet(s)]
    /\ batch' = Len(s)
    /\ Goto(Caller, "count")
    /\ UNCHANGED <<queue, items, event, signals, crew, item>>

\* Faulty variant: a batch counts as one item.
AddOneItem ==
    /\ At(Caller, "count")
    /\ items' = items + 1
    /\ Goto(Caller, "wake")
    /\ UNCHANGED <<queue, list, store, marks, signals, crew, batch, item>>

AddItems ==
    /\ At(Caller, "count")
    /\ items' = items + batch
    /\ Goto(Caller, "wake")
    /\ UNCHANGED <<queue, list, store, marks, signals, crew, batch, item>>

\* The first numitems workers whose event was not set already.
Woken == {w \in 1 .. threads :
            /\ ~wake[w]
            /\ Cardinality({v \in 1 .. w - 1 : ~wake[v]}) < batch}

\* Without workers the caller runs the queue itself.
WakeWorkers ==
    /\ At(Caller, "wake")
    /\ wake' = [w \in Worker |-> wake[w] \/ (live < threads /\ w \in Woken)]
    /\ batch' = 0
    /\ Goto(Caller, IF threads = 0 THEN "pull" ELSE "ready")
    /\ UNCHANGED <<queue, work, store, marks, signals, live, item>>

-----------------------------------------------------------------------------
(* worker_thread_process, by a worker, by a helping or by a lone caller.   *)

\* Where the loop returns to: a worker looks at the queue again, a caller that helps goes on waiting,
\* one that has no workers has queued its items.
AfterDrain(t) ==
    IF t # Caller THEN "recheck" ELSE IF threads = 0 THEN "ready" ELSE "lull"

Pull(t) ==
    /\ At(t, "pull")
    /\ \/ /\ list = <<>>
          /\ Goto(t, "drained")
          /\ UNCHANGED <<list, item>>
       \/ /\ list # <<>>
          /\ list' = Tail(list)
          /\ Take(t, Head(list))
          /\ Goto(t, "run")
    /\ UNCHANGED <<queue, items, store, marks, signals, crew, batch>>

\* The callback has returned: --queue->items, item->done = true.
Finish(t) ==
    /\ At(t, "run")
    /\ items' = items - 1
    /\ done' = [done EXCEPT ![item[t]] = TRUE]
    /\ Goto(t, "marked")
    /\ UNCHANGED <<queue, list, store, event, signals, crew, batch, item>>

\* An auto-release item is released, another one's event is set.
SignalItem(t) ==
    /\ At(t, "marked")
    /\ \/ /\ auto
          /\ Goto(t, "await")
          /\ UNCHANGED <<event, item>>
       \/ /\ ~auto
          /\ event' = [event EXCEPT ![item[t]] = TRUE]
          /\ Take(t, None)
          /\ Goto(t, "pull")
    /\ UNCHANGED <<queue, work, store, done, signals, crew, batch>>

\* Faulty variant: only a thread that leaves others at work tells.
DrainedQuietly(t) == Move(t, "drained", IF waiting /\ items # 0 THEN "tell" ELSE AfterDrain(t))

Drained(t) == Move(t, "drained", IF waiting THEN "tell" ELSE AfterDrain(t))

Tell(t) ==
    /\ At(t, "tell")
    /\ doneevent' = TRUE
    /\ Goto(t, AfterDrain(t))
    /\ UNCHANGED <<queue, work, store, marks, waiting, crew, batch, item>>

-----------------------------------------------------------------------------
(* worker_thread_entry.                                                    *)

\* Faulty variant: sleep without a look at the queue.
IdleUnseeing(w) == Move(w, "idle", IF exiting THEN "gone" ELSE "asleep")

\* Wait for work only if there is none in the queue, ...
Idle(w) == list = <<>> /\ Move(w, "idle", IF exiting THEN "gone" ELSE "asleep")

\* ... and be live while there is.
GoLive(w) ==
    /\ (At(w, "idle") /\ list # <<>>) \/ (At(w, "asleep") /\ wake[w])
    /\ live' = IF exiting THEN live ELSE live + 1
    /\ Goto(w, IF exiting THEN "gone" ELSE "pull")
    /\ UNCHANGED <<queue, work, store, marks, signals, wake, batch, item>>

Recheck(w) == Move(w, "recheck", IF list = <<>> THEN "rest" ELSE "pull")

ResetWake(w) ==
    /\ At(w, "rest")
    /\ wake' = [wake EXCEPT ![w] = FALSE]
    /\ Goto(w, "retire")
    /\ UNCHANGED <<queue, work, store, marks, signals, live, batch, item>>

Retire(w) ==
    /\ At(w, "retire")
    /\ live' = live - 1
    /\ Goto(w, "idle")
    /\ UNCHANGED <<queue, work, store, marks, signals, wake, batch, item>>

-----------------------------------------------------------------------------
(* osd_work_queue_wait.                                                    *)

\* A MULTI queue is helped; the return without waiting changes nothing.
QueueWait ==
    /\ ~exiting /\ threads # 0 /\ items # 0
    /\ Move(Caller, "ready", IF "MULTI" \in flags THEN "pull" ELSE "lull")

\* A MULTI, HIGH_FREQ queue spins until the counter is zero.
Spins == flags = {"MULTI", "HIGH_FREQ"}

Spin == Spins /\ items = 0 /\ Move(Caller, "lull", "ready")

ResetDone ==
    /\ At(Caller, "lull") /\ (Spins => items = 0)
    /\ doneevent' = FALSE
    /\ Goto(Caller, "announce")
    /\ UNCHANGED <<queue, work, store, marks, waiting, crew, batch, item>>

Announce ==
    /\ At(Caller, "announce")
    /\ waiting' = TRUE
    /\ Goto(Caller, "look")
    /\ UNCHANGED <<queue, work, store, marks, doneevent, crew, batch, item>>

Look == Move(Caller, "look", IF items # 0 THEN "doze" ELSE "leave")

Doze == doneevent /\ Move(Caller, "doze", "leave")

\* The caller's timeout runs out, while it waits or while it spins.
TimeOut ==
    \/ Move(Caller, "doze", "leave")
    \/ Spins /\ Move(Caller, "lull", "ready")
    \/ item[Caller] \in held /\ Move(Caller, "block", "dispose")

Leave ==
    /\ At(Caller, "leave")
    /\ waiting' = FALSE
    /\ Goto(Caller, "ready")
    /\ UNCHANGED <<queue, work, store, marks, doneevent, crew, batch, item>>

-----------------------------------------------------------------------------
(* osd_work_item_wait, and osd_work_item_release, which is a wait and a    *)
(* push on the free list.  Its timeout of 100 seconds never runs out here. *)

\* The caller goes on holding an item that it only waits for.
ItemWait(i) ==
    /\ i \in held
    /\ At(Caller, "ready") /\ Goto(Caller, "await") /\ Take(Caller, i)
    /\ UNCHANGED <<queue, work, store, marks, signals, crew, batch>>

Release(i) ==
    /\ At(Caller, "ready") /\ i \in held
    /\ held' = held \ {i}
    /\ Take(Caller, i)
    /\ Goto(Caller, "await")
    /\ UNCHANGED <<queue, work, free, marks, signals, crew, batch>>

Await(t) == Move(t, "await", IF done[item[t]] THEN "dispose" ELSE "arm")

\* Faulty variant: the event of an item's last use is not reset.
ArmOld(t) == Move(t, "arm", "check")

\* A new event is not signalled, an old one is reset.
Arm(t) ==
    /\ At(t, "arm")
    /\ event' = [event EXCEPT ![item[t]] = FALSE]
    /\ Goto(t, "check")
    /\ UNCHANGED <<queue, work, store, done, signals, crew, batch, item>>

\* Faulty variant: block without a second look at done.
CheckUnseeing(t) == Move(t, "check", "block")

Check(t) == Move(t, "check", IF done[item[t]] THEN "dispose" ELSE "block")

Unblock(t) == At(t, "block") /\ event[item[t]] /\ Move(t, "block", "dispose")

\* A wait for an item is over.
ItemDone ==
    /\ At(Caller, "dispose") /\ item[Caller] \in held
    /\ Goto(Caller, "ready") /\ Take(Caller, None)
    /\ UNCHANGED <<queue, work, store, marks, signals, crew, batch>>

Dispose(t) ==
    /\ At(t, "dispose") /\ item[t] \notin held
    /\ free' = free \cup {item[t]}
    /\ Take(t, None)
    /\ Goto(t, IF auto \/ t # Caller THEN "pull" ELSE "ready")
    /\ UNCHANGED <<queue, work, held, marks, signals, crew, batch>>

-----------------------------------------------------------------------------
(* osd_work_queue_free: tell the workers to exit, wake and join them.      *)

Free ==
    /\ At(Caller, "ready") /\ ~exiting
    /\ exiting' = TRUE
    /\ wake' = [w \in Worker |-> wake[w] \/ w <= threads]
    /\ Goto(Caller, "join")
    /\ UNCHANGED <<threads, flags, auto, work, store, marks, signals, live, batch, item>>

Join == (\A w \in Worker : At(w, "gone")) /\ Move(Caller, "join", "gone")

-----------------------------------------------------------------------------
Process(t) ==
    \/ Pull(t) \/ Finish(t) \/ SignalItem(t) \/ Drained(t) \/ Tell(t)
    \/ Await(t) \/ Arm(t) \/ Check(t) \/ Unblock(t) \/ Dispose(t)

WorkerStep(w) ==
    \/ Process(w)
    \/ Idle(w) \/ GoLive(w) \/ Recheck(w) \/ ResetWake(w) \/ Retire(w)

\* What the caller asks for, and its way through a call.
Batches == {s \in SeqOf(Item, MaxBatch) : s # <<>> /\ IsInjective(s)}

Call ==
    \/ \E s \in Batches : Enqueue(s)
    \/ QueueWait
    \/ \E i \in Item : ItemWait(i) \/ Release(i)
    \/ Free

CallerStep ==
    \/ Process(Caller)
    \/ AddItems \/ WakeWorkers
    \/ Spin \/ ResetDone \/ Announce \/ Look \/ Doze \/ Leave
    \/ ItemDone \/ Join

Next == Call \/ CallerStep \/ TimeOut \/ \E w \in Worker : WorkerStep(w)

\* Every thread runs; nothing makes the caller call.
Fairness == WF_vars(CallerStep) /\ \A w \in Worker : WF_vars(WorkerStep(w))

Spec == Init /\ [][Next]_vars /\ Fairness

-----------------------------------------------------------------------------
(* Properties.                                                             *)

Places == {"ready", "count", "wake", "pull", "run", "marked", "drained",
           "tell", "await", "arm", "check", "block", "dispose", "lull", "announce",
           "look", "doze", "leave", "join", "gone", "idle", "asleep",
           "recheck", "rest", "retire"}

\* Every variable has its type.
TypeOK ==
    /\ threads \in 0 .. MaxThreads /\ flags \subseteq {"MULTI", "HIGH_FREQ"}
    /\ exiting \in BOOLEAN
    /\ list \in Seq(Item) /\ items \in Int
    /\ free \subseteq Item /\ held \subseteq Item
    /\ done \in [Item -> BOOLEAN] /\ auto \in BOOLEAN
    /\ event \in [Item -> BOOLEAN]
    /\ waiting \in BOOLEAN /\ doneevent \in BOOLEAN
    /\ live \in Int /\ wake \in [Worker -> BOOLEAN]
    /\ batch \in Nat
    /\ pc \in [Thread -> Places] /\ item \in [Thread -> Item \cup {None}]

Running(i) == \E t \in Thread : item[t] = i /\ At(t, "run")

\* queue->items counts the items that are listed or running, except for the
\* batch that is listed already and about to be counted: a caller that sees
\* zero in osd_work_queue_wait has nothing left to wait for.
CountsAddUp ==
    items + (IF At(Caller, "count") THEN batch ELSE 0)
        = Len(list) + Cardinality({t \in Thread : At(t, "run")})

\* The refinement: how far each item is.
StageOf(i) ==
    IF i \in ToSet(list) THEN "queued"
    ELSE IF Running(i) THEN "running"
    ELSE IF i \in free THEN "free" ELSE "done"

Stage == [i \in Item |-> StageOf(i)]

Pool == INSTANCE WorkPool WITH stage <- Stage

\* The queue with its threads keeps what osdcore.h promises: an item is run
\* once by one thread, and is free again only when it is done.
PoolSpec == Pool!PoolSpec

\* Places of worker_thread_process from which a thread comes to the list once more.
Serving == {"pull", "run", "marked", "await", "arm", "check", "block", "dispose"}

\* This worker will look at the list without anybody's signal.
WillLook(w) == ~At(w, "gone") /\ (At(w, "asleep") => wake[w])

\* While there is something on the list, somebody is about to look there.
WorkIsSeen ==
    list # <<>> /\ ~exiting =>
        \/ pc[Caller] \in {"count", "wake"}
        \/ IF threads = 0 THEN pc[Caller] \in Serving ELSE \E w \in 1 .. threads : WillLook(w)

\* A caller asleep in osd_work_queue_wait has been told, or a worker is on
\* the way to tell it, or there is work that brings one there.
WaitIsAnswered ==
    At(Caller, "doze") /\ ~doneevent =>
        /\ waiting
        /\ list # <<>> \/ \E w \in Worker : pc[w] \in Serving \cup {"drained", "tell"}

\* The item a caller is blocked on is signalled, listed, or with a worker
\* that has yet to signal it.
ItemIsAnswered ==
    At(Caller, "block") /\ ~event[item[Caller]] =>
        \/ item[Caller] \in ToSet(list)
        \/ \E w \in Worker : item[w] = item[Caller] /\ pc[w] \in {"run", "marked"}

\* No worker sleeps through osd_work_queue_free.
ExitIsSeen == At(Caller, "join") => \A w \in Worker : At(w, "asleep") => wake[w]

\* No signal is lost: what a sleeping thread waits for has been signalled,
\* or somebody who does not sleep is on the way to signal it.
NoSignalLost == WorkIsSeen /\ WaitIsAnswered /\ ItemIsAnswered /\ ExitIsSeen

\* No wake-up is lost: a listed item is run unless the queue is being freed.
ItemsRun == \A i \in Item : i \in ToSet(list) ~> (i \notin ToSet(list) \/ exiting)

\* Every call returns, also without its timeout: waiting for the queue, for
\* an item, and for the workers to exit.
CallsReturn == ~At(Caller, "ready") ~> pc[Caller] \in {"ready", "gone"}
=============================================================================
