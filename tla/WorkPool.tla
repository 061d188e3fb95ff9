------------------------------- MODULE WorkPool -------------------------------
(***************************************************************************)
(* What a work queue (osd/osdcore.h) promises to the threads that use it:  *)
(* a queued item is run once, in no particular order, is then done, and    *)
(* only a done item goes back to the free items.                           *)
(***************************************************************************)
CONSTANT Item          \* osd_work_item objects
VARIABLE stage         \* how far each one is

Stages == {"free", "queued", "running", "done"}

PoolInit == stage = [i \in Item |-> "free"]

Move(S, from, to) ==
    /\ \A i \in S : stage[i] = from
    /\ stage' = [i \in Item |-> IF i \in S THEN to ELSE stage[i]]

\* osd_work_item_queue_multiple
Queue(S) == Move(S, "free", "queued")
\* A thread takes the item off the list, and its callback returns.
Start(i) == Move({i}, "queued", "running")
Finish(i) == Move({i}, "running", "done")
\* osd_work_item_release, by the queuer or by the worker
Release(i) == Move({i}, "done", "free")

PoolNext ==
    \/ \E S \in SUBSET Item : Queue(S)
    \/ \E i \in Item : Start(i) \/ Finish(i) \/ Release(i)

PoolSpec == PoolInit /\ [][PoolNext]_stage
=============================================================================
