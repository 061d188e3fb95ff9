---------------------------- MODULE MCScheduler ----------------------------
(* Model checking instances of Scheduler: two devices whose cycles take two *)
(* and three time units, a permanent and a temporary timer.                 *)
EXTENDS Scheduler
MCCpu == 1 .. 2
MCCyclePeriod == <<2, 3>>
=============================================================================
