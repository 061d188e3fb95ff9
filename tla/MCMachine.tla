----------------------------- MODULE MCMachine -----------------------------
(* Model checking instances of Machine: one line with a queue of two events, *)
(* so that its third change may overflow the queue.                          *)
EXTENDS Machine
=============================================================================
