----------------------------- MODULE MCWorkQueue -----------------------------
(* A queue without workers; the CHD compressor's read queue; one that spins;  *)
(* and queues as the compressor's work queue, with two workers or with items   *)
(* that the caller waits for and releases.                                     *)
EXTENDS WorkQueue
MCQueues == {[threads |-> 0, flags |-> {}, auto |-> TRUE],
             [threads |-> 1, flags |-> {}, auto |-> TRUE],
             [threads |-> 1, flags |-> {"MULTI", "HIGH_FREQ"}, auto |-> TRUE],
             [threads |-> 2, flags |-> {"MULTI"}, auto |-> TRUE],
             [threads |-> 1, flags |-> {"MULTI"}, auto |-> FALSE]}
=============================================================================
