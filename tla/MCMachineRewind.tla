-------------------------- MODULE MCMachineRewind --------------------------
(* The instance of MCMachine with a rewind state. *)
EXTENDS MachineRewind
=============================================================================
