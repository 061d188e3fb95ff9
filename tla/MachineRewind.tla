--------------------------- MODULE MachineRewind ---------------------------
(***************************************************************************)
(* The machine with rewind states (rewinder in src/emu/save.cpp, of which  *)
(* one state is kept here), captured and loaded by the debugger in the     *)
(* middle of a slice.                                                      *)
(***************************************************************************)
EXTENDS Machine

VARIABLE shot   \* the rewind state

rvars == <<vars, shot>>

RInit == Init /\ shot = None

\* rewind_capture: nobody asks can_save, ...
RewindCapture ==
    /\ CanCall
    /\ shot' = Snapshot
    /\ UNCHANGED <<lineVars, paused, leaving, request, anon, softReset, file, torn>>

\* ... and neither does rewind_step.
RewindStep ==
    /\ CanCall /\ shot # None
    /\ Restore(shot)
    /\ UNCHANGED <<paused, leaving, request, file, shot>>

RNext == (Next /\ UNCHANGED shot) \/ RewindCapture \/ RewindStep
RSpec == RInit /\ [][RNext]_rvars
=============================================================================
