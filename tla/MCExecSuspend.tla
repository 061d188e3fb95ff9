--------------------------- MODULE MCExecSuspend ---------------------------
(* Model checking instances of ExecSuspend: two devices, one of which may be *)
(* configured as disabled, and up to MaxCalls requests.                      *)
EXTENDS ExecSuspend
MCDev == 1 .. 2
=============================================================================
