----------------------------- MODULE MCRewinder -----------------------------
(* Model checking instances of Rewinder: room for a little more than three   *)
(* states, or for any number of them.                                        *)
EXTENDS Rewinder
=============================================================================
