--------------------------- MODULE MCStopNavigation -------------------------
(* StopNavigation for the model checker. *)
EXTENDS StopNavigation
===========================================================================
