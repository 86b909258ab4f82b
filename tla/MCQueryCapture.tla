--------------------------- MODULE MCQueryCapture ---------------------------
(* QueryCapture for the model checker. *)
EXTENDS QueryCapture
===========================================================================
