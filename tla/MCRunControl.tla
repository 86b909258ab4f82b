---------------------------- MODULE MCRunControl ----------------------------
(* RunControl for the model checker. *)
EXTENDS RunControl
===========================================================================
