---------------------------- MODULE MCDelveResume ----------------------------
(* DelveResume for the model checker. *)
EXTENDS DelveResume
===========================================================================
