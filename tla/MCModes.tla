------------------------------ MODULE MCModes ------------------------------
(* Every key, click, script call and posted answer of the cmdline, in any  *)
(* order, for as long as the user likes.                                   *)
EXTENDS Modes
=============================================================================
