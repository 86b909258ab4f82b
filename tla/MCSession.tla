----------------------------- MODULE MCSession -----------------------------
(* Session with two locations, two runs of gdbforge and two windows.       *)
EXTENDS Session
===========================================================================
