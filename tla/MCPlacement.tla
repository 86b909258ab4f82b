---------------------------- MODULE MCPlacement ----------------------------
(* Placement on a small workspace.                                          *)
EXTENDS Placement
=============================================================================
