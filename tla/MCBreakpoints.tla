--------------------------- MODULE MCBreakpoints ---------------------------
(* Breakpoints with two source lines, one of which has a known address. *)
EXTENDS Breakpoints, TLC

CONSTANTS a, b, x

MCBase   == (a :> 1) @@ (b :> 2)
MCAddrOf == (a :> x) @@ (b :> NoAddr)
===========================================================================
