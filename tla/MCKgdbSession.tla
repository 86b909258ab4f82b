--------------------------- MODULE MCKgdbSession ---------------------------
(* KgdbSession with the documented orders of a break-in. *)
EXTENDS KgdbSession

(* The validated manual order and a debug entry: the owner first. *)
OwnerFirst == {<<"gdb", "sysrq">>, <<"entry", "sysrq">>}
===========================================================================
