-------------------------- MODULE MCAssemblyPane --------------------------
(* A memory of two-byte instructions: two functions of three of them, and
   code without a symbol between them and below. *)
EXTENDS AssemblyPane

CONSTANTS f, g, LastInsn

MCCode     == [i \in 1 .. LastInsn + 1 |-> 2 * (i - 1)]
MCReadable == 0 .. 2 * LastInsn + 1
MCFuncOf   == [a \in Insns |-> IF a \in {4, 6, 8} THEN f ELSE IF a > 38 THEN g ELSE NoFunc]
MCSrcOf    == [a \in StopAddrs |-> a = 6]
===========================================================================
