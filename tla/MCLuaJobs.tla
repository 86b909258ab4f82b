------------------------------ MODULE MCLuaJobs ------------------------------
(* LuaJobs on a small instance. *)
EXTENDS LuaJobs
===========================================================================
