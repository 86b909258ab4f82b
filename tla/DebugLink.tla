----------------------------- MODULE DebugLink -----------------------------
(***************************************************************************)
(* What a debugger expects of the line to its target: a stop of the target *)
(* reaches it, a continue of its own reaches the target, nothing is lost   *)
(* and neither acts twice on one message.                                  *)
(***************************************************************************)

VARIABLES
    target,     \* "running", or "stopped"
    debugger,   \* "waiting" for a stop, or at its "prompt"
    message     \* what is on the line: "stop", "continue" or "none"

linkvars == <<target, debugger, message>>

LinkInit == target = "running" /\ debugger = "waiting" /\ message = "none"

Stop ==
    /\ target = "running" /\ message = "none"
    /\ target' = "stopped" /\ message' = "stop"
    /\ UNCHANGED debugger

Notice ==
    /\ message = "stop" /\ debugger = "waiting"
    /\ message' = "none" /\ debugger' = "prompt"
    /\ UNCHANGED target

Continue ==
    /\ debugger = "prompt" /\ message = "none"
    /\ debugger' = "waiting" /\ message' = "continue"
    /\ UNCHANGED target

Resume ==
    /\ message = "continue"
    /\ target' = "running" /\ message' = "none"
    /\ UNCHANGED debugger

LinkNext == Stop \/ Notice \/ Continue \/ Resume

LinkSpec ==
    /\ LinkInit /\ [][LinkNext]_linkvars
    /\ WF_linkvars(Notice) /\ WF_linkvars(Resume)
===========================================================================
