----------------------------- MODULE RunControl -----------------------------
(***************************************************************************)
(* Run control over GDB's MI channel: gdb/send.go (SendCmd), the keys that *)
(* resume or stop the program, and what the UI concludes from the records  *)
(* that come back (gdb/mi_state.go, app/gdb_console.go, app/stopped.go).   *)
(*                                                                         *)
(* Three parties: the UI thread, which sends commands and handles batches  *)
(* of records; GDB, which reads commands in order; and the program, which  *)
(* stops or exits when it likes.  The UI's only knowledge of the program   *)
(* is the flag InferiorRunning and the tokens for stops it must not show.  *)
(*                                                                         *)
(* In a calm behaviour each of them waits for the others; otherwise        *)
(* records are cut anywhere and everybody acts in between.  Commands that  *)
(* a user types at GDB's own prompt are not here, nor kgdb mode.           *)
(***************************************************************************)
EXTENDS Naturals, Sequences, FiniteSetsExt

CONSTANTS
    MaxUser,    \* bound: commands of the user
    MaxEvents,  \* bound: breakpoints hit, exits
    MaxQueries, \* bound: queries of the background refreshes
    Cuts        \* whether a batch may end between ^running and its prompt,
                \* or tell of two stops

ASSUME RunControlAssumption ==
    {MaxUser, MaxEvents, MaxQueries} \subseteq Nat /\ Cuts \in BOOLEAN

VARIABLES
    target,     \* the program: "none", "running", "stopping" or "stopped"
    cmds,       \* the MI PTY: commands GDB has not read
    out,        \* GDB's records the UI thread has not handled
    running,    \* State.inferiorRunning
    suppress,   \* State.stopUISuppress
    continueAfterClear, \* State.continueAfterClear
    painted,    \* the last stop the UI was told of is the one it shows
    wanted,     \* auxiliary: the user asked a running program to stop
    calm,       \* auxiliary: nobody is ahead of the others
    spent       \* how much of each bound is used

ui      == <<running, suppress, painted>>
channel == <<cmds, out>>
rest    == <<continueAfterClear, calm>>
vars    == <<target, channel, ui, wanted, rest, spent>>

Commands == {"exec", "continue", "interrupt", "insert", "remove", "select", "query"}
Stops    == {"hit", "halt", "exited"}
Records  == Stops \cup {"running", "prompt", "done"}

TypeOK ==
    /\ target \in {"none", "running", "stopping", "stopped"}
    /\ cmds \in Seq(Commands) /\ out \in Seq(Records)
    /\ running \in BOOLEAN /\ suppress \in Nat /\ painted \in BOOLEAN
    /\ continueAfterClear \in BOOLEAN /\ wanted \in BOOLEAN /\ calm \in BOOLEAN
    /\ spent \in [user: 0 .. MaxUser, event: 0 .. MaxEvents, query: 0 .. MaxQueries]

Init ==
    /\ target = "none" /\ cmds = <<>> /\ out = <<>>
    /\ running = FALSE /\ suppress = 0 /\ painted = FALSE
    /\ wanted = FALSE
    /\ continueAfterClear \in BOOLEAN /\ calm \in BOOLEAN
    /\ spent = [user |-> 0, event |-> 0, query |-> 0]

Spend(k, bound) == spent[k] < bound /\ spent' = [spent EXCEPT ![k] = @ + 1]

Quiet == cmds = <<>> /\ out = <<>> /\ target # "stopping"
---------------------------------------------------------------------------
(* The UI thread sends *)

User == Spend("user", MaxUser) /\ (calm => Quiet)

(* execUI: n, s, c and the like.  The flag is set before GDB has agreed. *)
ExecUI ==
    /\ User /\ (calm => ~running)
    /\ running' = TRUE
    /\ cmds' = Append(cmds, "exec")
    /\ UNCHANGED <<target, out, suppress, painted, wanted, rest>>

willResume(cmd) == running /\ (cmd = "insert" \/ (cmd = "remove" /\ continueAfterClear))

(* A mutation: the stop of every interrupt is not to be shown. *)
SendCmd_ArmsAlways(cmd) ==
    /\ User
    /\ cmds' = cmds \o (IF running THEN <<"interrupt", cmd>> ELSE <<cmd>>)
                    \o (IF willResume(cmd) THEN <<"continue">> ELSE <<>>)
    /\ suppress' = IF running THEN suppress + 1 ELSE suppress
    /\ UNCHANGED <<target, out, running, painted, wanted, rest>>

(* A break, a clear, or a frame or thread selection.  A running program is *)
(* interrupted for it, and resumed after a break.  The write lock is held  *)
(* throughout, so the commands are adjacent.                               *)
SendCmd(cmd) ==
    /\ User
    /\ cmds' = cmds \o (IF running THEN <<"interrupt", cmd>> ELSE <<cmd>>)
                    \o (IF willResume(cmd) THEN <<"continue">> ELSE <<>>)
    /\ suppress' = IF willResume(cmd) THEN suppress + 1 ELSE suppress
    /\ UNCHANGED <<target, out, running, painted, wanted, rest>>

(* Ctrl-C: to the program if it runs, else GDB's prompt says "Quit". *)
Interrupt ==
    /\ User
    /\ cmds' = IF running THEN Append(cmds, "interrupt") ELSE cmds
    /\ wanted' = (target = "running")
    /\ UNCHANGED <<target, out, ui, rest>>

(* Ctrl-Z: SIGTSTP to the program, past GDB, which sees it stop. *)
SuspendInferior ==
    /\ User /\ running
    /\ IF target = "running" THEN target' = "stopped" /\ out' = Append(out, "hit")
                             ELSE UNCHANGED <<target, out>>
    /\ wanted' = FALSE
    /\ UNCHANGED <<cmds, ui, rest>>

(* A refresh goroutine or a tool queries, under the same write lock. *)
Query ==
    /\ Spend("query", MaxQueries)
    /\ calm => Quiet /\ ~running
    /\ cmds' = Append(cmds, "query")
    /\ UNCHANGED <<target, out, ui, wanted, rest>>
---------------------------------------------------------------------------
(* GDB, with mi-async on, and the program *)

Resumes(cmd) == \/ cmd = "exec" /\ target \in {"none", "stopped"}
                \/ cmd = "continue" /\ target = "stopped"

(* GDB reads a command.  "done" is any result and its prompt, an error's   *)
(* too; the result of a resume and its prompt may come apart.  In a calm   *)
(* behaviour interruptSettle is enough for the program to stop.            *)
GdbReads ==
    /\ cmds # <<>> /\ (calm => target # "stopping")
    /\ cmds' = Tail(cmds)
    /\ LET cmd == Head(cmds) IN
         IF Resumes(cmd)
         THEN target' = "running" /\ out' = out \o <<"running", "prompt">>
         ELSE /\ target' = IF cmd = "interrupt" /\ target = "running" THEN "stopping" ELSE target
              /\ out' = Append(out, "done")
    /\ UNCHANGED <<ui, wanted, rest, spent>>

Halts ==
    /\ target = "stopping" /\ target' = "stopped"
    /\ out' = Append(out, "halt") /\ wanted' = FALSE
    /\ UNCHANGED <<cmds, ui, rest, spent>>

(* The program stops of itself: a breakpoint, the end of a step. *)
Hits ==
    /\ Spend("event", MaxEvents)
    /\ target \in {"running", "stopping"} /\ target' = "stopped"
    /\ out' = Append(out, "hit") /\ wanted' = FALSE
    /\ UNCHANGED <<cmds, ui, rest>>

Exits ==
    /\ Spend("event", MaxEvents)
    /\ target \in {"running", "stopping"} /\ (calm => cmds = <<>>)
    /\ target' = "none"
    /\ out' = Append(out, "exited") /\ wanted' = FALSE
    /\ UNCHANGED <<cmds, ui, rest>>
---------------------------------------------------------------------------
(* The UI thread handles a batch of records as one update: MiUpdate keeps  *)
(* the last stop and the last state of the batch.                          *)

LastOf(batch, kinds) ==
    LET at == {i \in DOMAIN batch : batch[i] \in kinds}
    IN  IF at = {} THEN "none" ELSE batch[Max(at)]

(* A mutation: a stop does not clear a ^running before it. *)
stateOf_StopsIgnored(batch) == LastOf(batch, {"running", "done"})

stateOf(batch) == LastOf(batch, {"running", "done"} \cup Stops)

promptReady(batch) == \E i \in DOMAIN batch : batch[i] \in {"prompt", "done"}

(* A mutation: a stop of the batch wins over a ^running after it. *)
runningAfter_StopWins(batch) ==
    /\ LastOf(batch, Stops) = "none"
    /\ stateOf(batch) = "running" \/ (running /\ ~promptReady(batch))

(* applyStopAndPromptSideEffects: ^running sets the flag, else a stop and  *)
(* a prompt clear it.                                                      *)
runningAfter(batch) ==
    \/ stateOf(batch) = "running"
    \/ running /\ LastOf(batch, Stops) = "none" /\ ~promptReady(batch)

(* onGdbStopped: an exit is shown at once; a token hides another stop. *)
Handle(batch) ==
    LET stop  == LastOf(batch, Stops)
        eaten == stop \in {"hit", "halt"} /\ suppress > 0
    IN  /\ running' = runningAfter(batch)
        /\ suppress' = IF eaten THEN suppress - 1 ELSE suppress
        /\ painted' = IF stop = "none" THEN painted ELSE stop # "exited" /\ ~eaten

(* In a calm behaviour a batch has one stop at most, and ^running comes    *)
(* with its prompt.                                                        *)
Whole(batch) ==
    /\ Cardinality({i \in DOMAIN batch : batch[i] \in Stops}) <= 1
    /\ batch[Len(batch)] # "running"

HandleBatch(n) ==
    LET batch == SubSeq(out, 1, n) IN
    /\ calm \/ ~Cuts => Whole(batch)
    /\ Handle(batch)
    /\ out' = SubSeq(out, n + 1, Len(out))
    /\ UNCHANGED <<target, cmds, wanted, rest, spent>>
---------------------------------------------------------------------------
UIThread == \E n \in 1 .. Len(out) : HandleBatch(n)

Keys ==
    \/ ExecUI \/ Interrupt \/ SuspendInferior
    \/ \E cmd \in {"insert", "remove", "select"} : SendCmd(cmd)

Next == Keys \/ Query \/ GdbReads \/ Halts \/ Hits \/ Exits \/ UIThread

Spec == Init /\ [][Next]_vars

(* GDB reads, a program asked to stop stops, the event loop runs. *)
FairSpec == Spec /\ WF_vars(GdbReads) /\ WF_vars(Halts) /\ WF_vars(UIThread)
---------------------------------------------------------------------------
(* Properties *)

(* The UI never ends up believing that a stopped or dead program runs,     *)
(* however records are cut and commands overtake them: Ctrl-Z would signal *)
(* nothing, and a break would resume the program (gdb_console.go:444).     *)
RunningHasCause == Quiet /\ running => target = "running"

(* "InferiorRunning tracks ^running -> *stopped"                           *)
(* (DEBUGGER_INTEGRATION.md:432).                                          *)
FlagFollowsTarget == Quiet => (running <=> target = "running")

(* ... which it does if nobody is ahead of the others, through the stop    *)
(* and resume of each break that is set while the program runs.            *)
FlagFollowsTargetWhenCalm == calm => FlagFollowsTarget

(* A program that has come to rest at a stop is shown there: the tokens    *)
(* hide the stops of SendCmd and no other.                                 *)
StopIsShown == calm /\ Quiet /\ target = "stopped" => painted

(* Ctrl-C stops a running program. *)
InterruptStops == calm /\ wanted ~> ~wanted

===========================================================================
