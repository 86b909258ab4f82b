---------------------------- MODULE DelveResume ----------------------------
(***************************************************************************)
(* Running a program under Delve: backend/dlv_rpc.go and dlv_backend.go,   *)
(* dlv/input_state.go, dlv/confirm.go and the parts of app/ that feed them.*)
(*                                                                         *)
(* A headless server (external) owns the program.  It has two clients: the *)
(* RPC connection, on which keys resume the program from a goroutine, and  *)
(* the command line of `dlv connect` (external), where the user types.     *)
(* While the program runs the server answers nothing but GetState and      *)
(* Halt: a second resume, or a breakpoint, waits for the next stop         *)
(* (dlv_rpc.go:27, :212).  Both clients' texts reach one parser on the UI  *)
(* thread: the command line's through a coalescer, the goroutine's         *)
(* directly (OnStopText).                                                  *)
(*                                                                         *)
(* There is one location to break at; `bound' says whether Delve finds     *)
(* code there.  If not, its command line asks whether to suspend the       *)
(* breakpoint, [Y/n].  A user who is not hasty waits for the screen        *)
(* for a running program before he resumes it, types a line or sets a      *)
(* breakpoint, and resumes nothing while a question is open.               *)
(***************************************************************************)
EXTENDS Naturals, SequencesExt

CONSTANTS
    MaxActs,   \* bound: what the user does
    MaxHasty,  \* bound: what of it is hasty
    MaxStops   \* bound: stops and exits

ASSUME DelveResumeAssumption == {MaxActs, MaxHasty, MaxStops} \subseteq Nat

VARIABLES
    target,     \* the program: "stopped", "running" or "exited"
    runner,     \* whose resume runs it: "job" or "cli"
    waiting,    \* resumes the server has not served
    stops,      \* how often the program stopped or exited
    bps,        \* the server has the breakpoint
    halts,      \* Halt calls under way
    job,        \* the goroutine of runRPCExec: its progress, command and text
    resuming,   \* DLVBackend.resuming
    cli,        \* the command line: "prompt", "inServer" or "asking"
    cliIn,      \* lines typed that it has not read
    cliOut,     \* what it printed that the coalescer still holds
    halfTyped,  \* the user has typed part of a line
    uiq,        \* messages posted to the UI thread
    lineBuf,    \* InputState.lineBuf: "none", or "text" of an unfinished line
    ui,         \* "free", or waiting for the server to take a breakpoint
    running,    \* State.inferiorRunning
    suppress,   \* State.stopUISuppress
    navs,       \* dlvCtl.suppressStopUI
    confirming, \* ConfirmGate.confirming
    bpDeferred, \* dlvCtl.bpDeferred
    refresh,    \* a coalesced refresh is to run
    afterStop,  \* refreshAfterStop is to run
    list,       \* the breakpoint as the panes show it
    shown,      \* the last stop the panes were told of
    lost,       \* auxiliary: the last end of a run left no readable text
    bound,      \* Delve finds code at the location
    spent,      \* what the user did
    hasty       \* and how much of it without waiting

server == <<target, runner, waiting, stops, bps>>
client == <<job, resuming>>
term   == <<cli, cliIn, halfTyped>>
texts  == <<cliOut, uiq>>
gate   == <<lineBuf, confirming>>
breaks == <<bpDeferred, refresh, afterStop, list>>
pane   == <<running, suppress, navs, shown>>
rest   == <<bound, spent, hasty>>
dlvVars   == <<server, halts, client, term, texts, gate, ui, breaks, pane, lost, rest>>

Commands == {"continue", "restart"}
Lines    == {"continue", "repeat", "break", "clear", "up", "y", "n"}
Items    == {"stop", "exit", "failed", "bpset", "line", "prompt", "ask", "echo", "nl"}

Item(kind) == [k |-> kind, n |-> 0]
Text       == [k : Items, n : 0 .. MaxStops + 1]
Frame      == MaxStops + 1  \* not a stop: up, down and frame print the banner again
NoJob      == [pc |-> "none", cmd |-> "continue", ans |-> <<>>]

DlvTypeOK ==
    /\ target \in {"stopped", "running", "exited"} /\ runner \in {"job", "cli"}
    /\ waiting \in Seq({"job", "cli"}) /\ stops \in 0 .. MaxStops
    /\ bps \in BOOLEAN /\ halts \in Nat
    /\ job.pc \in {"none", "sent", "answered", "posted"} /\ job.cmd \in Commands
    /\ job.ans \in Seq(Text) /\ resuming \in BOOLEAN
    /\ cli \in {"prompt", "inServer", "asking"} /\ cliIn \in Seq(Lines)
    /\ cliOut \in Seq(Text) /\ uiq \in Seq(Seq(Text))
    /\ lineBuf \in {"none", "text"} /\ ui \in {"free", "insert", "clear"}
    /\ {running, confirming, bpDeferred, refresh, afterStop, list, lost, bound,
        halfTyped} \subseteq BOOLEAN
    /\ suppress \in Nat /\ navs \in Nat /\ shown \in 0 .. MaxStops
    /\ spent \in 0 .. MaxActs /\ hasty \in 0 .. MaxHasty

DlvInit ==
    /\ target = "stopped" /\ runner = "job" /\ waiting = <<>> /\ stops = 0
    /\ bps = FALSE /\ halts = 0 /\ job = NoJob /\ resuming = FALSE
    /\ cli = "prompt" /\ cliIn = <<>> /\ cliOut = <<>> /\ uiq = <<>>
    /\ lineBuf = "none" /\ ui = "free" /\ running = FALSE
    /\ suppress = 0 /\ navs = 0
    /\ confirming = FALSE /\ bpDeferred = FALSE /\ refresh = FALSE
    /\ afterStop = FALSE /\ list = FALSE /\ shown = 0 /\ lost = FALSE
    /\ halfTyped = FALSE /\ bound \in BOOLEAN /\ hasty = 0
    /\ spent = 0

(* Nothing is on its way to the screen. *)
AllRead ==
    /\ cliIn = <<>> /\ cliOut = <<>> /\ uiq = <<>> /\ halts = 0
    /\ job.pc \in {"none", "sent"} /\ ~refresh /\ ~afterStop
    /\ target # "running" => job.pc = "none" /\ waiting = <<>>

(* The user acts on the UI thread, when that is free. *)
Acts(waited) ==
    /\ ui = "free" /\ spent < MaxActs /\ spent' = spent + 1
    /\ hasty' = IF AllRead /\ waited THEN hasty ELSE hasty + 1
    /\ hasty' <= MaxHasty /\ UNCHANGED bound

User    == Acts(TRUE)
AtRest  == Acts(target # "running")
Resumes == Acts(target # "running" /\ cli # "asking")
---------------------------------------------------------------------------
(* Run keys: execViaRPC and runRPCExec *)

(* A mutation: no test of `resuming'. *)
Exec_Queues(cmd) ==
    /\ Resumes
    /\ resuming' = TRUE /\ running' = TRUE
    /\ job' = [pc |-> "sent", cmd |-> cmd, ans |-> <<>>]
    /\ waiting' = Append(waiting, "job")
    /\ UNCHANGED <<target, runner, stops, bps, halts, term, texts, gate, ui, breaks>>
    /\ UNCHANGED <<suppress, navs, shown, lost>>

(* n, s, c and the like.  A second resume while one is in flight is        *)
(* dropped.                                                                *)
Exec(cmd) ==
    /\ Resumes
    /\ IF resuming
       THEN UNCHANGED <<resuming, running, job, waiting>>
       ELSE /\ resuming' = TRUE /\ running' = TRUE
            /\ job' = [pc |-> "sent", cmd |-> cmd, ans |-> <<>>]
            /\ waiting' = Append(waiting, "job")
    /\ UNCHANGED <<target, runner, stops, bps, halts, term, texts, gate, ui, breaks>>
    /\ UNCHANGED <<suppress, navs, shown, lost>>

(* noteStop: the stop in the words of Delve's banner, then its prompt.  A  *)
(* stop without a file says nothing, nor does restart.                     *)
NoteStop ==
    /\ job.pc = "answered"
    /\ uiq' = IF job.ans = <<>> THEN uiq ELSE Append(uiq, Append(job.ans, Item("line")))
    /\ job' = [job EXCEPT !.pc = "posted"]
    /\ UNCHANGED <<server, halts, resuming, term, cliOut, gate, ui, breaks, pane, lost, rest>>

(* The deferred done(). *)
Done ==
    /\ job.pc = "posted"
    /\ job' = NoJob /\ resuming' = FALSE
    /\ UNCHANGED <<server, halts, term, texts, gate, ui, breaks, pane, lost, rest>>
---------------------------------------------------------------------------
(* The server and the program (external) *)

(* A resume ended: its client learns how. *)
Answer(client_, items) ==
    IF client_ = "job"
    THEN /\ job' = [job EXCEPT !.pc = "answered", !.ans = items]
         /\ UNCHANGED <<cli, cliOut>>
    ELSE /\ cliOut' = cliOut \o items \o <<Item("prompt")>> /\ cli' = "prompt"
         /\ UNCHANGED job

ServeResume ==
    /\ waiting # <<>> /\ target # "running"
    /\ waiting' = Tail(waiting)
    /\ IF Head(waiting) = "job" /\ job.cmd = "restart"
       THEN /\ target' = "stopped" /\ lost' = TRUE /\ Answer("job", <<>>)
            /\ UNCHANGED runner
       ELSE IF target = "exited"
       THEN /\ Answer(Head(waiting), <<Item("failed")>>)
            /\ lost' = TRUE /\ UNCHANGED <<target, runner>>
       ELSE /\ target' = "running" /\ runner' = Head(waiting)
            /\ UNCHANGED <<job, cli, cliOut, lost>>
    /\ UNCHANGED <<stops, bps, halts, resuming, cliIn, halfTyped, uiq, gate, ui, breaks, pane, rest>>

(* At a breakpoint, somewhere without a file, or at its end. *)
Stops ==
    /\ target = "running" /\ stops < MaxStops
    /\ stops' = stops + 1
    /\ \E how \in {"stop", "exit", "nowhere"} :
         /\ target' = IF how = "exit" THEN "exited" ELSE "stopped"
         /\ lost' = (how = "nowhere" \/ lost)
         /\ Answer(runner, IF how = "nowhere" THEN <<>> ELSE <<[k |-> how, n |-> stops']>>)
    /\ UNCHANGED <<runner, waiting, bps, resuming, cliIn, halfTyped, uiq, gate, ui, breaks, pane, rest>>

ProgramStops == Stops /\ UNCHANGED halts

(* The goroutine of Client.Interrupt calls Halt. *)
Halt ==
    /\ halts > 0 /\ halts' = halts - 1
    /\ \/ Stops
       \/ target # "running" /\ UNCHANGED <<server, client, term, texts, gate, ui, breaks, pane, lost, rest>>
---------------------------------------------------------------------------
(* The command line of `dlv connect' (external) *)

(* Delve's question is asked again until it is answered by y, n or an      *)
(* empty line; at the prompt an empty line repeats the last command, here  *)
(* a continue.                                                             *)
Answers == {"y", "n", "repeat"}

CliReads ==
    /\ cliIn # <<>> /\ cli \in {"prompt", "asking"}
    /\ cliIn' = Tail(cliIn)
    /\ LET line == Head(cliIn)
           Says(items) == cliOut' = cliOut \o <<Item("echo"), Item("nl")>> \o items
       IN  IF cli = "asking"
           THEN /\ bps' = (bps \/ line \in {"y", "repeat"})
                /\ cli' = IF line \in Answers THEN "prompt" ELSE "asking"
                /\ Says(IF line = "n" THEN <<Item("prompt")>>
                        ELSE IF line \in Answers THEN <<Item("bpset"), Item("prompt")>>
                        ELSE <<Item("ask")>>)
                /\ UNCHANGED waiting
           ELSE IF line \in {"continue", "repeat"}
           THEN /\ waiting' = Append(waiting, "cli") /\ cli' = "inServer"
                /\ Says(<<>>) /\ UNCHANGED bps
           ELSE IF line = "up" /\ target # "exited"
           THEN /\ target = "stopped"
                /\ Says(<<[k |-> "stop", n |-> Frame], Item("prompt")>>)
                /\ UNCHANGED <<waiting, cli, bps>>
           ELSE IF line = "break" /\ bound
           THEN /\ target # "running" /\ bps' = TRUE
                /\ Says(<<Item("bpset"), Item("prompt")>>) /\ UNCHANGED <<waiting, cli>>
           ELSE IF line = "break"
           THEN /\ target # "running" /\ cli' = "asking"
                /\ Says(<<Item("ask")>>) /\ UNCHANGED <<waiting, bps>>
           ELSE Says(<<Item("failed"), Item("prompt")>>) /\ UNCHANGED <<waiting, cli, bps>>
    /\ UNCHANGED <<target, runner, stops, halts, client, halfTyped, uiq, gate, ui, breaks, pane, lost, rest>>

(* The coalescer posts what it has, wherever that ends. *)
Flush ==
    /\ cliOut # <<>>
    /\ \E i \in 1 .. Len(cliOut) :
         /\ uiq' = Append(uiq, SubSeq(cliOut, 1, i))
         /\ cliOut' = SubSeq(cliOut, i + 1, Len(cliOut))
    /\ UNCHANGED <<server, halts, client, term, gate, ui, breaks, pane, lost, rest>>
---------------------------------------------------------------------------
(* The user at the console, and Ctrl-C *)

(* A line typed at the prompt.  onDlvTerminalSend follows the keys: a run  *)
(* command it can read arms the flag, and frame, up and down a token that  *)
(* hides the banner they print; a line recalled from Delve's history it    *)
(* cannot read.                                                            *)
TypeLine(line) ==
    /\ Acts(target # "running" /\ (line \in {"continue", "recalled"} => cli # "asking"))
    /\ cliIn' = Append(cliIn, IF line = "recalled" THEN "continue" ELSE line) /\ halfTyped' = FALSE
    /\ running' = (running \/ (line = "continue" /\ ~confirming))
    /\ navs' = IF line = "up" /\ ~confirming THEN navs + 1 ELSE navs
    /\ UNCHANGED <<server, halts, client, cli, texts, gate, ui, breaks, suppress, shown, lost>>

(* Part of a line: Delve echoes it, and no newline follows. *)
TypeHalf ==
    /\ User /\ cli = "prompt" /\ ~halfTyped
    /\ halfTyped' = TRUE
    /\ cliOut' = Append(cliOut, Item("echo"))
    /\ UNCHANGED <<server, halts, client, cli, cliIn, uiq, gate, ui, breaks, pane, lost>>

(* TargetRunning: the server is asked, whatever the flag says. *)
SaysRunning == running \/ target = "running"

(* A mutation: only the flag is looked at. *)
Enter_TrustsFlag ==
    /\ User /\ ~halfTyped
    /\ cliIn' = IF running THEN cliIn ELSE Append(cliIn, "repeat")
    /\ UNCHANGED <<server, halts, client, cli, halfTyped, texts, gate, ui, breaks, pane, lost>>

(* A bare Enter: tryDropDlvRunningEnter. *)
Enter ==
    /\ User /\ ~halfTyped
    /\ cliIn' = IF SaysRunning THEN cliIn ELSE Append(cliIn, "repeat")
    /\ UNCHANGED <<server, halts, client, cli, halfTyped, texts, gate, ui, breaks, pane, lost>>

(* onActivityCtrlC with no Lua job: "n" to an open question, else Halt. *)
CtrlC ==
    /\ User
    /\ running' = SaysRunning
    /\ cliIn' = IF confirming THEN Append(cliIn, "n") ELSE cliIn
    /\ halts' = IF ~confirming /\ SaysRunning THEN halts + 1 ELSE halts
    /\ UNCHANGED <<server, client, cli, halfTyped, texts, gate, ui, breaks, suppress, navs, shown, lost>>
---------------------------------------------------------------------------
(* Breakpoints from the panes *)

(* Space: the pane is painted, then the UI thread calls the server. *)
Toggle ==
    /\ AtRest
    /\ list' = ~list
    /\ ui' = IF list THEN "clear" ELSE "insert"
    /\ UNCHANGED <<server, halts, client, term, texts, gate, pane, lost>>
    /\ UNCHANGED <<bpDeferred, refresh, afterStop>>

(* A mutation: no refresh is owed. *)
ServeBreak_Forgets ==
    /\ ui # "free" /\ target # "running" /\ ui' = "free"
    /\ LET done == IF ui = "insert" THEN bound ELSE bps
       IN  /\ bps' = IF done THEN ui = "insert" ELSE bps
           /\ cliIn' = IF done THEN cliIn
                       ELSE IF ui = "clear" THEN Append(cliIn, "clear")
                       ELSE cliIn \o (IF running THEN <<"break", "continue">> ELSE <<"break">>)
           /\ suppress' = IF ~done /\ ui = "insert" /\ running THEN suppress + 1 ELSE suppress
    /\ UNCHANGED <<target, runner, waiting, stops, halts, client, cli, halfTyped, texts, gate>>
    /\ UNCHANGED <<bpDeferred, refresh, afterStop, list, running, navs, shown, lost, rest>>

(* The call returns once the program does not run.  If Delve refuses, the  *)
(* command goes to the command line by SendCmd, which trusts the flag: it  *)
(* means to interrupt a running program and to resume it afterwards.       *)
(* Either way a refresh is owed after the next prompt.                     *)
ServeBreak ==
    /\ ui # "free" /\ target # "running" /\ ui' = "free"
    /\ LET done == IF ui = "insert" THEN bound ELSE bps
       IN  /\ bps' = IF done THEN ui = "insert" ELSE bps
           /\ cliIn' = IF done THEN cliIn
                       ELSE IF ui = "clear" THEN Append(cliIn, "clear")
                       ELSE cliIn \o (IF running THEN <<"break", "continue">> ELSE <<"break">>)
           /\ suppress' = IF ~done /\ ui = "insert" /\ running THEN suppress + 1 ELSE suppress
    /\ bpDeferred' = TRUE
    /\ UNCHANGED <<target, runner, waiting, stops, halts, client, cli, halfTyped, texts, gate>>
    /\ UNCHANGED <<refresh, afterStop, list, running, navs, shown, lost, rest>>

(* The coalesced refresh: FetchBreakpoints gives up while the program      *)
(* runs, and nobody asks again.                                            *)
RunRefresh ==
    /\ refresh /\ refresh' = FALSE
    /\ list' = IF target = "running" THEN list ELSE bps
    /\ UNCHANGED <<server, halts, client, term, texts, gate, ui, bpDeferred, afterStop, pane, lost, rest>>

(* refreshAfterStop tries six times. *)
RefreshAfterStop ==
    /\ afterStop /\ afterStop' = FALSE
    /\ list' = IF target = "running" THEN list ELSE bps
    /\ UNCHANGED <<server, halts, client, term, texts, gate, ui, bpDeferred, refresh, pane, lost, rest>>
---------------------------------------------------------------------------
(* PushRaw: whole lines and, at the end, a prompt or a question *)

NoUpdate == [buf |-> "none", stop |-> 0, exit |-> 0, bpset |-> FALSE, prompt |-> FALSE,
             ask |-> FALSE, garbled |-> FALSE]

(* A mutation: the end of a line is not seen. *)
consume_CR(u, item) ==
    IF item.k \in {"stop", "exit", "failed", "bpset", "line"} /\ u.buf # "none"
    THEN [u EXCEPT !.buf = "none", !.garbled = @ \/ item.k \in {"stop", "exit"}]
    ELSE CASE item.k = "nl" -> u
           [] item.k = "echo" -> [u EXCEPT !.buf = IF @ = "ask" THEN "ask" ELSE "text"]
           [] item.k = "ask" -> [u EXCEPT !.buf = "ask", !.ask = TRUE]
           [] item.k = "prompt" -> [u EXCEPT !.buf = IF @ = "none" THEN "prompt" ELSE @]
           [] item.k = "stop" -> [u EXCEPT !.stop = item.n]
           [] item.k = "exit" -> [u EXCEPT !.exit = item.n]
           [] item.k = "bpset" -> [u EXCEPT !.bpset = TRUE]
           [] item.k = "line" -> [u EXCEPT !.prompt = TRUE]
           [] item.k = "failed" -> u

(* consumeLine reads a line only if nothing unfinished is before it; a     *)
(* question is recognised anywhere in a line.                              *)
consume(u, item) ==
    IF item.k \in {"stop", "exit", "failed", "bpset", "line"} /\ u.buf # "none"
    THEN [u EXCEPT !.buf = "none", !.garbled = @ \/ item.k \in {"stop", "exit"}]
    ELSE CASE item.k = "nl" -> [u EXCEPT !.buf = "none"]
           [] item.k = "echo" -> [u EXCEPT !.buf = IF @ = "ask" THEN "ask" ELSE "text"]
           [] item.k = "ask" -> [u EXCEPT !.buf = "ask", !.ask = TRUE]
           [] item.k = "prompt" -> [u EXCEPT !.buf = IF @ = "none" THEN "prompt" ELSE @]
           [] item.k = "stop" -> [u EXCEPT !.stop = item.n]
           [] item.k = "exit" -> [u EXCEPT !.exit = item.n]
           [] item.k = "bpset" -> [u EXCEPT !.bpset = TRUE]
           [] item.k = "line" -> [u EXCEPT !.prompt = TRUE]
           [] item.k = "failed" -> u

PushRaw(buf, data) ==
    LET u == FoldLeft(consume, [NoUpdate EXCEPT !.buf = buf], data)
    IN  [u EXCEPT !.prompt = @ \/ u.buf = "prompt",
                  !.buf = IF @ = "text" THEN "text" ELSE "none"]

(* Observe, applyConsoleUpdate, onGdbStopped.  For Delve a prompt does not *)
(* clear the flag; with no banner it drops unused tokens.  While a         *)
(* question is open a refresh is deferred, and owed until the next prompt. *)
HandleOutput ==
    /\ ui = "free" /\ uiq # <<>>
    /\ uiq' = Tail(uiq)
    /\ LET u == PushRaw(lineBuf, Head(uiq))
           asks  == ~u.prompt /\ (u.ask \/ confirming)
           halted == u.stop # 0 /\ u.exit = 0
           shows  == halted /\ suppress = 0 /\ navs = 0
       IN  /\ lineBuf' = u.buf
           /\ confirming' = asks
           /\ refresh' = (refresh \/ (u.bpset /\ ~asks) \/ (u.prompt /\ bpDeferred))
           /\ bpDeferred' = (~u.prompt /\ (bpDeferred \/ (u.bpset /\ asks)))
           /\ suppress' = IF halted /\ suppress > 0 THEN suppress - 1 ELSE suppress
           /\ navs' = IF halted /\ suppress = 0 /\ navs > 0 THEN navs - 1
                      ELSE IF u.prompt /\ u.stop = 0 /\ u.exit = 0 THEN 0 ELSE navs
           /\ shown' = IF u.exit # 0 THEN u.exit
                       ELSE IF shows /\ u.stop # Frame THEN u.stop ELSE shown
           /\ running' = (running /\ u.stop = 0 /\ u.exit = 0)
           /\ afterStop' = (afterStop \/ shows)
           /\ lost' = IF u.garbled /\ halfTyped THEN TRUE
                      ELSE IF shown' # shown /\ shown' = stops THEN FALSE ELSE lost
    /\ UNCHANGED <<server, halts, client, term, cliOut, ui, list, rest>>
---------------------------------------------------------------------------
DlvNext ==
    \/ \E cmd \in Commands : Exec(cmd)
    \/ NoteStop \/ Done
    \/ ServeResume \/ ProgramStops \/ Halt
    \/ CliReads \/ Flush
    \/ \E line \in {"continue", "recalled", "break", "up", "y", "n"} : TypeLine(line)
    \/ TypeHalf \/ Enter \/ CtrlC
    \/ Toggle \/ ServeBreak \/ RunRefresh \/ RefreshAfterStop
    \/ HandleOutput

DlvSpec == DlvInit /\ [][DlvNext]_dlvVars
---------------------------------------------------------------------------
(* Properties *)

(* "A second resume while one is in flight would queue on the server and   *)
(* fire as soon as the first stops, running straight past the breakpoint"  *)
(* (dlv_rpc.go:212): however fast the keys and the goroutines' ends come,  *)
(* behind a run that a key started no other key's resume waits.            *)
StopIsNotRunPast ==
    target = "running" /\ runner = "job" => \A i \in DOMAIN waiting : waiting[i] # "job"

(* The stop the panes show is the last one, and the flag is down, once a   *)
(* user who is not hasty sees the program stopped: from the key's goroutine*)
(* or from the command line, whose pieces come in any cut.  Excepted are   *)
(* the ends of a run of which no readable line comes: a stop without a     *)
(* file, a restart, a resume that failed, a line that follows a half-typed *)
(* one.                                                                    *)
StopIsShown ==
    hasty = 0 /\ AllRead /\ target # "running" /\ ~lost => shown = stops /\ ~running

(* "Ctrl-C [is] silently dropped while the program runs" is what           *)
(* backendSaysRunning prevents (activity.go:47), and an Enter that "re-runs *)
(* continue as soon as the target stops" what tryDropDlvRunningEnter does: *)
(* whatever the flag has missed, a running program is noticed by both.     *)
RunningIsNoticed ==
    [][target = "running" /\ spent' # spent /\ UNCHANGED halfTyped =>
         /\ CtrlC /\ ~confirming => halts' > halts
         /\ Enter => cliIn' = cliIn]_dlvVars

(* When all is read and no question is open, the panes show the breakpoint *)
(* exactly if the server has it: Delve refused it, asked, was answered, or *)
(* set it from the command line (breakpoints.go:106, gdb_console.go:396).  *)
BreaksSettle ==
    hasty = 0 /\ AllRead /\ target # "running" /\ ui = "free" /\ ~confirming => list = bps
===========================================================================
