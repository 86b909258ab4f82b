---------------------------- MODULE KgdbSession ----------------------------
(***************************************************************************)
(* A kgdb session over the shared UART: the mux, the board behind it, GDB  *)
(* on the gdb PTY, the UI thread that handles GDB's output and the Lua job *)
(* that breaks in (docs/KERNEL_KGDB.md, .gdbforge/lua/kgdb_trigger).       *)
(*                                                                         *)
(* The board stops on SysRq-g and says so in a packet ("$T..."), which GDB *)
(* sees only if the mux routes it to the gdb PTY; it runs again when a     *)
(* continue packet of GDB gets through.                                    *)
(*                                                                         *)
(* ArmSwitchConsoleOnRunning is not here: its only caller,                 *)
(* MaybeSwitchSerialConsoleOnContinue (kgdb_mode.go:53), is called by no   *)
(* code but its test.                                                      *)
(***************************************************************************)
EXTENDS SerialMux, Sequences

CONSTANTS
    Job,        \* the Lua job that runs the break-in scripts
    Scripts,    \* the scripts: sequences of "gdb", "entry", "console", "sysrq"
    MaxRounds   \* bound: scripts run

ASSUME KgdbSessionAssumption ==
    /\ (Scripts # {} => Job \in Jobs) /\ MaxRounds \in Nat
    /\ Scripts \subseteq Seq({"gdb", "entry", "console", "sysrq"})

VARIABLES
    kernel,     \* the board: "running", or "stopped" in the kgdb stub
    port,       \* a stop packet is on its way from the board
    inbox,      \* a stop packet is on the gdb PTY, unread by GDB
    gdb,        \* GDB: "waiting" for the target, or at its "prompt"
    sending,    \* a continue packet is on the gdb PTY, unread by the mux
    mi,         \* GDB's records, unread by the UI thread
    script,     \* what is left of the script the job runs
    rounds      \* scripts started

session == <<kernel, port, inbox, gdb, sending, mi, script, rounds>>
allvars == <<vars, session>>

SessionInit ==
    /\ Init
    /\ kernel = "running" /\ gdb = "waiting"
    /\ port = FALSE /\ inbox = FALSE /\ sending = FALSE
    /\ mi = <<>> /\ script = <<>> /\ rounds = 0
---------------------------------------------------------------------------
(* The job and the user *)

(* :lua on the UI thread, once the user saw the target run. *)
Idle == script = <<>> /\ mi = <<>> /\ \A t \in Threads : Free(t)

StartScript(s) ==
    /\ rounds < MaxRounds /\ rounds' = rounds + 1
    /\ Idle /\ kernel = "running" /\ gdb = "waiting"
    /\ script' = s
    /\ UNCHANGED <<vars, kernel, port, inbox, gdb, sending, mi>>

ScriptStep ==
    /\ script # <<>>
    /\ IF Head(script) = "sysrq" THEN Take(Job) ELSE Switch(Job, Head(script))
    /\ script' = Tail(script)
    /\ UNCHANGED <<kernel, port, inbox, gdb, sending, mi, rounds>>

(* :serial-switch console, "after the kernel is running". *)
UserConsole ==
    /\ Idle /\ kernel = "running"
    /\ Switch(UI, "console")
    /\ UNCHANGED session

(* The kernel hits a breakpoint.  That it does so while the console owns   *)
(* the UART is the limitation KERNEL_KGDB.md:559 admits, and left out.     *)
Breakpoint ==
    /\ rounds < MaxRounds /\ rounds' = rounds + 1
    /\ kernel = "running" /\ owner # "terminal" /\ call[UI].op # "console"
    /\ kernel' = "stopped" /\ port' = TRUE
    /\ UNCHANGED <<vars, inbox, gdb, sending, mi, script>>
---------------------------------------------------------------------------
(* The UART *)

(* pumpGdbToUSB reads the continue packet, and drops it if it may not pass. *)
PumpContinue ==
    /\ sending /\ tx["gdb"] = "idle"
    /\ sending' = FALSE
    /\ IF gdbTxAllowed THEN Take("gdb") ELSE UNCHANGED vars
    /\ UNCHANGED <<kernel, port, inbox, gdb, mi, script, rounds>>

(* A message is all on the UART: the board acts on it. *)
Arrive(w) ==
    /\ Complete(w)
    /\ kernel' = CASE w \in Jobs -> "stopped"
                   [] w = "gdb"  -> "running"
                   [] OTHER      -> kernel
    /\ port' = (port \/ (w \in Jobs /\ kernel = "running"))
    /\ UNCHANGED <<inbox, gdb, sending, mi, script, rounds>>

PumpStop ==
    /\ port /\ port' = FALSE
    /\ RxRoute
    /\ UNCHANGED <<kernel, inbox, gdb, sending, mi, script, rounds>>

(* A mutation: on debug entry a chunk goes to the console alone. *)
DeliverStop_EntryToConsole ==
    /\ RxDeliver
    /\ inbox' = (inbox \/ rx.to = "debugger")
    /\ UNCHANGED <<kernel, port, gdb, sending, mi, script, rounds>>

DeliverStop ==
    /\ RxDeliver
    /\ inbox' = (inbox \/ rx.to # "terminal")
    /\ UNCHANGED <<kernel, port, gdb, sending, mi, script, rounds>>
---------------------------------------------------------------------------
(* GDB, and the UI thread that handles its records *)

GdbStops ==
    /\ inbox /\ inbox' = FALSE
    /\ gdb = "waiting" /\ gdb' = "prompt"
    /\ mi' = Append(mi, "stopped")
    /\ UNCHANGED <<vars, kernel, port, sending, script, rounds>>

(* The user types continue at the prompt the UI thread has painted. *)
GdbContinues ==
    /\ gdb = "prompt" /\ gdb' = "waiting"
    /\ mi = <<>> /\ Free(UI)
    /\ sending' = TRUE
    /\ mi' = Append(mi, "running")
    /\ UNCHANGED <<vars, kernel, port, inbox, script, rounds>>

(* A batch of records: the last one is the state it reports. *)
HandleRecords(n) ==
    /\ n \in 1 .. Len(mi)
    /\ Free(UI)
    /\ mi' = SubSeq(mi, n + 1, Len(mi))
    /\ IF miAuto THEN OnDebuggerState(mi[n]) ELSE UNCHANGED vars
    /\ UNCHANGED <<kernel, port, inbox, gdb, sending, script, rounds>>
---------------------------------------------------------------------------
ThreadStep == \E t \in Threads : SetMiAuto(t) \/ SetKgdbSerial(t) \/ SetOwner(t)

Internal == (ThreadStep \/ Check \/ AutoSet \/ \E w \in Writers : Lock(w) \/ Partial(w))
            /\ UNCHANGED session

SessionNext ==
    \/ \E s \in Scripts : StartScript(s)
    \/ ScriptStep \/ UserConsole \/ Breakpoint
    \/ PumpContinue \/ PumpStop \/ DeliverStop
    \/ \E w \in Writers : Arrive(w)
    \/ GdbStops \/ GdbContinues
    \/ \E n \in 1 .. Len(mi) : HandleRecords(n)
    \/ Take("console") /\ UNCHANGED session
    \/ Internal

SessionSpec == SessionInit /\ [][SessionNext]_allvars

(* Everything goes on but the user: threads and pumps run, GDB reads and   *)
(* the lock of the port starves no one.                                    *)
FairSessionSpec ==
    /\ SessionSpec
    /\ WF_allvars(ScriptStep) /\ WF_allvars(PumpContinue)
    /\ WF_allvars(PumpStop) /\ WF_allvars(DeliverStop)
    /\ WF_allvars(GdbStops) /\ WF_allvars(\E n \in 1 .. Len(mi) : HandleRecords(n))
    /\ WF_allvars(ThreadStep /\ UNCHANGED session)
    /\ WF_allvars((Check \/ AutoSet) /\ UNCHANGED session)
    /\ \A w \in Writers : /\ SF_allvars(Lock(w) /\ UNCHANGED session)
                          /\ WF_allvars(Arrive(w))
---------------------------------------------------------------------------
(* Properties *)

(* GDB and the board do not lose each other: if the board waits in kgdb,   *)
(* GDB knows or a packet that ends the wait is on its way, in a place from *)
(* where it gets through.  "Owner must already be gdb (or                  *)
(* entering-debugger)" when the stop packet comes (KERNEL_KGDB.md:552).    *)
StopOnItsWay     == port \/ inbox \/ (rx.pc = "routed" /\ rx.to # "terminal")
ContinueOnItsWay == sending \/ tx["gdb"] # "idle"

GdbFollowsKernel ==
    kernel = "stopped" => gdb = "prompt" \/ StopOnItsWay \/ ContinueOnItsWay

(* The mux is a line that loses nothing between the board and GDB, and     *)
(* what is on it arrives (DebugLink), if the owner is switched first.      *)
Message == IF StopOnItsWay THEN "stop" ELSE IF ContinueOnItsWay THEN "continue" ELSE "none"

Link == INSTANCE DebugLink WITH target <- kernel, debugger <- gdb, message <- Message

ImplementsLink == Link!LinkSpec

===========================================================================
