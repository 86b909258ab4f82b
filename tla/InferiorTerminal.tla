------------------------- MODULE InferiorTerminal -------------------------
(***************************************************************************)
(* Where the debugged program reads and writes: app/inferior_tty.go, the   *)
(* IO pane of app/io_console.go and the helper of ttyhold/hold.go.         *)
(*                                                                         *)
(* For GDB an external terminal is a window whose only process is a helper *)
(* of gdbforge: it lets go of the terminal, writes its pid and the path of *)
(* the terminal to two files and waits.  OpenExternalTTY polls the files   *)
(* on the UI thread for ten seconds.  For Delve the window holds a         *)
(* headless server, to which gdbforge connects once a goroutine has seen   *)
(* it listen: the session of before is torn down first, and a local one is *)
(* started if the new one fails.                                           *)
(*                                                                         *)
(* The process the emulator was started as need not be the window's        *)
(* (gnome-terminal hands its windows to a server): then `detached', and    *)
(* killing that process leaves the window.                                 *)
(***************************************************************************)
EXTENDS Naturals

CONSTANT MaxWindows  \* bound: windows a run of gdbforge opens

ASSUME InferiorTerminalAssumption == MaxWindows \in Nat

VARIABLES
    kind,      \* the backend: "gdb" or "dlv"
    detached,  \* killing the emulator does not close the window
    wins,      \* the windows: see Window
    pathFile,  \* the window the path file names, or 0
    pidFile,   \* the window whose helper the pid file names, or 0
    hold,      \* extInferiorHold: the helper and the emulator, or NoHold
    opening,   \* OpenExternalTTY under way: what it has read, or NoOpening
    tty,       \* where the backend points the program
    session,   \* Delve: "local", "connect", "none" or what is being started
    ports,     \* Delve: goroutines that wait for a port
    pane,      \* what the IO pane shows
    serial,    \* the UART console is open
    gaveUp     \* auxiliary: an open gave up

files    == <<pathFile, pidFile>>
window   == <<wins, files, hold, opening, gaveUp>>
io       == <<tty, pane, serial>>
dlvSide  == <<session, ports>>
terminal == <<kind, detached, window, io, dlvSide>>

Windows  == 1 .. MaxWindows
Internal == 0               \* the PTY of the IO pane
Elsewhere == MaxWindows + 1 \* a path the user gave, or a headless server's terminal

(* claims: the terminal is the controlling one of the helper's session;    *)
(* "kept" when the helper could not let go and has said so.                *)
Window == [open: BOOLEAN, helper: BOOLEAN, claims: {"yes", "no", "kept"},
           pid: BOOLEAN, path: BOOLEAN, used: BOOLEAN]

Unused    == [open |-> FALSE, helper |-> FALSE, claims |-> "no",
              pid |-> FALSE, path |-> FALSE, used |-> FALSE]
Fresh     == [Unused EXCEPT !.open = TRUE, !.helper = TRUE, !.claims = "yes", !.used = TRUE]
NoHold    == [pid |-> 0, term |-> 0]
NoOpening == [win |-> 0, pts |-> 0, pid |-> 0, at |-> "none"]

TerminalTypes ==
    /\ kind \in {"gdb", "dlv"} /\ detached \in BOOLEAN
    /\ wins \in [Windows -> Window]
    /\ pathFile \in 0 .. MaxWindows /\ pidFile \in 0 .. MaxWindows
    /\ hold \in [pid: 0 .. MaxWindows, term: 0 .. MaxWindows]
    /\ opening \in [win: 0 .. MaxWindows, pts: 0 .. MaxWindows,
                    pid: 0 .. MaxWindows, at: {"none", "path", "pid"}]
    /\ tty \in 0 .. MaxWindows + 1
    /\ session \in {"local", "connect", "none", "connecting", "restarting", "attached"}
    /\ ports \in 0 .. MaxWindows
    /\ pane \in {"internal", "external", "serial", "none"}
    /\ {serial, gaveUp} \subseteq BOOLEAN

(* A run of gdbforge starts with the PTY of the IO pane.                   *)
TerminalStarts ==
    /\ wins = [w \in Windows |-> Unused]
    /\ pathFile = 0 /\ pidFile = 0 /\ hold = NoHold /\ opening = NoOpening
    /\ tty = Internal /\ session = "local" /\ ports = 0
    /\ pane = "internal" /\ serial = FALSE /\ gaveUp = FALSE

(* And leaves nothing but windows, which are not looked at any more.       *)
TerminalEnds ==
    /\ wins' = [w \in Windows |-> Unused]
    /\ pathFile' = 0 /\ pidFile' = 0 /\ hold' = NoHold /\ opening' = NoOpening
    /\ tty' = Internal /\ session' = "local" /\ ports' = 0
    /\ pane' = "internal" /\ serial' = FALSE /\ gaveUp' = FALSE

(* The UI thread is in none of the calls that block it.                    *)
Responsive == opening = NoOpening /\ session \in {"local", "connect", "none"}

---------------------------------------------------------------------------
(* The helper in the window *)

Helping(w) ==
    /\ wins[w].helper
    /\ UNCHANGED <<kind, detached, hold, opening, gaveUp, io, dlvSide>>

(* TIOCNOTTY; the plain shell that stands in for a missing binary, and a   *)
(* helper that does not lead its session, keep the terminal.               *)
LetGo(w) ==
    /\ Helping(w) /\ wins[w].claims = "yes"
    /\ \E c \in {"no", "kept"} : wins' = [wins EXCEPT ![w].claims = c]
    /\ UNCHANGED files

(* A mutation: the pid is written before the terminal is let go.           *)
WritePid_Early(w) ==
    /\ Helping(w) /\ ~wins[w].pid
    /\ pidFile' = w /\ wins' = [wins EXCEPT ![w].pid = TRUE]
    /\ UNCHANGED pathFile

WritePid(w) ==
    /\ Helping(w) /\ wins[w].claims # "yes" /\ ~wins[w].pid
    /\ pidFile' = w /\ wins' = [wins EXCEPT ![w].pid = TRUE]
    /\ UNCHANGED pathFile

(* A mutation: the two files in the other order.                           *)
WritePath_First(w) ==
    /\ Helping(w) /\ wins[w].claims # "yes" /\ ~wins[w].path
    /\ pathFile' = w /\ wins' = [wins EXCEPT ![w].path = TRUE]
    /\ UNCHANGED pidFile

WritePath(w) ==
    /\ Helping(w) /\ wins[w].pid /\ ~wins[w].path
    /\ pathFile' = w /\ wins' = [wins EXCEPT ![w].path = TRUE]
    /\ UNCHANGED pidFile

(* No terminal, or a file it cannot write: it exits, and the window with it. *)
HelperFails(w) ==
    /\ Helping(w) /\ ~wins[w].path
    /\ wins' = [wins EXCEPT ![w].helper = FALSE, ![w].open = FALSE]
    /\ UNCHANGED files

(* A window that goes hangs its terminal up: a helper that let go of it    *)
(* lives on.                                                               *)
HungUp(ws, w) ==
    [ws EXCEPT ![w].open = FALSE, ![w].helper = @ /\ ws[w].claims = "no"]

UserClosesWindow(w) ==
    /\ wins[w].open /\ wins' = HungUp(wins, w)
    /\ UNCHANGED <<kind, detached, files, hold, opening, gaveUp, io, dlvSide>>

Killed(ws, w)   == [ws EXCEPT ![w].open = FALSE, ![w].helper = FALSE]
TermKilled(ws, w) == IF detached THEN ws ELSE HungUp(ws, w)

(* closeExternalInferiorHold: the helper first, then the emulator.         *)
HoldClosed ==
    LET ws == IF hold.pid # 0 THEN Killed(wins, hold.pid) ELSE wins
    IN  IF hold.term # 0 THEN TermKilled(ws, hold.term) ELSE ws
---------------------------------------------------------------------------
(* SetInferiorTTY and the IO pane, GDB *)

OnGdb == kind = "gdb" /\ UNCHANGED <<kind, detached, dlvSide>>

(* `external': the window of before is closed whether or not there is a    *)
(* terminal to open.                                                       *)
OpenExternalTTY ==
    /\ OnGdb /\ hold' = NoHold /\ pathFile' = 0 /\ pidFile' = 0
    /\ \/ \E w \in Windows :
            /\ ~wins[w].used /\ \A v \in Windows : v < w => wins[v].used
            /\ wins' = [HoldClosed EXCEPT ![w] = Fresh]
            /\ opening' = [win |-> w, pts |-> 0, pid |-> 0, at |-> "path"]
       \/ wins' = HoldClosed /\ UNCHANGED opening
    /\ UNCHANGED <<io, gaveUp>>

(* The path is taken if the terminal it names is there.                    *)
PollPath ==
    /\ opening.at = "path" /\ OnGdb
    /\ opening' = [opening EXCEPT !.at = "pid",
                     !.pts = IF @ = 0 /\ pathFile # 0 /\ wins[pathFile].open
                             THEN pathFile ELSE @]
    /\ UNCHANGED <<wins, files, hold, gaveUp, io>>

Opened(h) ==
    /\ hold' = h /\ opening' = NoOpening
    /\ tty' = opening.pts /\ pane' = "external"
    /\ UNCHANGED <<wins, files, gaveUp, serial>>

PollPid ==
    /\ opening.at = "pid" /\ OnGdb
    /\ LET pid == IF opening.pid = 0 THEN pidFile ELSE opening.pid
       IN  IF opening.pts # 0 /\ pid # 0
           THEN Opened([pid |-> pid, term |-> opening.win])
           ELSE /\ opening' = [opening EXCEPT !.at = "path", !.pid = pid]
                /\ UNCHANGED <<wins, files, hold, gaveUp, io>>

(* Ten seconds are over: without the path the emulator is killed.          *)
Deadline ==
    /\ opening.at = "path" /\ OnGdb
    /\ IF opening.pts # 0
       THEN Opened([pid |-> opening.pid, term |-> opening.win])
       ELSE /\ wins' = TermKilled(wins, opening.win)
            /\ opening' = NoOpening /\ gaveUp' = TRUE
            /\ UNCHANGED <<files, hold, io>>

(* `internal' and a path the user gives; only the first closes the window. *)
SetInternal ==
    /\ OnGdb /\ wins' = HoldClosed /\ hold' = NoHold
    /\ tty' = Internal /\ pane' = "internal"
    /\ UNCHANGED <<files, opening, gaveUp, serial>>

SetPath ==
    /\ OnGdb /\ tty' = Elsewhere /\ pane' = "external"
    /\ UNCHANGED <<window, serial>>

(* The UART console takes the IO pane.                                     *)
wireSerialConsole ==
    /\ serial' = TRUE /\ pane' = "serial"
    /\ UNCHANGED <<kind, detached, window, dlvSide, tty>>

(* And gives it back when it closes.                                       *)
restoreInferiorIO ==
    /\ serial /\ serial' = FALSE
    /\ pane' = IF session = "none" THEN pane
               ELSE IF tty = Internal THEN "internal" ELSE "external"
    /\ UNCHANGED <<kind, detached, window, dlvSide, tty>>
---------------------------------------------------------------------------
(* SetInferiorTTY and the sessions, Delve *)

OnDlv == kind = "dlv" /\ UNCHANGED <<kind, detached, window, serial>>

(* `external': a window with a headless server, and a goroutine that waits *)
(* for its port.                                                           *)
startDlvExternal ==
    /\ OnDlv /\ ports < MaxWindows /\ ports' = ports + 1
    /\ UNCHANGED <<session, tty, pane>>

NotListening == OnDlv /\ ports > 0 /\ ports' = ports - 1 /\ UNCHANGED <<session, tty, pane>>

tearDownDlvSession(for) == session' = for /\ pane' = "none"

ConnectDlv ==
    /\ OnDlv /\ ports > 0 /\ ports' = ports - 1
    /\ tearDownDlvSession("connecting") /\ UNCHANGED tty

(* `internal' restarts a session that is not.                              *)
setDlvInferiorTTY ==
    /\ OnDlv /\ UNCHANGED <<ports, tty>>
    /\ CASE session = "none"    -> UNCHANGED <<session, pane>>
         [] session = "local"   -> pane' = "internal" /\ UNCHANGED session
         [] session = "connect" -> tearDownDlvSession("restarting")

(* The new client, the local one that stands in for it, or neither.        *)
Attach(to) ==
    /\ session \in {"connecting", "restarting"} /\ OnDlv /\ UNCHANGED ports
    /\ session' = to
    /\ CASE to = "attached" -> session = "connecting" /\ tty' = Elsewhere /\ pane' = "external"
         [] to = "local"    -> tty' = Internal /\ pane' = "internal"
         [] to = "none"     -> tty' = Internal /\ UNCHANGED pane
---------------------------------------------------------------------------
(* The program's terminal is not claimed by the helper that handed it over *)
(* (ttyhold/hold.go:42), unless the helper could not let go and has said   *)
(* so in its window.                                                       *)
TTYIsReleased == tty \in Windows => wins[tty].claims # "yes"

(* Once gdbforge is back, every window on the screen is the one it would   *)
(* close: `internal', another `external' and the end of gdbforge leave no  *)
(* window behind (inferior_tty.go:308), unless an open gave up and its     *)
(* window came late.                                                       *)
WindowsAreHeld ==
    opening = NoOpening /\ ~gaveUp =>
        \A w \in Windows : wins[w].open => hold # NoHold /\ hold.pid = w
===========================================================================
