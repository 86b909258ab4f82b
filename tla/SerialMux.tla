----------------------------- MODULE SerialMux -----------------------------
(***************************************************************************)
(* internal/serialmux/mux.go: one UART shared by a console PTY and a gdb   *)
(* PTY.  An owner decides whose bytes go out on the UART and who gets the  *)
(* bytes that come in.                                                     *)
(*                                                                         *)
(* Threads: the UI thread, which runs :serial-switch and :debug-enter and  *)
(* reports the debugger's state (OnDebuggerState), the Lua jobs, which run *)
(* the serial_* services off the UI thread (app/lua_services.go), and the  *)
(* three pumps.  The owner has a lock of its own, the two flags have none, *)
(* and every handler is several steps: flags, then owner; check, then set. *)
(*                                                                         *)
(* The model is an open mux: both PTYs exist from Open on, so ensureGdbLeg *)
(* and startGdbPump find nothing to do.                                    *)
(***************************************************************************)
EXTENDS Naturals

CONSTANTS
    UI,         \* the UI thread
    Jobs,       \* the goroutines of Lua jobs
    Nobody      \* portMu is free

ASSUME SerialMuxAssumption ==
    /\ UI \notin Jobs
    /\ "console" \notin Jobs /\ "gdb" \notin Jobs
    /\ Nobody \notin Jobs \cup {"console", "gdb"}

Threads == {UI} \cup Jobs
Writers == {"console", "gdb"} \cup Jobs     \* the TX pumps, and callers of Send
Owners  == {"terminal", "entering_debugger", "debugger"}

VARIABLES
    owner,      \* Mux.owner
    miAuto,     \* Mux.miAuto
    kgdbSerial, \* Mux.kgdbSerial
    call,       \* call[t]: the mux method thread t is in
    tx,         \* tx[w]: how far writer w is with its message
    portMu,     \* the writer that holds Mux.portMu
    half,       \* the writer whose message is cut off on the UART
    rx,         \* the RX pump, with the owner it read for the chunk it holds
    asked,      \* auxiliary: the owner the last completed command gave
    stray       \* auxiliary: what passed the console while gdb owned the UART

flags == <<miAuto, kgdbSerial>>
lines == <<tx, portMu, half>>
aux   == <<asked, stray>>
vars  == <<owner, flags, call, lines, rx, aux>>
---------------------------------------------------------------------------
none    == [pc |-> "idle", op |-> "none"]
Clean   == [tx |-> 0, rx |-> 0]

TypeOK ==
    /\ owner \in Owners /\ asked \in Owners
    /\ miAuto \in BOOLEAN /\ kgdbSerial \in BOOLEAN
    /\ call \in [Threads -> [pc: {"idle", "miAuto", "kgdbSerial", "owner", "check", "set"},
                             op: {"none", "gdb", "entry", "console",
                                  "running", "stopped", "prompt"}]]
    /\ tx \in [Writers -> {"idle", "granted", "writing", "partial"}]
    /\ portMu \in Writers \cup {Nobody} /\ half \in Writers \cup {Nobody}
    /\ rx \in [pc: {"idle", "routed"}, to: Owners]
    /\ stray \in [tx: Nat, rx: Nat]
    /\ \A w \in Writers : tx[w] \in {"writing", "partial"} <=> portMu = w

Init ==
    /\ owner = "terminal" /\ asked = "terminal"
    /\ miAuto = FALSE /\ kgdbSerial = FALSE
    /\ call = [t \in Threads |-> none]
    /\ tx = [w \in Writers |-> "idle"]
    /\ portMu = Nobody /\ half = Nobody
    /\ rx = [pc |-> "idle", to |-> "terminal"]
    /\ stray = Clean
---------------------------------------------------------------------------
(* The commands: SwitchToGDB, BeginDebugEntry, SwitchToConsole, SetOwner *)

Free(t) == call[t].pc = "idle" /\ (t \in Jobs => tx[t] = "idle")

OwnerOf(op) == CASE op = "gdb"   -> "debugger"
                 [] op = "entry" -> "entering_debugger"
                 [] OTHER        -> "terminal"

(* SetOwner.  A change of owner starts a new count of what strays. *)
Give(o) == owner' = o /\ stray' = IF o = owner THEN stray ELSE Clean

Switch(t, op) ==
    /\ Free(t)
    /\ call' = [call EXCEPT ![t] = [pc |-> "miAuto", op |-> op]]
    /\ UNCHANGED <<owner, flags, lines, rx, aux>>

SetMiAuto(t) ==
    /\ call[t].pc = "miAuto"
    /\ miAuto' = (call[t].op # "console")
    /\ call' = [call EXCEPT ![t].pc = "kgdbSerial"]
    /\ UNCHANGED <<owner, kgdbSerial, lines, rx, aux>>

(* A mutation: the flag that keeps the UART from the console is not set. *)
SetKgdbSerial_Forgotten(t) ==
    /\ call[t].pc = "kgdbSerial"
    /\ call' = [call EXCEPT ![t].pc = "owner"]
    /\ UNCHANGED <<owner, flags, lines, rx, aux>>

SetKgdbSerial(t) ==
    /\ call[t].pc = "kgdbSerial"
    /\ kgdbSerial' = (call[t].op # "console")
    /\ call' = [call EXCEPT ![t].pc = "owner"]
    /\ UNCHANGED <<owner, miAuto, lines, rx, aux>>

SetOwner(t) ==
    /\ call[t].pc = "owner"
    /\ Give(OwnerOf(call[t].op))
    /\ asked' = OwnerOf(call[t].op)
    /\ call' = [call EXCEPT ![t] = none]
    /\ UNCHANGED <<flags, lines, rx>>

(* serialCtl.SwitchOwner, which only Lua calls: the owner alone. *)
SwitchOwner(t, o) ==
    /\ Free(t)
    /\ Give(o) /\ asked' = o
    /\ UNCHANGED <<flags, call, lines, rx>>
---------------------------------------------------------------------------
(* OnDebuggerState(stopped, promptReady, running): what a batch of the     *)
(* debugger's output says, running before stopped before prompt.           *)

OnDebuggerState(ev) ==
    /\ Free(UI) /\ miAuto
    /\ call' = [call EXCEPT ![UI] = [pc |-> "check", op |-> ev]]
    /\ UNCHANGED <<owner, flags, lines, rx, aux>>

(* The owner changes only if what is read here says so ... *)
Moves(ev) == CASE ev = "running" -> ~kgdbSerial
               [] ev = "stopped" -> owner \in {"entering_debugger", "debugger"}
               [] ev = "prompt"  -> owner = "entering_debugger"

Check ==
    /\ call[UI].pc = "check"
    /\ call' = [call EXCEPT ![UI] = IF Moves(call[UI].op)
                                    THEN [@ EXCEPT !.pc = "set"] ELSE none]
    /\ UNCHANGED <<owner, flags, lines, rx, aux>>

(* ... and is set later. *)
AutoSet ==
    /\ call[UI].pc = "set"
    /\ Give(IF call[UI].op = "running" THEN "terminal" ELSE "debugger")
    /\ call' = [call EXCEPT ![UI] = none]
    /\ UNCHANGED <<flags, lines, rx, asked>>
---------------------------------------------------------------------------
(* Bytes to the UART: pumpConsoleToUSB, pumpGdbToUSB and Send, writeSerial *)

consoleTxAllowed == owner \in {"terminal", "entering_debugger"}
gdbTxAllowed     == owner \in {"entering_debugger", "debugger"}

Allowed(w) == /\ w = "console" => consoleTxAllowed
              /\ w = "gdb" => gdbTxAllowed

(* A message is read; it is dropped unless the owner lets it through. *)
Take(w) ==
    /\ tx[w] = "idle"
    /\ w \in Jobs => Free(w)
    /\ Allowed(w)
    /\ tx' = [tx EXCEPT ![w] = "granted"]
    /\ UNCHANGED <<owner, flags, call, portMu, half, rx, aux>>

(* A mutation: the port is written without its lock. *)
Lock_NoMutex(w) ==
    /\ tx[w] = "granted"
    /\ portMu' = w
    /\ tx' = [tx EXCEPT ![w] = "writing"]
    /\ UNCHANGED <<owner, flags, call, half, rx, aux>>

Lock(w) ==
    /\ tx[w] = "granted" /\ portMu = Nobody
    /\ portMu' = w
    /\ tx' = [tx EXCEPT ![w] = "writing"]
    /\ UNCHANGED <<owner, flags, call, half, rx, aux>>

(* The first byte of a message leaves; count it if gdb owns the UART. *)
Begins(w) ==
    stray' = IF w = "console" /\ tx[w] = "writing" /\ owner = "debugger"
             THEN [stray EXCEPT !.tx = @ + 1] ELSE stray

(* port.Write takes a part of the message. *)
Partial(w) ==
    /\ tx[w] = "writing"
    /\ half' = w
    /\ Begins(w)
    /\ tx' = [tx EXCEPT ![w] = "partial"]
    /\ UNCHANGED <<owner, flags, call, portMu, rx, asked>>

(* A mutation: the lock of the port is not given back. *)
Complete_KeepsLock(w) ==
    /\ tx[w] \in {"writing", "partial"}
    /\ half' = Nobody
    /\ Begins(w)
    /\ tx' = [tx EXCEPT ![w] = "idle"]
    /\ UNCHANGED <<owner, flags, call, portMu, rx, asked>>

Complete(w) ==
    /\ tx[w] \in {"writing", "partial"}
    /\ half' = Nobody
    /\ Begins(w)
    /\ portMu' = Nobody
    /\ tx' = [tx EXCEPT ![w] = "idle"]
    /\ UNCHANGED <<owner, flags, call, rx, asked>>
---------------------------------------------------------------------------
(* Bytes from the UART: pumpUSBToConsole, routeSerialRx *)

RxRoute ==
    /\ rx.pc = "idle"
    /\ rx' = [pc |-> "routed", to |-> owner]
    /\ UNCHANGED <<owner, flags, call, lines, aux>>

(* The chunk goes to the console, to gdb, or on debug entry to both. *)
RxDeliver ==
    /\ rx.pc = "routed"
    /\ rx' = [rx EXCEPT !.pc = "idle"]
    /\ stray' = IF rx.to # "debugger" /\ owner = "debugger"
                THEN [stray EXCEPT !.rx = @ + 1] ELSE stray
    /\ UNCHANGED <<owner, flags, call, lines, asked>>
---------------------------------------------------------------------------
Command(t) ==
    \/ \E op \in {"gdb", "entry", "console"} : Switch(t, op)
    \/ SetMiAuto(t) \/ SetKgdbSerial(t) \/ SetOwner(t)
    \/ t \in Jobs /\ \E o \in Owners : SwitchOwner(t, o)

StateReport == (\E ev \in {"running", "stopped", "prompt"} : OnDebuggerState(ev)) \/ Check \/ AutoSet

Write(w) == Take(w) \/ Lock(w) \/ Partial(w) \/ Complete(w)

Next ==
    \/ \E t \in Threads : Command(t)
    \/ StateReport
    \/ \E w \in Writers : Write(w)
    \/ RxRoute \/ RxDeliver

Spec == Init /\ [][Next]_vars
---------------------------------------------------------------------------
(* Properties *)

(* Whoever writes to the UART finds it between messages or in its own: no  *)
(* byte of the console lands inside a packet of gdb (writeSerial).         *)
WholeMessages ==
    \A w \in Writers : /\ tx[w] = "writing" => half = Nobody
                       /\ tx[w] = "partial" => half = w

(* SwitchToGDB freezes the console up to what it had in hand: while gdb    *)
(* owns the UART at most one message of the console goes out and at most   *)
(* one chunk comes in to it, however the owner was changed.                *)
StrayAtMostOne == owner = "debugger" => stray.tx <= 1 /\ stray.rx <= 1

Quiet == \A t \in Threads : call[t].pc = "idle"

(* The owner is the one the last command gave, or gdb after a debug entry  *)
(* that ended in a stop or a prompt: no report of the debugger gets in     *)
(* between, as long as no job switches while the UI handles one.           *)
OwnerIsLastAsked ==
    Quiet => \/ owner = asked
             \/ asked = "entering_debugger" /\ owner = "debugger"

(* A message let through is written, whoever else writes. *)
MessageGoesOut == \A w \in Writers : tx[w] = "granted" ~> tx[w] = "idle"
===========================================================================
