------------------------ MODULE SerialAndDelve_proofs ------------------------
(***************************************************************************)
(* Proofs about two debug links that share no state.                       *)
(*                                                                         *)
(* The UART mux for any set of Lua jobs: the types with the lock of the    *)
(* port, whole messages, at most one stray message and chunk; and, without *)
(* jobs, that the owner is the one last asked for.  Then the kgdb session  *)
(* over it: it is a behaviour of the mux, and with scripts that switch the *)
(* owner before they break in, for any number of rounds, GDB and the board *)
(* do not lose each other and every step is one of the line of DebugLink.  *)
(*                                                                         *)
(* The two clients of a Delve server, for any number of acts and stops:    *)
(* what the parser makes of a text, by induction over its fold; that no    *)
(* stop is run past and a running program is noticed; and what a patient   *)
(* user sees.                                                              *)
(***************************************************************************)
EXTENDS KgdbSession, DelveResume, SequenceTheorems, WellFoundedInduction, TLAPS

(* The steps, named once for the proofs by cases. *)
LEMMA Steps ==
    ASSUME [Next]_vars
    PROVE  \/ \E t \in Threads, op \in {"gdb", "entry", "console"} : Switch(t, op)
           \/ \E t \in Threads : SetMiAuto(t)
           \/ \E t \in Threads : SetKgdbSerial(t)
           \/ \E t \in Threads : SetOwner(t)
           \/ \E t \in Jobs, o \in Owners : SwitchOwner(t, o)
           \/ \E ev \in {"running", "stopped", "prompt"} : OnDebuggerState(ev)
           \/ Check
           \/ AutoSet
           \/ \E w \in Writers : Take(w)
           \/ \E w \in Writers : Lock(w)
           \/ \E w \in Writers : Partial(w)
           \/ \E w \in Writers : Complete(w)
           \/ RxRoute
           \/ RxDeliver
           \/ UNCHANGED vars
  BY DEF Next, Command, StateReport, Write

(* The writers are none of the marks the lock and the cut use. *)
LEMMA WritersAreNotNobody == \A w \in Writers : w # Nobody
  BY SerialMuxAssumption DEF Writers

---------------------------------------------------------------------------
(* Types, and the lock of the port *)

LEMMA InitTypeOK == ASSUME Init PROVE TypeOK
<1>1. owner \in Owners /\ asked \in Owners /\ miAuto \in BOOLEAN /\ kgdbSerial \in BOOLEAN
  BY DEF Init, Owners
<1>2. call \in [Threads -> [pc: {"idle", "miAuto", "kgdbSerial", "owner", "check", "set"},
                            op: {"none", "gdb", "entry", "console",
                                 "running", "stopped", "prompt"}]]
  BY DEF Init, none
<1>3. tx \in [Writers -> {"idle", "granted", "writing", "partial"}]
  BY DEF Init
<1>4. rx \in [pc: {"idle", "routed"}, to: Owners] /\ stray \in [tx: Nat, rx: Nat]
  BY DEF Init, Clean, Owners
<1>5. \A w \in Writers : tx[w] \in {"writing", "partial"} <=> portMu = w
  BY WritersAreNotNobody DEF Init
<1> QED
  BY <1>1, <1>2, <1>3, <1>4, <1>5 DEF Init, TypeOK

LEMMA GiveType ==
    ASSUME NEW o \in Owners, stray \in [tx: Nat, rx: Nat], Give(o)
    PROVE  owner' \in Owners /\ stray' \in [tx: Nat, rx: Nat]
  BY DEF Give, Clean

LEMMA OwnerOfType == \A op : OwnerOf(op) \in Owners
  BY DEF OwnerOf, Owners

LEMMA BeginsType ==
    ASSUME NEW w, stray \in [tx: Nat, rx: Nat], Begins(w)
    PROVE  stray' \in [tx: Nat, rx: Nat]
  BY DEF Begins

LEMMA NextTypeOK == ASSUME TypeOK, [Next]_vars PROVE TypeOK'
<1> USE DEF TypeOK
<1>0. UI \in Threads
  BY DEF Threads
<1>1. ASSUME NEW t \in Threads, NEW op \in {"gdb", "entry", "console"}, Switch(t, op)
      PROVE  TypeOK'
  BY <1>1 DEF Switch, flags, lines, aux
<1>2. ASSUME NEW t \in Threads, SetMiAuto(t) PROVE TypeOK'
  BY <1>2 DEF SetMiAuto, lines, aux
<1>3. ASSUME NEW t \in Threads, SetKgdbSerial(t) PROVE TypeOK'
  BY <1>3 DEF SetKgdbSerial, lines, aux
<1>4. ASSUME NEW t \in Threads, SetOwner(t) PROVE TypeOK'
  <2>1. owner' \in Owners /\ stray' \in [tx: Nat, rx: Nat] /\ asked' \in Owners
    BY <1>4, GiveType, OwnerOfType DEF SetOwner
  <2> QED
    BY <1>4, <2>1 DEF SetOwner, none, flags, lines
<1>5. ASSUME NEW t \in Jobs, NEW o \in Owners, SwitchOwner(t, o) PROVE TypeOK'
  <2>1. owner' \in Owners /\ stray' \in [tx: Nat, rx: Nat]
    BY <1>5, GiveType DEF SwitchOwner
  <2> QED
    BY <1>5, <2>1 DEF SwitchOwner, flags, lines
<1>6. ASSUME NEW ev \in {"running", "stopped", "prompt"}, OnDebuggerState(ev) PROVE TypeOK'
  BY <1>0, <1>6 DEF OnDebuggerState, flags, lines, aux
<1>7. CASE Check
  BY <1>0, <1>7 DEF Check, none, flags, lines, aux
<1>8. CASE AutoSet
  <2>1. owner' \in Owners /\ stray' \in [tx: Nat, rx: Nat]
    BY <1>8, GiveType DEF AutoSet, Owners
  <2> QED
    BY <1>0, <1>8, <2>1 DEF AutoSet, none, flags, lines
<1>9. ASSUME NEW w \in Writers, Take(w) PROVE TypeOK'
  BY <1>9 DEF Take, flags, aux
<1>10. ASSUME NEW w \in Writers, Lock(w) PROVE TypeOK'
  BY <1>10, WritersAreNotNobody DEF Lock, flags, aux
<1>11. ASSUME NEW w \in Writers, Partial(w) PROVE TypeOK'
  <2>1. stray' \in [tx: Nat, rx: Nat]
    BY <1>11, BeginsType DEF Partial
  <2> QED
    BY <1>11, <2>1 DEF Partial, flags
<1>12. ASSUME NEW w \in Writers, Complete(w) PROVE TypeOK'
  <2>1. stray' \in [tx: Nat, rx: Nat]
    BY <1>12, BeginsType DEF Complete
  <2> QED
    BY <1>12, <2>1, WritersAreNotNobody DEF Complete, flags
<1>13. CASE RxRoute
  BY <1>13 DEF RxRoute, flags, lines, aux
<1>14. CASE RxDeliver
  BY <1>14 DEF RxDeliver, flags, lines
<1>15. CASE UNCHANGED vars
  BY <1>15 DEF vars, flags, lines, aux
<1> QED
  BY Steps, <1>1, <1>2, <1>3, <1>4, <1>5, <1>6, <1>7, <1>8, <1>9, <1>10, <1>11, <1>12,
     <1>13, <1>14, <1>15

(* The variables keep their types, and portMu is held by exactly the       *)
(* writer that writes.                                                     *)
THEOREM TypesHold == Spec => []TypeOK
<1>1. TypeOK /\ [Next]_vars => TypeOK'
  BY NextTypeOK
<1> QED
  BY InitTypeOK, <1>1, PTL DEF Spec

---------------------------------------------------------------------------
(* Whole messages *)

WholeInv ==
    /\ TypeOK
    /\ WholeMessages
    /\ half # Nobody => tx[half] = "partial"

LEMMA NextWhole == ASSUME WholeInv, [Next]_vars PROVE WholeInv'
<1> USE DEF WholeInv, WholeMessages
<1>1. TypeOK'
  BY NextTypeOK
<1>2. ASSUME UNCHANGED lines PROVE WholeInv'
  BY <1>1, <1>2 DEF lines
<1>3. ASSUME NEW w \in Writers, Take(w) PROVE WholeInv'
  BY <1>1, <1>3 DEF Take, TypeOK
<1>4. ASSUME NEW w \in Writers, Lock(w) PROVE WholeInv'
  <2>1. half = Nobody
    BY <1>4, WritersAreNotNobody DEF Lock, TypeOK
  <2> QED
    BY <1>1, <1>4, <2>1 DEF Lock, TypeOK
<1>5. ASSUME NEW w \in Writers, Partial(w) PROVE WholeInv'
  <2>1. \A v \in Writers \ {w} : tx[v] \notin {"writing", "partial"}
    BY <1>5 DEF Partial, TypeOK
  <2> QED
    BY <1>1, <1>5, <2>1 DEF Partial, TypeOK
<1>6. ASSUME NEW w \in Writers, Complete(w) PROVE WholeInv'
  <2>1. \A v \in Writers \ {w} : tx[v] \notin {"writing", "partial"}
    BY <1>6 DEF Complete, TypeOK
  <2> QED
    BY <1>1, <1>6, <2>1 DEF Complete, TypeOK
<1> QED
  BY Steps, <1>2, <1>3, <1>4, <1>5, <1>6
  DEF Switch, SetMiAuto, SetKgdbSerial, SetOwner, SwitchOwner, OnDebuggerState, Check,
      AutoSet, RxRoute, RxDeliver, vars

(* No byte of one writer lands inside a message of another, for any number *)
(* of jobs that send.                                                      *)
THEOREM MessagesAreWhole == Spec => []WholeMessages
<1>1. Init => WholeInv
  BY InitTypeOK DEF Init, WholeInv, WholeMessages
<1>2. WholeInv /\ [Next]_vars => WholeInv'
  BY NextWhole
<1>3. WholeInv => WholeMessages
  BY DEF WholeInv
<1> QED
  BY <1>1, <1>2, <1>3, PTL DEF Spec
---------------------------------------------------------------------------
(* What strays *)

StrayInv ==
    /\ TypeOK
    /\ StrayAtMostOne
    /\ owner = "debugger" =>
         /\ tx["console"] \in {"granted", "writing"} => stray.tx = 0
         /\ rx.pc = "routed" /\ rx.to # "debugger" => stray.rx = 0

(* A new owner starts from nothing. *)
LEMMA GiveStray ==
    ASSUME StrayInv, NEW o \in Owners, Give(o), UNCHANGED <<lines, rx>>, TypeOK'
    PROVE  StrayInv'
  BY DEF StrayInv, StrayAtMostOne, Give, Clean, lines

LEMMA NextStray == ASSUME StrayInv, [Next]_vars PROVE StrayInv'
<1> USE DEF StrayInv, StrayAtMostOne
<1>0. "console" \in Writers /\ TypeOK'
  BY NextTypeOK DEF Writers
<1>1. ASSUME UNCHANGED <<owner, stray, lines, rx>> PROVE StrayInv'
  BY <1>0, <1>1 DEF lines
<1>2. ASSUME NEW t \in Threads, SetOwner(t) PROVE StrayInv'
  BY <1>0, <1>2, GiveStray, OwnerOfType DEF SetOwner
<1>3. ASSUME NEW t \in Jobs, NEW o \in Owners, SwitchOwner(t, o) PROVE StrayInv'
  BY <1>0, <1>3, GiveStray DEF SwitchOwner
<1>4. CASE AutoSet
  BY <1>0, <1>4, GiveStray DEF AutoSet, Owners
<1>5. ASSUME NEW w \in Writers, Take(w) PROVE StrayInv'
  BY <1>0, <1>5 DEF Take, Allowed, consoleTxAllowed, aux, TypeOK
<1>6. ASSUME NEW w \in Writers, Lock(w) PROVE StrayInv'
  BY <1>0, <1>6 DEF Lock, aux, TypeOK
<1>7. ASSUME NEW w \in Writers, Partial(w) PROVE StrayInv'
  <2>1. owner' = owner /\ rx' = rx /\ tx' = [tx EXCEPT ![w] = "partial"]
    BY <1>7 DEF Partial
  <2>2. CASE w = "console"
    BY <1>0, <1>7, <2>1, <2>2 DEF Partial, Begins, TypeOK
  <2>3. CASE w # "console"
    BY <1>0, <1>7, <2>1, <2>3 DEF Partial, Begins, TypeOK
  <2> QED
    BY <2>2, <2>3
<1>8. ASSUME NEW w \in Writers, Complete(w) PROVE StrayInv'
  <2>1. owner' = owner /\ rx' = rx /\ tx' = [tx EXCEPT ![w] = "idle"]
    BY <1>8 DEF Complete
  <2>2. CASE w = "console"
    BY <1>0, <1>8, <2>1, <2>2 DEF Complete, Begins, TypeOK
  <2>3. CASE w # "console"
    BY <1>0, <1>8, <2>1, <2>3 DEF Complete, Begins, TypeOK
  <2> QED
    BY <2>2, <2>3
<1>9. CASE RxRoute
  BY <1>0, <1>9 DEF RxRoute, lines, aux
<1>10. CASE RxDeliver
  BY <1>0, <1>10 DEF RxDeliver, lines, TypeOK
<1> QED
  BY Steps, <1>1, <1>2, <1>3, <1>4, <1>5, <1>6, <1>7, <1>8, <1>9, <1>10
  DEF Switch, SetMiAuto, SetKgdbSerial, OnDebuggerState, Check, aux, vars

(* While gdb owns the UART at most one message of the console goes out and *)
(* at most one chunk comes in to it, whatever jobs and the UI do.          *)
THEOREM AtMostOneStrays == Spec => []StrayAtMostOne
<1>1. Init => StrayInv
  BY InitTypeOK DEF Init, StrayInv, StrayAtMostOne, Clean
<1>2. StrayInv /\ [Next]_vars => StrayInv'
  BY NextStray
<1>3. StrayInv => StrayAtMostOne
  BY DEF StrayInv
<1> QED
  BY <1>1, <1>2, <1>3, PTL DEF Spec

---------------------------------------------------------------------------
(* The owner, if only the UI thread switches it *)

OwnerInv ==
    /\ TypeOK
    /\ owner = asked \/ (asked = "entering_debugger" /\ owner = "debugger")
    /\ call[UI].pc \in {"idle", "miAuto", "check", "set"} => miAuto = kgdbSerial
    /\ call[UI].pc \in {"kgdbSerial", "owner"} => miAuto = (call[UI].op # "console")
    /\ call[UI].pc = "owner" => kgdbSerial = miAuto
    /\ call[UI].pc = "check" => miAuto
    /\ call[UI].pc = "check" => call[UI].op \in {"running", "stopped", "prompt"}
    /\ call[UI].pc = "set" => /\ call[UI].op # "running"
                              /\ owner \in {"entering_debugger", "debugger"}

LEMMA NextOwner == ASSUME Jobs = {}, OwnerInv, [Next]_vars PROVE OwnerInv'
<1> USE DEF OwnerInv
<1>0. Threads = {UI} /\ TypeOK'
  BY NextTypeOK DEF Threads
<1>1. ASSUME UNCHANGED <<owner, asked, flags, call>> PROVE OwnerInv'
  BY <1>0, <1>1 DEF flags
<1>2. ASSUME NEW op \in {"gdb", "entry", "console"}, Switch(UI, op) PROVE OwnerInv'
  BY <1>0, <1>2 DEF Switch, Free, flags, aux, TypeOK
<1>3. CASE SetMiAuto(UI)
  BY <1>0, <1>3 DEF SetMiAuto, aux, TypeOK
<1>4. CASE SetKgdbSerial(UI)
  BY <1>0, <1>4 DEF SetKgdbSerial, aux, TypeOK
<1>5. CASE SetOwner(UI)
  BY <1>0, <1>5 DEF SetOwner, Give, none, flags, TypeOK
<1>6. ASSUME NEW ev \in {"running", "stopped", "prompt"}, OnDebuggerState(ev) PROVE OwnerInv'
  BY <1>0, <1>6 DEF OnDebuggerState, Free, flags, aux, TypeOK
<1>7. CASE Check
  <2>1. kgdbSerial /\ call[UI].pc = "check"
    BY <1>7 DEF Check
  <2>2. CASE Moves(call[UI].op)
    <3>1. call' = [call EXCEPT ![UI] = [call[UI] EXCEPT !.pc = "set"]]
      BY <1>7, <2>2 DEF Check
    <3>2. call[UI].op # "running" /\ owner \in {"entering_debugger", "debugger"}
      BY <2>1, <2>2 DEF Moves
    <3>3. call'[UI].pc = "set" /\ call'[UI].op = call[UI].op
      BY <1>0, <3>1 DEF TypeOK
    <3>4. UNCHANGED <<owner, flags, asked>>
      BY <1>7 DEF Check, aux
    <3> QED
      BY <1>0, <2>1, <3>2, <3>3, <3>4 DEF flags
  <2>3. CASE ~Moves(call[UI].op)
    <3>1. call' = [call EXCEPT ![UI] = none]
      BY <1>7, <2>3 DEF Check
    <3> QED
      BY <1>0, <1>7, <2>1, <3>1 DEF Check, none, flags, aux, TypeOK
  <2> QED
    BY <2>2, <2>3
<1>8. CASE AutoSet
  <2>1. owner' = "debugger" /\ asked' = asked /\ call' = [call EXCEPT ![UI] = none]
    BY <1>8 DEF AutoSet, Give
  <2>2. asked \in {"entering_debugger", "debugger"}
    BY <1>8 DEF AutoSet
  <2> QED
    BY <1>0, <1>8, <2>1, <2>2 DEF AutoSet, none, flags, TypeOK
<1> QED
  BY Steps, <1>0, <1>1, <1>2, <1>3, <1>4, <1>5, <1>6, <1>7, <1>8
  DEF Take, Lock, Partial, Complete, RxRoute, RxDeliver, aux, flags, vars

(* Without jobs, the owner of the UART is the one the last command gave,   *)
(* or gdb after a debug entry: no report of the debugger gets in between.  *)
THEOREM OwnerIsAsked == ASSUME Jobs = {} PROVE Spec => []OwnerIsLastAsked
<1>1. Init => OwnerInv
  <2> SUFFICES ASSUME Init PROVE OwnerInv
    OBVIOUS
  <2>1. TypeOK
    BY InitTypeOK
  <2>2. call[UI].pc = "idle"
    BY DEF Init, none, Threads
  <2>3. owner = asked /\ miAuto = kgdbSerial
    BY DEF Init
  <2> QED
    BY <2>1, <2>2, <2>3 DEF OwnerInv
<1>2. Jobs = {} /\ OwnerInv /\ [Next]_vars => OwnerInv'
  BY NextOwner
<1>3. OwnerInv => OwnerIsLastAsked
  BY DEF OwnerInv, OwnerIsLastAsked, Quiet, Threads
<1>4. [](Jobs = {})
  BY PTL
<1> QED
  BY <1>1, <1>2, <1>3, <1>4, PTL DEF Spec
---------------------------------------------------------------------------
(* The kgdb session *)

(* The steps, named once for the proofs by cases. *)
LEMMA SessionSteps ==
    ASSUME [SessionNext]_allvars
    PROVE  \/ \E s \in Scripts : StartScript(s)
           \/ ScriptStep
           \/ UserConsole
           \/ Breakpoint
           \/ PumpContinue
           \/ PumpStop
           \/ DeliverStop
           \/ \E w \in Writers : Arrive(w)
           \/ GdbStops
           \/ GdbContinues
           \/ \E n \in 1 .. Len(mi) : HandleRecords(n)
           \/ Take("console") /\ UNCHANGED session
           \/ \E t \in Threads : SetMiAuto(t) /\ UNCHANGED session
           \/ \E t \in Threads : SetKgdbSerial(t) /\ UNCHANGED session
           \/ \E t \in Threads : SetOwner(t) /\ UNCHANGED session
           \/ Check /\ UNCHANGED session
           \/ AutoSet /\ UNCHANGED session
           \/ \E w \in Writers : Lock(w) /\ UNCHANGED session
           \/ \E w \in Writers : Partial(w) /\ UNCHANGED session
           \/ UNCHANGED allvars
  BY DEF SessionNext, Internal, ThreadStep

SessionTypes ==
    /\ script \in Seq({"gdb", "entry", "console", "sysrq"})
    /\ script # <<>> => Job \in Jobs
    /\ mi \in Seq({"stopped", "running"})
    /\ kernel \in {"running", "stopped"} /\ gdb \in {"waiting", "prompt"}
    /\ port \in BOOLEAN /\ inbox \in BOOLEAN /\ sending \in BOOLEAN

LEMMA SessionTypesInit == ASSUME SessionInit PROVE SessionTypes
<1>1. script = <<>> /\ mi = <<>> /\ \A S : <<>> \in Seq(S)
  BY DEF SessionInit
<1>2. port \in BOOLEAN /\ inbox \in BOOLEAN /\ sending \in BOOLEAN
  BY DEF SessionInit
<1> QED
  BY <1>1, <1>2 DEF SessionInit, SessionTypes

LEMMA SessionTypesNext == ASSUME SessionTypes, [SessionNext]_allvars PROVE SessionTypes'
<1> USE DEF SessionTypes
<1>1. ASSUME NEW s \in Scripts, StartScript(s) PROVE SessionTypes'
  BY <1>1, KgdbSessionAssumption DEF StartScript
<1>2. CASE ScriptStep
  <2>1. script' \in Seq({"gdb", "entry", "console", "sysrq"})
    BY <1>2 DEF ScriptStep
  <2> QED
    BY <1>2, <2>1 DEF ScriptStep
<1>3. CASE UserConsole
  BY <1>3 DEF UserConsole, session
<1>4. CASE Breakpoint
  BY <1>4 DEF Breakpoint
<1>5. CASE PumpContinue
  BY <1>5 DEF PumpContinue
<1>6. CASE PumpStop
  BY <1>6 DEF PumpStop
<1>7. CASE DeliverStop
  BY <1>7 DEF DeliverStop
<1>8. ASSUME NEW w \in Writers, Arrive(w) PROVE SessionTypes'
  BY <1>8 DEF Arrive
<1>9. CASE GdbStops
  <2>1. mi' \in Seq({"stopped", "running"})
    BY <1>9 DEF GdbStops
  <2> QED
    BY <1>9, <2>1 DEF GdbStops
<1>10. CASE GdbContinues
  <2>1. mi' \in Seq({"stopped", "running"})
    BY <1>10 DEF GdbContinues
  <2> QED
    BY <1>10, <2>1 DEF GdbContinues
<1>11. ASSUME NEW n \in 1 .. Len(mi), HandleRecords(n) PROVE SessionTypes'
  <2>1. mi' \in Seq({"stopped", "running"})
    <3>1. \A i \in n + 1 .. Len(mi) : i \in 1 .. Len(mi)
      OBVIOUS
    <3> QED
      BY <1>11, <3>1, SubSeqProperties DEF HandleRecords
  <2> QED
    BY <1>11, <2>1 DEF HandleRecords
<1>12. CASE UNCHANGED session
  BY <1>12 DEF session
<1> QED
  BY SessionSteps, <1>1, <1>2, <1>3, <1>4, <1>5, <1>6, <1>7, <1>8, <1>9, <1>10, <1>11, <1>12 DEF allvars

(* A step of the session is one of the mux, or leaves it alone.            *)
LEMMA SessionStepIsMuxStep ==
    ASSUME SessionTypes, [SessionNext]_allvars
    PROVE  [Next]_vars
<1> USE DEF Next, Command, StateReport, Write
<1>1. CASE ScriptStep
  <2>1. script # <<>> /\ Job \in Jobs /\ Job \in Threads /\ Job \in Writers
    BY <1>1 DEF ScriptStep, SessionTypes, Threads, Writers
  <2>2. Head(script) \in {"gdb", "entry", "console", "sysrq"}
    BY <2>1 DEF SessionTypes
  <2>3. CASE Head(script) = "sysrq"
    BY <1>1, <2>1, <2>3 DEF ScriptStep
  <2>4. CASE Head(script) # "sysrq"
    BY <1>1, <2>1, <2>2, <2>4 DEF ScriptStep
  <2> QED
    BY <2>3, <2>4
<1>2. CASE UserConsole
  BY <1>2 DEF UserConsole, Threads
<1>3. CASE PumpContinue
  BY <1>3 DEF PumpContinue, Writers
<1>4. CASE PumpStop
  BY <1>4 DEF PumpStop
<1>5. CASE DeliverStop
  BY <1>5 DEF DeliverStop
<1>6. ASSUME NEW w \in Writers, Arrive(w) PROVE [Next]_vars
  BY <1>6 DEF Arrive
<1>7. ASSUME NEW n \in 1 .. Len(mi), HandleRecords(n) PROVE [Next]_vars
  <2>1. mi[n] \in {"running", "stopped", "prompt"}
    BY DEF SessionTypes
  <2> QED
    BY <1>7, <2>1 DEF HandleRecords
<1>8. CASE Take("console")
  BY <1>8 DEF Writers
<1>9. CASE \E t \in Threads : SetMiAuto(t) \/ SetKgdbSerial(t) \/ SetOwner(t)
  BY <1>9
<1>10. CASE Check \/ AutoSet \/ \E w \in Writers : Lock(w) \/ Partial(w)
  BY <1>10
<1>11. CASE UNCHANGED vars
  BY <1>11
<1> QED
  BY SessionSteps, <1>1, <1>2, <1>3, <1>4, <1>5, <1>6, <1>7, <1>8, <1>9, <1>10, <1>11
  DEF allvars, StartScript, Breakpoint, GdbStops, GdbContinues

(* A kgdb session is a behaviour of the mux: what is proved of the mux     *)
(* holds in it, whatever scripts, GDB and the board do.                    *)
THEOREM SessionUsesMux == SessionSpec => Spec /\ []WholeMessages
<1>1. SessionInit => Init /\ SessionTypes
  BY SessionTypesInit DEF SessionInit
<1>2. SessionTypes /\ [SessionNext]_allvars => SessionTypes' /\ [Next]_vars
  BY SessionTypesNext, SessionStepIsMuxStep
<1>3. Spec => []WholeMessages
  BY MessagesAreWhole
<1> QED
  BY <1>1, <1>2, <1>3, PTL DEF SessionSpec, Spec
---------------------------------------------------------------------------
(* The owner of the UART in a session whose scripts switch first *)

(* "Owner must already be gdb (or entering-debugger)" when a script breaks *)
(* in (KERNEL_KGDB.md:552), and the console is left to the user.           *)
SwitchesFirst ==
    \A s \in Scripts : \A i \in 1 .. Len(s) :
        /\ s[i] # "console"
        /\ s[i] = "sysrq" => \E j \in 1 .. i - 1 : s[j] \in {"gdb", "entry"}

(* What the UI thread is in: a report, or the user's switch to the console *)
(* that found a running board and nothing in flight.                       *)
UIReports ==
    /\ call[UI].op \in {"none", "console", "running", "stopped"}
    /\ call[UI].op = "none" <=> call[UI].pc = "idle"
    /\ call[UI].op \in {"running", "stopped"} => kgdbSerial /\ call[UI].pc \in {"check", "set"}
    /\ call[UI].pc = "set" => call[UI].op = "stopped" /\ owner # "terminal"

ConsoleIsLast ==
    call[UI].op = "console" =>
        /\ call[UI].pc \in {"miAuto", "kgdbSerial", "owner"}
        /\ kernel = "running" /\ script = <<>> /\ mi = <<>>
        /\ \A t \in Jobs : Free(t)

(* The console gets the UART back only by that switch: until then both     *)
(* flags are up, and no report of a running target gives it away.          *)
OwnerIsKept ==
    /\ owner # "terminal" /\ call[UI].op # "console" => miAuto /\ kgdbSerial
    /\ mi # <<>> => kgdbSerial
    /\ kernel = "stopped" => owner # "terminal"
    /\ rx.pc = "routed" => rx.to # "terminal"
    /\ owner = asked \/ (asked = "entering_debugger" /\ owner = "debugger")

(* A job breaks in only after it has switched.                             *)
JobsSwitchFirst ==
    /\ \A t \in Jobs :
         /\ tx[t] # "idle" => owner # "terminal" /\ call[t].pc = "idle"
         /\ call[t].pc # "idle" => /\ call[t].op \in {"gdb", "entry"}
                                   /\ call[t].pc \in {"miAuto", "kgdbSerial", "owner"}
         /\ call[t].pc = "kgdbSerial" => miAuto
         /\ call[t].pc = "owner" => miAuto /\ kgdbSerial
    /\ \A i \in 1 .. Len(script) :
         /\ script[i] # "console"
         /\ script[i] = "sysrq" => \/ \E j \in 1 .. i - 1 : script[j] \in {"gdb", "entry"}
                                   \/ call[Job].pc # "idle"
                                   \/ owner # "terminal"

Ownership == UIReports /\ ConsoleIsLast /\ OwnerIsKept /\ JobsSwitchFirst

(* A stop or a continue is on the line, in one place, or neither is.       *)
OnTheLine ==
    /\ kernel = "running" => gdb = "waiting" /\ ~ StopOnItsWay /\ ~ ContinueOnItsWay
    /\ kernel = "stopped" => /\ ~ (StopOnItsWay /\ ContinueOnItsWay)
                             /\ gdb = "waiting" <=> StopOnItsWay \/ ContinueOnItsWay
    /\ ~ (port /\ inbox) /\ ~ (port /\ rx.pc = "routed") /\ ~ (inbox /\ rx.pc = "routed")
    /\ ~ (sending /\ tx["gdb"] # "idle")

SessionInv == TypeOK /\ SessionTypes /\ Ownership /\ OnTheLine

LEMMA SessionInvInit == ASSUME SessionInit PROVE SessionInv
<1>1. TypeOK /\ SessionTypes
  BY InitTypeOK, SessionTypesInit DEF SessionInit
<1>2. \A t \in Threads : call[t].pc = "idle" /\ call[t].op = "none"
  BY DEF SessionInit, Init, none
<1>3. /\ \A w \in Writers : tx[w] = "idle"
      /\ owner = "terminal" /\ asked = "terminal" /\ rx.pc = "idle" /\ Len(script) = 0 /\ mi = <<>>
  BY DEF SessionInit, Init
<1>4. Ownership
  <2>1. UIReports /\ ConsoleIsLast
    BY <1>2 DEF UIReports, ConsoleIsLast, Threads
  <2>2. OwnerIsKept
    BY <1>3 DEF SessionInit, OwnerIsKept
  <2>3. JobsSwitchFirst
    <3>1. \A t \in Jobs : call[t].pc = "idle" /\ tx[t] = "idle"
      BY <1>2, <1>3 DEF Threads, Writers
    <3>2. \A i \in 1 .. Len(script) : FALSE
      BY <1>3
    <3> QED
      BY <3>1, <3>2 DEF JobsSwitchFirst
  <2> QED
    BY <2>1, <2>2, <2>3 DEF Ownership
<1>5. OnTheLine
  BY <1>3 DEF SessionInit, OnTheLine, StopOnItsWay, ContinueOnItsWay, Writers
<1> QED
  BY <1>1, <1>4, <1>5 DEF SessionInv

(* Steps that leave what the parts are about.                              *)
LEMMA OwnershipSame ==
    ASSUME Ownership, UNCHANGED <<owner, asked, flags, call, rx, kernel, script, mi>>,
           \A t \in Jobs : tx'[t] = "idle" <=> tx[t] = "idle"
    PROVE  Ownership'
  BY DEF Ownership, UIReports, ConsoleIsLast, OwnerIsKept, JobsSwitchFirst, flags, Free

LEMMA LineSame ==
    ASSUME OnTheLine, UNCHANGED <<kernel, gdb, port, inbox, rx, sending>>,
           tx'["gdb"] = "idle" <=> tx["gdb"] = "idle"
    PROVE  OnTheLine' /\ UNCHANGED <<StopOnItsWay, ContinueOnItsWay>>
  BY DEF OnTheLine, StopOnItsWay, ContinueOnItsWay

(* A thread in a command of the mux goes on.                               *)
LEMMA OwnershipOfThread ==
    ASSUME SessionInv, UNCHANGED session, NEW t \in Threads,
           SetMiAuto(t) \/ SetKgdbSerial(t) \/ SetOwner(t)
    PROVE  Ownership'
<1> USE DEF SessionInv, Ownership, session
<1>0. UI \notin Jobs /\ Threads = {UI} \cup Jobs
  BY SerialMuxAssumption DEF Threads
<1>1. UNCHANGED <<kernel, script, mi, rx, tx>>
  BY DEF SetMiAuto, SetKgdbSerial, SetOwner, lines
<1>2. CASE t = UI
  <2>1. /\ call[UI].op = "console" /\ call[UI].pc \in {"miAuto", "kgdbSerial", "owner"}
        /\ kernel = "running" /\ script = <<>> /\ mi = <<>>
        /\ \A u \in Jobs : call[u].pc = "idle" /\ tx[u] = "idle"
    BY <1>2 DEF UIReports, ConsoleIsLast, SetMiAuto, SetKgdbSerial, SetOwner, Free
  <2>2. \A u \in Jobs : call'[u] = call[u] /\ tx'[u] = tx[u]
    BY <1>0, <1>1, <1>2 DEF SetMiAuto, SetKgdbSerial, SetOwner, TypeOK
  <2>3. JobsSwitchFirst'
    <3>1. Len(script') = 0
      BY <1>1, <2>1
    <3> QED
      BY <2>1, <2>2, <3>1 DEF JobsSwitchFirst
  <2>4. CASE SetMiAuto(UI)
    <3>1. call'[UI].op = "console" /\ call'[UI].pc = "kgdbSerial" /\ UNCHANGED <<owner, kgdbSerial, asked>>
      BY <1>0, <2>1, <2>4 DEF SetMiAuto, TypeOK, aux
    <3> QED
      BY <1>1, <2>1, <2>2, <2>3, <3>1 DEF UIReports, ConsoleIsLast, OwnerIsKept, Free
  <2>5. CASE SetKgdbSerial(UI)
    <3>1. call'[UI].op = "console" /\ call'[UI].pc = "owner" /\ UNCHANGED <<owner, asked>>
      BY <1>0, <2>1, <2>5 DEF SetKgdbSerial, TypeOK, aux
    <3> QED
      BY <1>1, <2>1, <2>2, <2>3, <3>1 DEF UIReports, ConsoleIsLast, OwnerIsKept, Free
  <2>6. CASE SetOwner(UI)
    <3>1. call'[UI].op = "none" /\ call'[UI].pc = "idle" /\ owner' = "terminal" /\ asked' = "terminal"
      BY <1>0, <2>1, <2>6 DEF SetOwner, TypeOK, Give, OwnerOf, none
    <3> QED
      BY <1>1, <2>1, <3>1, <2>3 DEF UIReports, ConsoleIsLast, OwnerIsKept
  <2> QED
    BY <1>2, <2>4, <2>5, <2>6
<1>3. CASE t \in Jobs
  <2>1. /\ call[t].op \in {"gdb", "entry"} /\ call[t].pc \in {"miAuto", "kgdbSerial", "owner"}
        /\ call[UI].op # "console"
    BY <1>3 DEF JobsSwitchFirst, ConsoleIsLast, SetMiAuto, SetKgdbSerial, SetOwner, Free
  <2>2. /\ call'[UI] = call[UI] /\ \A u \in Jobs \ {t} : call'[u] = call[u]
        /\ \A u \in Jobs : tx'[u] = tx[u]
    BY <1>0, <1>1, <1>3 DEF SetMiAuto, SetKgdbSerial, SetOwner, TypeOK
  <2>3. /\ miAuto => miAuto'
        /\ kgdbSerial => kgdbSerial'
        /\ owner # "terminal" => owner' # "terminal"
        /\ owner' # "terminal" => owner # "terminal" \/ (miAuto /\ kgdbSerial)
        /\ owner' = asked' \/ (asked' = "entering_debugger" /\ owner' = "debugger")
    BY <1>3, <2>1 DEF SetMiAuto, SetKgdbSerial, SetOwner, Give, OwnerOf, JobsSwitchFirst, OwnerIsKept,
       flags, aux
  <2>4. UIReports' /\ ConsoleIsLast'
    BY <1>1, <2>1, <2>2, <2>3 DEF UIReports, ConsoleIsLast
  <2>5. OwnerIsKept'
    BY <1>1, <2>1, <2>2, <2>3 DEF OwnerIsKept
  <2>6. /\ call'[t].pc # "idle" => /\ call'[t].op = call[t].op
                                   /\ call'[t].pc \in {"kgdbSerial", "owner"}
        /\ call'[t].pc = "kgdbSerial" => miAuto'
        /\ call'[t].pc = "owner" => miAuto' /\ kgdbSerial'
        /\ call'[t].pc = "idle" => owner' # "terminal"
    <3>1. CASE SetMiAuto(t)
      <4>1. call'[t].op = call[t].op /\ call'[t].pc = "kgdbSerial" /\ miAuto'
        BY <1>0, <1>3, <2>1, <3>1 DEF SetMiAuto, TypeOK
      <4> QED
        BY <4>1
    <3>2. CASE SetKgdbSerial(t)
      <4>1. call'[t].op = call[t].op /\ call'[t].pc = "owner" /\ miAuto' /\ kgdbSerial'
        BY <1>0, <1>3, <2>1, <3>2 DEF SetKgdbSerial, TypeOK, JobsSwitchFirst
      <4> QED
        BY <4>1
    <3>3. CASE SetOwner(t)
      <4>1. call'[t].pc = "idle" /\ owner' # "terminal"
        BY <1>0, <1>3, <2>1, <3>3 DEF SetOwner, Give, OwnerOf, none, TypeOK
      <4> QED
        BY <4>1
    <3> QED
      BY <3>1, <3>2, <3>3
  <2>7. JobsSwitchFirst'
    <3>1. \A u \in Jobs : tx[u] # "idle" => u # t
      BY <2>1 DEF JobsSwitchFirst
    <3>2. ASSUME NEW i \in 1 .. Len(script)
          PROVE  call[Job].pc # "idle" => call'[Job].pc # "idle" \/ owner' # "terminal"
      <4>1. Job \in Jobs
        BY DEF SessionTypes
      <4> QED
        BY <2>2, <2>6, <4>1
    <3> QED
      BY <1>1, <2>1, <2>2, <2>3, <2>6, <3>1, <3>2 DEF JobsSwitchFirst
  <2> QED
    BY <2>4, <2>5, <2>7
<1> QED
  BY <1>0, <1>2, <1>3

(* The UI thread reports what GDB said.                                    *)
LEMMA OwnershipOfReport ==
    ASSUME SessionInv,
           \/ (Check \/ AutoSet) /\ UNCHANGED session
           \/ \E n \in 1 .. Len(mi) : HandleRecords(n)
    PROVE  Ownership'
<1> USE DEF SessionInv, Ownership
<1>0. UI \notin Jobs /\ Threads = {UI} \cup Jobs
  BY SerialMuxAssumption DEF Threads
<1>1. UNCHANGED <<asked, miAuto, kgdbSerial, rx, tx, kernel, script>>
  BY DEF Check, AutoSet, HandleRecords, OnDebuggerState, session, flags, lines, aux, vars
<1>2. \A t \in Jobs : call'[t] = call[t]
  BY <1>0 DEF Check, AutoSet, HandleRecords, OnDebuggerState, vars, TypeOK
<1>j. ASSUME owner # "terminal" => owner' # "terminal" PROVE JobsSwitchFirst'
  <2>1. ASSUME NEW i \in 1 .. Len(script) PROVE call'[Job] = call[Job]
    BY <1>2 DEF SessionTypes
  <2> QED
    BY <1>1, <1>2, <1>j, <2>1 DEF JobsSwitchFirst
<1>3. CASE Check /\ UNCHANGED session
  <2>1. call[UI].pc = "check" /\ call[UI].op \in {"running", "stopped"} /\ kgdbSerial /\ mi' = mi /\ owner' = owner
    BY <1>3 DEF Check, UIReports, ConsoleIsLast, session
  <2>2. \/ call'[UI].pc = "idle" /\ call'[UI].op = "none"
        \/ call'[UI].pc = "set" /\ call'[UI].op = "stopped" /\ owner # "terminal"
    <3>1. CASE Moves(call[UI].op)
      <4>1. call'[UI].pc = "set" /\ call'[UI].op = call[UI].op
        BY <1>0, <1>3, <3>1 DEF Check, TypeOK
      <4>2. call[UI].op = "stopped" /\ owner # "terminal"
        BY <2>1, <3>1 DEF Moves
      <4> QED
        BY <4>1, <4>2
    <3>2. CASE ~ Moves(call[UI].op)
      BY <1>0, <1>3, <3>2 DEF Check, TypeOK, none
    <3> QED
      BY <3>1, <3>2
  <2> QED
    BY <1>1, <1>j, <2>1, <2>2 DEF UIReports, ConsoleIsLast, OwnerIsKept
<1>4. CASE AutoSet /\ UNCHANGED session
  <2>1. call[UI].op = "stopped" /\ owner # "terminal" /\ kgdbSerial /\ mi' = mi /\ miAuto
    BY <1>4 DEF AutoSet, UIReports, ConsoleIsLast, OwnerIsKept, session
  <2>2. call'[UI].pc = "idle" /\ call'[UI].op = "none" /\ owner' = "debugger"
    BY <1>0, <1>4, <2>1 DEF AutoSet, Give, TypeOK, none
  <2>3. asked \in {"entering_debugger", "debugger"}
    BY <2>1 DEF OwnerIsKept, TypeOK, Owners
  <2> QED
    BY <1>1, <1>j, <2>1, <2>2, <2>3 DEF UIReports, ConsoleIsLast, OwnerIsKept
<1>5. ASSUME NEW n \in 1 .. Len(mi), HandleRecords(n) PROVE Ownership'
  <2>1. mi # <<>> /\ kgdbSerial /\ mi[n] \in {"stopped", "running"} /\ call[UI].op = "none" /\ owner' = owner
    BY <1>5 DEF HandleRecords, SessionTypes, OwnerIsKept, UIReports, Free, OnDebuggerState, vars
  <2>2. \/ call'[UI] = call[UI]
        \/ call'[UI].pc = "check" /\ call'[UI].op = mi[n]
    BY <1>0, <1>5 DEF HandleRecords, OnDebuggerState, vars, TypeOK
  <2> QED
    BY <1>1, <1>j, <2>1, <2>2 DEF UIReports, ConsoleIsLast, OwnerIsKept
<1> QED
  BY <1>3, <1>4, <1>5

(* A script starts, or does one of its steps.                              *)
LEMMA OwnershipOfScript ==
    ASSUME SwitchesFirst, SessionInv, ScriptStep \/ \E s \in Scripts : StartScript(s)
    PROVE  Ownership'
<1> USE DEF SessionInv, Ownership
<1>0. UI \notin Jobs /\ Threads = {UI} \cup Jobs /\ Jobs \subseteq Writers
  BY SerialMuxAssumption DEF Threads, Writers
<1>1. UNCHANGED <<owner, asked, miAuto, kgdbSerial, rx, kernel, mi>>
  BY DEF ScriptStep, StartScript, Take, Switch, flags, aux, vars
<1>2. ASSUME NEW s \in Scripts, StartScript(s) PROVE Ownership'
  <2>1. call' = call /\ tx' = tx /\ script' = s /\ call[UI].op # "console"
    BY <1>0, <1>2 DEF StartScript, Idle, Free, UIReports, vars, lines
  <2>2. UIReports' /\ ConsoleIsLast' /\ OwnerIsKept'
    BY <1>1, <2>1 DEF UIReports, ConsoleIsLast, OwnerIsKept
  <2>3. JobsSwitchFirst'
    BY <1>1, <2>1 DEF JobsSwitchFirst, SwitchesFirst
  <2> QED
    BY <2>2, <2>3
<1>3. CASE ScriptStep
  <2>1. /\ script # <<>> /\ Job \in Jobs /\ script' = Tail(script) /\ call[UI].op # "console"
        /\ call[Job].pc = "idle" /\ tx[Job] = "idle"
    BY <1>3 DEF ScriptStep, SessionTypes, ConsoleIsLast, Take, Switch, Free
  <2>2. /\ Len(script) \in Nat /\ Len(script) >= 1 /\ Head(script) = script[1]
        /\ Len(script') = Len(script) - 1
        /\ \A i \in 1 .. Len(script') : script'[i] = script[i + 1]
    BY <2>1, EmptySeq, HeadTailProperties DEF SessionTypes
  <2>3. CASE script[1] = "sysrq"
    <3>1. /\ call' = call /\ \A t \in Jobs \ {Job} : tx'[t] = tx[t]
      BY <1>0, <1>3, <2>1, <2>2, <2>3 DEF ScriptStep, Take, TypeOK
    <3>2. owner # "terminal"
      BY <2>1, <2>2, <2>3 DEF JobsSwitchFirst
    <3>3. \A i \in 1 .. Len(script') : script'[i] # "console"
      BY <2>2 DEF JobsSwitchFirst
    <3>4. JobsSwitchFirst'
      BY <1>1, <2>1, <3>1, <3>2, <3>3 DEF JobsSwitchFirst
    <3> QED
      BY <1>1, <2>1, <3>1, <3>4 DEF UIReports, ConsoleIsLast, OwnerIsKept
  <2>4. CASE script[1] # "sysrq"
    <3>1. script[1] \in {"gdb", "entry"}
      BY <2>1, <2>2, <2>4 DEF JobsSwitchFirst, SessionTypes
    <3>2. /\ call' = [call EXCEPT ![Job] = [pc |-> "miAuto", op |-> script[1]]] /\ tx' = tx
      BY <1>3, <2>2, <2>4 DEF ScriptStep, Switch, lines
    <3>3. /\ call'[UI] = call[UI] /\ \A t \in Jobs \ {Job} : call'[t] = call[t]
          /\ call'[Job].pc = "miAuto" /\ call'[Job].op \in {"gdb", "entry"}
      BY <1>0, <2>1, <3>1, <3>2 DEF TypeOK
    <3>4. \A i \in 1 .. Len(script') : script'[i] # "console"
      BY <2>2 DEF JobsSwitchFirst
    <3>5. JobsSwitchFirst'
      BY <1>1, <2>1, <3>2, <3>3, <3>4 DEF JobsSwitchFirst
    <3> QED
      BY <1>1, <2>1, <3>2, <3>3, <3>5 DEF UIReports, ConsoleIsLast, OwnerIsKept
  <2> QED
    BY <2>3, <2>4
<1> QED
  BY <1>2, <1>3

(* The board stops, is heard, and goes on; the user answers.               *)
LEMMA OwnershipOfBoard ==
    ASSUME SessionInv,
           \/ UserConsole \/ Breakpoint \/ PumpContinue \/ PumpStop \/ DeliverStop
           \/ GdbStops \/ GdbContinues \/ \E w \in Writers : Arrive(w)
    PROVE  Ownership'
<1> USE DEF SessionInv, Ownership
<1>0. UI \notin Jobs /\ Threads = {UI} \cup Jobs /\ "gdb" \notin Jobs /\ "gdb" \in Writers /\ Jobs \subseteq Writers
  BY SerialMuxAssumption DEF Threads, Writers
<1>1. CASE UserConsole
  <2>1. call' = [call EXCEPT ![UI] = [pc |-> "miAuto", op |-> "console"]]
        /\ UNCHANGED <<owner, asked, miAuto, kgdbSerial, rx, tx, kernel, mi, script>>
    BY <1>1 DEF UserConsole, Switch, flags, aux, lines, session
  <2>2. call'[UI].pc = "miAuto" /\ call'[UI].op = "console" /\ \A t \in Jobs : call'[t] = call[t]
    BY <1>0, <2>1 DEF TypeOK
  <2>3. kernel = "running" /\ script = <<>> /\ mi = <<>> /\ \A t \in Jobs : Free(t)
    BY <1>0, <1>1 DEF UserConsole, Idle
  <2>4. UIReports' /\ ConsoleIsLast' /\ OwnerIsKept'
    BY <2>1, <2>2, <2>3 DEF UIReports, ConsoleIsLast, OwnerIsKept, Free
  <2>5. JobsSwitchFirst'
    BY <2>1, <2>2, <2>3, EmptySeq DEF JobsSwitchFirst
  <2> QED
    BY <2>4, <2>5
<1>2. CASE Breakpoint
  <2>1. owner # "terminal" /\ call[UI].op # "console"
        /\ UNCHANGED <<owner, asked, flags, call, tx, rx, script, mi>>
    BY <1>2 DEF Breakpoint, vars, lines, aux
  <2> QED
    BY <2>1 DEF UIReports, ConsoleIsLast, OwnerIsKept, JobsSwitchFirst, flags
<1>3. CASE PumpContinue
  <2>1. \A t \in Jobs : tx'[t] = tx[t]
    BY <1>0, <1>3 DEF PumpContinue, Take, vars, lines, TypeOK
  <2> QED
    BY <1>3, <2>1, OwnershipSame DEF PumpContinue, Take, vars, lines, aux
<1>4. CASE PumpStop
  <2>1. kernel = "stopped"
    BY <1>4 DEF PumpStop, OnTheLine, StopOnItsWay, SessionTypes
  <2>2. owner # "terminal" /\ rx' = [pc |-> "routed", to |-> owner]
        /\ UNCHANGED <<owner, asked, flags, call, tx, kernel, script, mi>>
    BY <1>4, <2>1 DEF PumpStop, RxRoute, OwnerIsKept, lines, aux
  <2> QED
    BY <2>2 DEF UIReports, ConsoleIsLast, OwnerIsKept, JobsSwitchFirst, flags, Free
<1>5. CASE DeliverStop
  <2>1. rx'.pc = "idle" /\ UNCHANGED <<owner, asked, flags, call, tx, kernel, script, mi>>
    BY <1>5 DEF DeliverStop, RxDeliver, lines, TypeOK
  <2> QED
    BY <2>1 DEF UIReports, ConsoleIsLast, OwnerIsKept, JobsSwitchFirst, flags, Free
<1>6. CASE GdbStops \/ GdbContinues
  <2>1. kernel = "stopped"
    BY <1>6 DEF GdbStops, GdbContinues, OnTheLine, StopOnItsWay, SessionTypes
  <2>2. call[UI].op # "console" /\ kgdbSerial
    BY <2>1 DEF ConsoleIsLast, OwnerIsKept
  <2>3. UNCHANGED <<owner, asked, flags, call, tx, rx, kernel, script>>
    BY <1>6 DEF GdbStops, GdbContinues, vars, lines, aux
  <2> QED
    BY <2>2, <2>3 DEF UIReports, ConsoleIsLast, OwnerIsKept, JobsSwitchFirst, flags
<1>7. ASSUME NEW w \in Writers, Arrive(w) PROVE Ownership'
  <2>1. tx[w] # "idle" /\ tx'[w] = "idle" /\ \A v \in Writers \ {w} : tx'[v] = tx[v]
    BY <1>7 DEF Arrive, Complete, TypeOK
  <2>2. UNCHANGED <<owner, asked, flags, call, rx, script, mi>>
    BY <1>7 DEF Arrive, Complete
  <2>3. JobsSwitchFirst'
    <3>1. \A t \in Jobs : tx'[t] # "idle" => tx[t] # "idle"
      BY <1>0, <2>1
    <3> QED
      BY <2>2, <3>1 DEF JobsSwitchFirst, flags
  <2>4. CASE w \in Jobs
    <3>1. owner # "terminal" /\ call[UI].op # "console"
      BY <2>1, <2>4 DEF JobsSwitchFirst, ConsoleIsLast, Free
    <3> QED
      BY <2>2, <2>3, <3>1 DEF UIReports, ConsoleIsLast, OwnerIsKept, flags
  <2>5. CASE w \notin Jobs
    <3>1. kernel' \in {kernel, "running"} /\ \A t \in Jobs : tx'[t] = tx[t]
      BY <1>0, <1>7, <2>1, <2>5 DEF Arrive
    <3> QED
      BY <2>2, <2>3, <3>1 DEF UIReports, ConsoleIsLast, OwnerIsKept, Free, flags
  <2> QED
    BY <2>4, <2>5
<1> QED
  BY <1>1, <1>2, <1>3, <1>4, <1>5, <1>6, <1>7

LEMMA OwnershipNext ==
    ASSUME SwitchesFirst, SessionInv, [SessionNext]_allvars
    PROVE  Ownership'
<1>0. "console" \notin Jobs /\ Jobs \subseteq Writers /\ "console" \in Writers
  BY SerialMuxAssumption DEF Writers
<1>1. ASSUME NEW w \in Writers, Take("console") \/ Lock(w) \/ Partial(w), UNCHANGED session PROVE Ownership'
  <2>1. \A t \in Jobs : tx'[t] = "idle" <=> tx[t] = "idle"
    BY <1>0, <1>1 DEF Take, Lock, Partial, SessionInv, TypeOK
  <2>2. UNCHANGED <<owner, asked, flags, call, rx>>
    BY <1>1 DEF Take, Lock, Partial, aux
  <2> QED
    BY <1>1, <2>1, <2>2, OwnershipSame DEF SessionInv, session
<1>2. CASE UNCHANGED allvars
  BY <1>2, OwnershipSame DEF SessionInv, allvars, vars, session, aux, lines
<1> QED
  BY <1>0, <1>1, <1>2, SessionSteps, OwnershipOfThread, OwnershipOfReport, OwnershipOfScript, OwnershipOfBoard
---------------------------------------------------------------------------
(* What is on the line *)

LinkStep == [Link!LinkNext]_(Link!linkvars)

(* A step of the line: what each step of the session is to GDB and the     *)
(* board, which see one message at most.                                   *)
LEMMA LineNext ==
    ASSUME SessionInv, [SessionNext]_allvars
    PROVE  OnTheLine' /\ LinkStep
<1> USE DEF SessionInv
<1>0. "gdb" \notin Jobs /\ "gdb" # "console" /\ "gdb" \in Writers /\ Jobs \subseteq Writers
  BY SerialMuxAssumption DEF Writers
<1>s. ASSUME UNCHANGED <<kernel, gdb, port, inbox, rx, sending>>, tx'["gdb"] = "idle" <=> tx["gdb"] = "idle"
      PROVE  OnTheLine' /\ LinkStep
  <2>1. OnTheLine' /\ UNCHANGED <<StopOnItsWay, ContinueOnItsWay>>
    BY <1>s, LineSame
  <2>2. UNCHANGED Link!linkvars
    BY <1>s, <2>1 DEF Link!linkvars, Message
  <2> QED
    BY <2>1, <2>2 DEF LinkStep
<1>1. ASSUME NEW s \in Scripts, StartScript(s) PROVE OnTheLine' /\ LinkStep
  BY <1>1, <1>s DEF StartScript, vars, lines
<1>2. CASE ScriptStep
  <2>1. tx'["gdb"] = tx["gdb"]
    BY <1>0, <1>2 DEF ScriptStep, Take, Switch, lines, TypeOK, SessionTypes
  <2> QED
    BY <1>2, <1>s, <2>1 DEF ScriptStep, Take, Switch
<1>3. CASE UserConsole
  BY <1>3, <1>s DEF UserConsole, Switch, session, lines
<1>4. CASE Breakpoint
  <2>1. /\ kernel = "running" /\ kernel' = "stopped" /\ port' /\ ~ StopOnItsWay /\ ~ ContinueOnItsWay
        /\ UNCHANGED <<gdb, inbox, rx, sending, tx>> /\ gdb = "waiting"
    BY <1>4 DEF Breakpoint, OnTheLine, vars, lines
  <2>2. OnTheLine' /\ StopOnItsWay' /\ ~ ContinueOnItsWay'
    <3>1. rx.pc # "routed"
      BY <2>1 DEF Ownership, OwnerIsKept, StopOnItsWay
    <3> QED
      BY <2>1, <3>1 DEF OnTheLine, StopOnItsWay, ContinueOnItsWay
  <2> QED
    BY <2>1, <2>2 DEF LinkStep, Link!LinkNext, Link!Stop, Message
<1>5. CASE PumpContinue
  <2>1. /\ sending /\ ~ sending' /\ kernel = "stopped" /\ tx["gdb"] = "idle"
        /\ UNCHANGED <<kernel, gdb, port, inbox, rx>>
    BY <1>5 DEF PumpContinue, Take, OnTheLine, ContinueOnItsWay, SessionTypes, vars
  <2>2. owner \in {"entering_debugger", "debugger"}
    BY <2>1 DEF Ownership, OwnerIsKept, TypeOK, Owners
  <2>3. tx'["gdb"] # "idle"
    BY <1>0, <1>5, <2>2 DEF PumpContinue, gdbTxAllowed, Take, TypeOK
  <2>4. OnTheLine' /\ UNCHANGED <<StopOnItsWay, ContinueOnItsWay>>
    BY <2>1, <2>3 DEF OnTheLine, StopOnItsWay, ContinueOnItsWay
  <2> QED
    BY <2>1, <2>4 DEF LinkStep, Link!linkvars, Message
<1>6. CASE PumpStop
  <2>1. /\ port /\ ~ port' /\ kernel = "stopped" /\ rx' = [pc |-> "routed", to |-> owner]
        /\ ~ inbox /\ rx.pc = "idle" /\ UNCHANGED <<kernel, gdb, inbox, sending, tx>>
    BY <1>6 DEF PumpStop, RxRoute, OnTheLine, StopOnItsWay, SessionTypes, lines
  <2>2. owner # "terminal"
    BY <2>1 DEF Ownership, OwnerIsKept
  <2>3. OnTheLine' /\ UNCHANGED <<StopOnItsWay, ContinueOnItsWay>>
    BY <2>1, <2>2 DEF OnTheLine, StopOnItsWay, ContinueOnItsWay
  <2> QED
    BY <2>1, <2>3 DEF LinkStep, Link!linkvars, Message
<1>7. CASE DeliverStop
  <2>1. /\ rx.pc = "routed" /\ rx.to # "terminal" /\ rx'.pc = "idle" /\ inbox' /\ ~ inbox /\ ~ port
        /\ UNCHANGED <<kernel, gdb, port, sending, tx>>
    BY <1>7 DEF DeliverStop, RxDeliver, Ownership, OwnerIsKept, OnTheLine, TypeOK, lines
  <2>2. OnTheLine' /\ UNCHANGED <<StopOnItsWay, ContinueOnItsWay>>
    BY <2>1 DEF OnTheLine, StopOnItsWay, ContinueOnItsWay
  <2> QED
    BY <2>1, <2>2 DEF LinkStep, Link!linkvars, Message
<1>8. ASSUME NEW w \in Writers, Arrive(w) PROVE OnTheLine' /\ LinkStep
  <2>0. /\ tx[w] # "idle" /\ tx'[w] = "idle" /\ (w # "gdb" => tx'["gdb"] = tx["gdb"])
        /\ UNCHANGED <<gdb, inbox, rx, sending>>
    BY <1>0, <1>8 DEF Arrive, Complete, TypeOK
  <2>1. CASE w \in Jobs /\ kernel = "running"
    <3>1. kernel' = "stopped" /\ port' /\ w # "gdb"
      BY <1>0, <1>8, <2>1 DEF Arrive
    <3>2. gdb = "waiting" /\ ~ StopOnItsWay /\ ~ ContinueOnItsWay /\ rx.pc # "routed"
      BY <2>1 DEF OnTheLine, Ownership, OwnerIsKept, StopOnItsWay
    <3>3. OnTheLine' /\ StopOnItsWay' /\ ~ ContinueOnItsWay'
      BY <2>0, <3>1, <3>2 DEF OnTheLine, StopOnItsWay, ContinueOnItsWay
    <3> QED
      BY <2>0, <2>1, <3>1, <3>2, <3>3 DEF LinkStep, Link!LinkNext, Link!Stop, Message
  <2>2. CASE w \in Jobs /\ kernel = "stopped"
    <3>1. kernel' = kernel /\ port' = port /\ w # "gdb"
      BY <1>0, <1>8, <2>2 DEF Arrive, SessionTypes
    <3> QED
      BY <1>s, <2>0, <3>1
  <2>3. CASE w = "gdb"
    <3>1. kernel' = "running" /\ port' = port
      BY <1>0, <1>8, <2>3 DEF Arrive, SessionTypes
    <3>2. ContinueOnItsWay /\ kernel = "stopped" /\ ~ StopOnItsWay /\ gdb = "waiting" /\ ~ sending
      BY <2>0, <2>3 DEF OnTheLine, ContinueOnItsWay, SessionTypes
    <3>3. OnTheLine' /\ ~ StopOnItsWay' /\ ~ ContinueOnItsWay'
      BY <2>0, <2>3, <3>1, <3>2 DEF OnTheLine, StopOnItsWay, ContinueOnItsWay
    <3> QED
      BY <2>0, <3>1, <3>2, <3>3 DEF LinkStep, Link!LinkNext, Link!Resume, Message
  <2>4. CASE w = "console"
    <3>1. kernel' = kernel /\ port' = port
      BY <1>8, <2>4, SerialMuxAssumption DEF Arrive, SessionTypes
    <3> QED
      BY <1>s, <2>0, <2>4, <3>1
  <2> QED
    BY <2>1, <2>2, <2>3, <2>4 DEF Writers, SessionTypes
<1>9. CASE GdbStops
  <2>1. /\ inbox /\ ~ inbox' /\ gdb = "waiting" /\ gdb' = "prompt" /\ StopOnItsWay
        /\ UNCHANGED <<kernel, port, rx, sending, tx>>
    BY <1>9 DEF GdbStops, StopOnItsWay, vars, lines
  <2>2. kernel = "stopped" /\ ~ ContinueOnItsWay
    BY <2>1 DEF OnTheLine, SessionTypes
  <2>3. OnTheLine' /\ ~ StopOnItsWay' /\ ~ ContinueOnItsWay'
    BY <2>1, <2>2 DEF OnTheLine, StopOnItsWay, ContinueOnItsWay
  <2> QED
    BY <2>1, <2>3 DEF LinkStep, Link!LinkNext, Link!Notice, Message
<1>10. CASE GdbContinues
  <2>1. /\ gdb = "prompt" /\ gdb' = "waiting" /\ sending' /\ UNCHANGED <<kernel, port, inbox, rx, tx>>
    BY <1>10 DEF GdbContinues, vars, lines
  <2>2. kernel = "stopped" /\ ~ StopOnItsWay /\ ~ ContinueOnItsWay
    BY <2>1 DEF OnTheLine, SessionTypes
  <2>3. OnTheLine' /\ ~ StopOnItsWay' /\ ContinueOnItsWay'
    BY <2>1, <2>2 DEF OnTheLine, StopOnItsWay, ContinueOnItsWay
  <2> QED
    BY <2>1, <2>2, <2>3 DEF LinkStep, Link!LinkNext, Link!Continue, Message
<1>11. ASSUME NEW n \in 1 .. Len(mi), HandleRecords(n) PROVE OnTheLine' /\ LinkStep
  BY <1>11, <1>s DEF HandleRecords, OnDebuggerState, vars, lines
<1>12. ASSUME NEW w \in Writers, Take("console") \/ Lock(w) \/ Partial(w), UNCHANGED session
       PROVE  OnTheLine' /\ LinkStep
  <2>1. tx'["gdb"] = "idle" <=> tx["gdb"] = "idle"
    BY <1>0, <1>12 DEF Take, Lock, Partial, TypeOK
  <2> QED
    BY <1>12, <1>s, <2>1 DEF Take, Lock, Partial, session
<1>13. ASSUME UNCHANGED session,
              \/ \E t \in Threads : SetMiAuto(t) \/ SetKgdbSerial(t) \/ SetOwner(t)
              \/ Check \/ AutoSet
       PROVE  OnTheLine' /\ LinkStep
  BY <1>13, <1>s DEF SetMiAuto, SetKgdbSerial, SetOwner, Check, AutoSet, session, lines
<1>14. CASE UNCHANGED allvars
  BY <1>14, <1>s DEF allvars, vars, session, lines
<1> QED
  BY <1>0, SessionSteps, <1>1, <1>2, <1>3, <1>4, <1>5, <1>6, <1>7, <1>8, <1>9, <1>10, <1>11, <1>12, <1>13, <1>14

LEMMA SessionInvNext ==
    ASSUME SwitchesFirst, SessionInv, [SessionNext]_allvars
    PROVE  SessionInv' /\ LinkStep
  BY SessionStepIsMuxStep, NextTypeOK, SessionTypesNext, OwnershipNext, LineNext DEF SessionInv

(* With scripts that switch the owner first, a board that waits in kgdb is *)
(* one GDB knows of, or a packet that ends the wait is on its way.         *)
THEOREM GdbAndBoardKeepTogether == ASSUME SwitchesFirst PROVE SessionSpec => []GdbFollowsKernel
<1>1. SwitchesFirst /\ SessionInv /\ [SessionNext]_allvars => SessionInv'
  BY SessionInvNext
<1>2. SessionInv => GdbFollowsKernel
  BY DEF SessionInv, OnTheLine, GdbFollowsKernel, SessionTypes
<1>3. SessionInit => SessionInv
  BY SessionInvInit
<1>4. []SwitchesFirst
  BY PTL
<1> QED
  BY <1>1, <1>2, <1>3, <1>4, PTL DEF SessionSpec

(* ... the owner is the one last asked for, though jobs switch it too ...  *)
THEOREM OwnerIsAskedInSession == ASSUME SwitchesFirst PROVE SessionSpec => []OwnerIsLastAsked
<1>1. SwitchesFirst /\ SessionInv /\ [SessionNext]_allvars => SessionInv'
  BY SessionInvNext
<1>2. SessionInv => OwnerIsLastAsked
  BY DEF SessionInv, Ownership, OwnerIsKept, OwnerIsLastAsked
<1>3. SessionInit => SessionInv
  BY SessionInvInit
<1>4. []SwitchesFirst
  BY PTL
<1> QED
  BY <1>1, <1>2, <1>3, <1>4, PTL DEF SessionSpec

(* ... and the session is a line that loses nothing: the safety part of    *)
(* ImplementsLink.                                                         *)
THEOREM SessionIsLink ==
    ASSUME SwitchesFirst PROVE SessionSpec => Link!LinkInit /\ [][Link!LinkNext]_(Link!linkvars)
<1>1. SwitchesFirst /\ SessionInv /\ [SessionNext]_allvars => SessionInv' /\ LinkStep
  BY SessionInvNext
<1>2. SessionInit => Link!LinkInit
  <2> SUFFICES ASSUME SessionInit PROVE Link!LinkInit
    OBVIOUS
  <2>1. kernel = "running" /\ SessionInv
    BY SessionInvInit DEF SessionInit
  <2> QED
    BY <2>1 DEF SessionInv, OnTheLine, Link!LinkInit, Message
<1>3. SessionInit => SessionInv
  BY SessionInvInit
<1>4. []SwitchesFirst
  BY PTL
<1> QED
  BY <1>1, <1>2, <1>3, <1>4, PTL DEF SessionSpec, LinkStep

---------------------------------------------------------------------------
(* Delve: the parser of both clients' text                                 *)

(* Induction over the natural numbers, said of a set instead of a formula: *)
(* the least number outside would have a predecessor inside.               *)
LEMMA SetInduction ==
  ASSUME NEW S, 0 \in S, \A n \in Nat : n \in S => n + 1 \in S
  PROVE  Nat \subseteq S
<1> DEFINE R == {p \in Nat \X Nat : p[1] < p[2]}
           T == Nat \ S
<1> SUFFICES ASSUME T # {} PROVE FALSE
  OBVIOUS
<1>1. IsWellFoundedOn(R, Nat)
  <2>1. IsWellFoundedOn(OpToRel(<, Nat), Nat)
    BY NatLessThanWellFounded, Zenon
  <2>2. OpToRel(<, Nat) = R
    BY DEF OpToRel
  <2> QED BY <2>1, <2>2, Zenon
<1>2. T \subseteq Nat
  OBVIOUS
<1> HIDE DEF T, R
<1>3. PICK x \in T : \A y \in T : ~(<<y, x>> \in R)
  BY <1>1, <1>2, WFMin, Zenon
<1> USE DEF T, R
<1>4. x \in Nat /\ x # 0
  OBVIOUS
<1>5. x - 1 \in Nat /\ x - 1 + 1 = x /\ <<x - 1, x>> \in R
  BY <1>4
<1>6. x - 1 \in S
  BY <1>3, <1>5
<1> QED BY <1>5, <1>6

(* The fold over the first n items, which is well defined: each set of positions  *)
(* has the value of its first ones, with the last consumed.                *)
IsFold(g, base, data, n) ==
  g = [s \in SUBSET (1 .. n) |->
         IF s = {} THEN base ELSE consume(g[s \ {Max(s)}], data[Max(s)])]

LEMMA FoldIsDefined ==
  ASSUME NEW base, NEW data, NEW n \in Nat
  PROVE  \E g : IsFold(g, base, data, n)
<1> USE DEF IsFold
<1> DEFINE Is(g, k) == IsFold(g, base, data, k)
           S == {k \in Nat : \E g : Is(g, k)}
<1>1. 0 \in S
  <2>1. Is([s \in SUBSET (1 .. 0) |-> base], 0)
    OBVIOUS
  <2> QED BY <2>1, Zenon
<1>2. ASSUME NEW k \in Nat, k \in S
      PROVE  k + 1 \in S
  <2>1. PICK g : Is(g, k)
    BY <1>2, Zenon
  <2> DEFINE h == [s \in SUBSET (1 .. k + 1) |->
                     IF k + 1 \in s THEN consume(g[s \ {k + 1}], data[k + 1]) ELSE g[s]]
  <2>2. ASSUME NEW s \in SUBSET (1 .. k + 1)
        PROVE  h[s] = IF s = {} THEN base ELSE consume(h[s \ {Max(s)}], data[Max(s)])
    <3>1. CASE k + 1 \in s
      <4>1. Max(s) = k + 1
        <5>1. k + 1 \in s /\ \A y \in s : k + 1 >= y
          BY <3>1
        <5>2. \A x : x \in s /\ (\A y \in s : x >= y) => x = k + 1
          BY <3>1
        <5> QED BY <5>1, <5>2 DEF Max
      <4>2. s \ {k + 1} \in SUBSET (1 .. k) /\ s \ {k + 1} \in SUBSET (1 .. k + 1)
        OBVIOUS
      <4>3. h[s \ {k + 1}] = g[s \ {k + 1}]
        BY <4>2
      <4> QED BY <3>1, <4>1, <4>3
    <3>2. CASE k + 1 \notin s /\ s # {}
      <4>1. s \in SUBSET (1 .. k)
        BY <3>2
      <4>2. Max(s) \in s
        <5>1. \E x \in s : \A y \in s : x >= y
          <6> DEFINE Q == {j \in Nat : \A r \in SUBSET (1 .. j) : r # {} => \E x \in r : \A y \in r : x >= y}
          <6>1. 0 \in Q
            <7>1. \A r \in SUBSET (1 .. 0) : r = {}
              OBVIOUS
            <7> QED BY <7>1
          <6>2. ASSUME NEW j \in Nat, j \in Q
                PROVE  j + 1 \in Q
            <7>1. ASSUME NEW r \in SUBSET (1 .. j + 1), r # {}
                  PROVE  \E x \in r : \A y \in r : x >= y
              <8>1. CASE j + 1 \in r
                BY <8>1
              <8>2. CASE j + 1 \notin r
                <9>1. r \in SUBSET (1 .. j)
                  BY <8>2
                <9> QED BY <9>1, <7>1, <6>2
              <8> QED BY <8>1, <8>2
            <7> QED BY <7>1
          <6> HIDE DEF Q
          <6>3. Nat \subseteq Q
            BY <6>1, <6>2, SetInduction
          <6>4. k \in Q
            BY <6>3
          <6> QED BY <6>4, <4>1, <3>2 DEF Q
        <5> QED BY <5>1 DEF Max
      <4> DEFINE m == Max(s)
      <4>3. s \ {m} \in SUBSET (1 .. k) /\ s \ {m} \in SUBSET (1 .. k + 1) /\ k + 1 \notin s \ {m}
        BY <4>1, <3>2
      <4>4. g[s] = consume(g[s \ {m}], data[m])
        BY <2>1, <4>1, <3>2
      <4>5. h[s] = g[s] /\ h[s \ {m}] = g[s \ {m}]
        BY <3>2, <4>3
      <4> QED BY <4>4, <4>5, <3>2
    <3>3. CASE s = {}
      BY <2>1, <3>3
    <3> QED BY <3>1, <3>2, <3>3
  <2>3. Is(h, k + 1)
    BY <2>2
  <2> HIDE DEF h
  <2>4. \E f : Is(f, k + 1)
    BY <2>3, Zenon
  <2> HIDE DEF Is
  <2> QED BY <2>4
<1> HIDE DEF S
<1>3. Nat \subseteq S
  BY <1>1, <1>2, SetInduction
<1>4. n \in S
  BY <1>3
<1>5. \E g : Is(g, n)
  BY <1>4, Zenon DEF S
<1> QED BY <1>5

(* PushRaw as a run: what is known after each item. *)
IsRun(f, buf, data) ==
  /\ f[0] = [NoUpdate EXCEPT !.buf = buf]
  /\ \A i \in 1 .. Len(data) : f[i] = consume(f[i - 1], data[i])

(* What a prompt or half a line at the end of the text leaves.             *)
AtEnd(w) == [w EXCEPT !.prompt = @ \/ w.buf = "prompt",
                      !.buf = IF @ = "text" THEN "text" ELSE "none"]

LEMMA RunOfText ==
  ASSUME NEW buf, NEW data, Len(data) \in Nat, DOMAIN data = 1 .. Len(data)
  PROVE  \E f : IsRun(f, buf, data) /\ PushRaw(buf, data) = AtEnd(f[Len(data)])
<1> DEFINE n == Len(data)
           base == [NoUpdate EXCEPT !.buf = buf]
           Rec(g) == IsFold(g, base, data, n)
           iter == CHOOSE g : Rec(g)
           f == [i \in 0 .. n |-> iter[1 .. i]]
<1>1. \E g : Rec(g)
  <2> HIDE DEF base
  <2>1. n \in Nat
    OBVIOUS
  <2> HIDE DEF n
  <2> QED BY <2>1, FoldIsDefined, Zenon
<1>2. Rec(iter)
  BY <1>1, Zenon
<1> USE DEF IsFold
<1>3. PushRaw(buf, data) = AtEnd(iter[1 .. n])
  BY DEF PushRaw, FoldLeft, MapThenFoldSet, AtEnd
<1> HIDE DEF iter
<1>4. f[0] = base
  <2>1. 1 .. 0 = {} /\ {} \in SUBSET (1 .. n) /\ 0 \in 0 .. n
    OBVIOUS
  <2> QED BY <1>2, <2>1
<1>5. ASSUME NEW i \in 1 .. n
      PROVE  f[i] = consume(f[i - 1], data[i])
  <2>1. 1 .. i \in SUBSET (1 .. n) /\ i \in 1 .. i
    OBVIOUS
  <2>5. (1 .. i) \ {i} = 1 .. (i - 1)
    OBVIOUS
  <2>2. Max(1 .. i) = i
    <3>1. i \in 1 .. i /\ \A y \in 1 .. i : i >= y
      OBVIOUS
    <3>2. \A x : x \in 1 .. i /\ (\A y \in 1 .. i : x >= y) => x = i
      OBVIOUS
    <3> QED BY <3>1, <3>2 DEF Max
  <2>3. iter[1 .. i] = consume(iter[(1 .. i) \ {i}], data[i])
    BY <1>2, <2>1, <2>2
  <2>4. i \in 0 .. n /\ i - 1 \in 0 .. n
    OBVIOUS
  <2> QED BY <2>3, <2>4, <2>5
<1>6. f[n] = iter[1 .. n]
  BY n \in 0 .. n
<1>7. PushRaw(buf, data) = AtEnd(f[n])
  BY <1>3, <1>6
<1> HIDE DEF f
<1>8. IsRun(f, buf, data) /\ PushRaw(buf, data) = AtEnd(f[n])
  BY <1>4, <1>5, <1>7 DEF IsRun
<1> QED BY <1>8, Zenon

(* What is known while a text is read. *)
Updates == [buf : {"none", "text", "ask", "prompt"}, stop : 0 .. MaxStops + 1,
            exit : 0 .. MaxStops + 1, bpset : BOOLEAN, prompt : BOOLEAN, ask : BOOLEAN,
            garbled : BOOLEAN]

LineEnds == {"stop", "exit", "failed", "bpset", "line"}

(* consume, field by field. *)
LEMMA ConsumeFields ==
  ASSUME NEW u \in Updates, NEW item \in Text
  PROVE  LET v == consume(u, item)
             k == item.k
             clear == u.buf = "none"
         IN  /\ v \in Updates
             /\ k \in LineEnds \cup {"nl"} => v.buf = "none"
             /\ k = "echo" => v.buf \in {"ask", "text"}
             /\ k = "ask" => v.buf = "ask"
             /\ k = "prompt" => v.buf = IF clear THEN "prompt" ELSE u.buf
             /\ v.stop = IF k = "stop" /\ clear THEN item.n ELSE u.stop
             /\ v.exit = IF k = "exit" /\ clear THEN item.n ELSE u.exit
             /\ v.bpset = (u.bpset \/ (k = "bpset" /\ clear))
             /\ v.prompt = (u.prompt \/ (k = "line" /\ clear))
             /\ v.ask = (u.ask \/ k = "ask")
             /\ v.garbled = (u.garbled \/ (k \in {"stop", "exit"} /\ ~clear))
<1>1. item.k \in Items /\ item.n \in 0 .. MaxStops + 1
  BY DEF Text
<1>2. u = [buf |-> u.buf, stop |-> u.stop, exit |-> u.exit, bpset |-> u.bpset,
           prompt |-> u.prompt, ask |-> u.ask, garbled |-> u.garbled]
  BY DEF Updates
<1>3. /\ u.buf \in {"none", "text", "ask", "prompt"} /\ u.stop \in 0 .. MaxStops + 1
      /\ u.exit \in 0 .. MaxStops + 1 /\ u.bpset \in BOOLEAN /\ u.prompt \in BOOLEAN
      /\ u.ask \in BOOLEAN /\ u.garbled \in BOOLEAN
  BY DEF Updates
<1>4. CASE item.k \in LineEnds /\ u.buf # "none"
  BY <1>1, <1>2, <1>3, <1>4 DEF consume, LineEnds, Updates, Items
<1>5. CASE ~(item.k \in LineEnds /\ u.buf # "none")
  <2>1. CASE item.k = "nl"
    BY <1>1, <1>2, <1>3, <2>1 DEF consume, LineEnds, Updates, Items
  <2>2. CASE item.k = "echo"
    BY <1>1, <1>2, <1>3, <2>2 DEF consume, LineEnds, Updates, Items
  <2>3. CASE item.k = "ask"
    BY <1>1, <1>2, <1>3, <2>3 DEF consume, LineEnds, Updates, Items
  <2>4. CASE item.k = "prompt"
    BY <1>1, <1>2, <1>3, <2>4 DEF consume, LineEnds, Updates, Items
  <2>5. CASE item.k = "stop"
    BY <1>1, <1>2, <1>3, <1>5, <2>5 DEF consume, LineEnds, Updates, Items
  <2>6. CASE item.k = "exit"
    BY <1>1, <1>2, <1>3, <1>5, <2>6 DEF consume, LineEnds, Updates, Items
  <2>7. CASE item.k = "bpset"
    BY <1>1, <1>2, <1>3, <1>5, <2>7 DEF consume, LineEnds, Updates, Items
  <2>8. CASE item.k = "line"
    BY <1>1, <1>2, <1>3, <1>5, <2>8 DEF consume, LineEnds, Updates, Items
  <2>9. CASE item.k = "failed"
    BY <1>1, <1>2, <1>3, <1>5, <2>9 DEF consume, LineEnds, Updates, Items
  <2> QED BY <1>1, <2>1, <2>2, <2>3, <2>4, <2>5, <2>6, <2>7, <2>8, <2>9 DEF Items
<1> QED BY <1>4, <1>5

(* Whatever the text is: what the run has seen so far, it has seen in an   *)
(* item.                                                                   *)
LEMMA RunSays ==
  ASSUME NEW buf \in {"none", "text"}, NEW data \in Seq(Text), NEW f, IsRun(f, buf, data)
  PROVE  \A i \in 0 .. Len(data) :
           /\ f[i] \in Updates
           /\ f[i].stop # 0 => \E x \in 1 .. i : data[x].k = "stop" /\ data[x].n = f[i].stop
           /\ f[i].exit # 0 => \E x \in 1 .. i : data[x].k = "exit" /\ data[x].n = f[i].exit
           /\ f[i].prompt => \E x \in 1 .. i : data[x].k = "line"
           /\ f[i].buf = "prompt" => \E x \in 1 .. i : data[x].k = "prompt"
           /\ f[i].ask <=> \E x \in 1 .. i : data[x].k = "ask"
           /\ f[i].bpset => \E x \in 1 .. i : data[x].k = "bpset"
<1> DEFINE P(i) ==
           /\ f[i] \in Updates
           /\ f[i].stop # 0 => \E x \in 1 .. i : data[x].k = "stop" /\ data[x].n = f[i].stop
           /\ f[i].exit # 0 => \E x \in 1 .. i : data[x].k = "exit" /\ data[x].n = f[i].exit
           /\ f[i].prompt => \E x \in 1 .. i : data[x].k = "line"
           /\ f[i].buf = "prompt" => \E x \in 1 .. i : data[x].k = "prompt"
           /\ f[i].ask <=> \E x \in 1 .. i : data[x].k = "ask"
           /\ f[i].bpset => \E x \in 1 .. i : data[x].k = "bpset"
           S == {i \in Nat : i <= Len(data) => P(i)}
<1>1. 0 \in S
  <2>1. f[0] = [buf |-> buf, stop |-> 0, exit |-> 0, bpset |-> FALSE, prompt |-> FALSE,
                ask |-> FALSE, garbled |-> FALSE]
    BY DEF IsRun, NoUpdate
  <2>2. 0 \in 0 .. MaxStops + 1
    BY DelveResumeAssumption
  <2>3. f[0] \in Updates /\ f[0].stop = 0 /\ f[0].exit = 0 /\ f[0].prompt = FALSE
        /\ f[0].ask = FALSE /\ f[0].bpset = FALSE /\ f[0].buf # "prompt"
    BY <2>1, <2>2 DEF Updates
  <2> QED BY <2>3
<1>2. ASSUME NEW i \in Nat, i \in S
      PROVE  i + 1 \in S
  <2> SUFFICES ASSUME i + 1 <= Len(data) PROVE P(i + 1)
    OBVIOUS
  <2>12. i <= Len(data)
    OBVIOUS
  <2>1. P(i)
    BY <1>2, <2>12
  <2>2. i + 1 \in 1 .. Len(data) /\ i + 1 \in DOMAIN data /\ i + 1 - 1 = i
    OBVIOUS
  <2>3. f[i + 1] = consume(f[i], data[i + 1])
    BY <2>2 DEF IsRun
  <2>4. data[i + 1] \in Text
    BY <2>2
  <2>5. PICK u : u = f[i]
    OBVIOUS
  <2>6. PICK item : item = data[i + 1]
    OBVIOUS
  <2>7. PICK v : v = consume(u, item)
    OBVIOUS
  <2>8. u \in Updates /\ item \in Text
    BY <2>1, <2>4, <2>5, <2>6
  <2>9. /\ v \in Updates
        /\ v.stop = u.stop \/ (item.k = "stop" /\ v.stop = item.n)
        /\ v.exit = u.exit \/ (item.k = "exit" /\ v.exit = item.n)
        /\ v.prompt => u.prompt \/ item.k = "line"
        /\ v.buf = "prompt" => u.buf = "prompt" \/ item.k = "prompt"
        /\ v.ask <=> (u.ask \/ item.k = "ask")
        /\ v.bpset => u.bpset \/ item.k = "bpset"
    <3>1. item.k \in Items
      BY <2>8 DEF Text
    <3> QED BY <2>7, <2>8, <3>1, ConsumeFields DEF Items, LineEnds
  <2>10. \A x : x \in 1 .. i + 1 <=> x \in 1 .. i \/ x = i + 1
    OBVIOUS
  <2>11. f[i + 1] = v
    BY <2>3, <2>5, <2>6, <2>7
  <2> QED BY <2>1, <2>5, <2>6, <2>9, <2>10, <2>11
<1> HIDE DEF S
<1>3. Nat \subseteq S
  BY <1>1, <1>2, SetInduction
<1> QED BY <1>3 DEF S

(* An item may follow another: lines begin where one has ended, and        *)
(* nothing comes after a prompt.                                           *)
Follows(a, b) ==
    /\ b.k \in {"stop", "exit", "failed", "bpset", "ask"} => a.k = "nl"
    /\ b.k = "prompt" => a.k \in {"nl", "stop", "exit", "failed", "bpset"}
    /\ b.k = "line" => a.k \in {"stop", "exit", "failed"}
    /\ a.k # "prompt"

WellMade(m) == \A i \in 1 .. Len(m) - 1 : Follows(m[i], m[i + 1])

(* A text that comes after an unfinished line begins with the rest of it,  *)
(* or is the report of a key's resume.                                     *)
Continues(buf, m) == buf = "none" \/ m[1].k \in {"echo", "nl", "stop", "exit", "failed"}

(* In such a text every line but the first is read, and the prompt at its  *)
(* end.                                                                    *)
LEMMA RunReads ==
  ASSUME NEW buf \in {"none", "text"}, NEW data \in Seq(Text), NEW f, IsRun(f, buf, data),
         WellMade(data), Continues(buf, data),
         \A x \in DOMAIN data : data[x].k \in {"stop", "exit"} => data[x].n # 0
  PROVE  \A i \in 1 .. Len(data) :
           /\ data[i].k \in LineEnds \cup {"nl"} => f[i].buf = "none"
           /\ data[i].k = "ask" => f[i].buf = "ask"
           /\ data[i].k = "echo" => f[i].buf \in {"ask", "text"}
           /\ data[i].k = "prompt" => f[i].buf = "prompt"
           /\ f[i].garbled => buf = "text" /\ data[1].k \in {"stop", "exit"}
           /\ \A x \in 1 .. i :
                /\ data[x].k = "stop" => f[i].garbled \/ f[i].stop # 0
                /\ data[x].k = "exit" => f[i].garbled \/ f[i].exit # 0
                /\ data[x].k = "bpset" => f[i].bpset
<1> DEFINE P(i) ==
           /\ data[i].k \in LineEnds \cup {"nl"} => f[i].buf = "none"
           /\ data[i].k = "ask" => f[i].buf = "ask"
           /\ data[i].k = "echo" => f[i].buf \in {"ask", "text"}
           /\ data[i].k = "prompt" => f[i].buf = "prompt"
           /\ f[i].garbled => buf = "text" /\ data[1].k \in {"stop", "exit"}
           /\ \A x \in 1 .. i :
                /\ data[x].k = "stop" => f[i].garbled \/ f[i].stop # 0
                /\ data[x].k = "exit" => f[i].garbled \/ f[i].exit # 0
                /\ data[x].k = "bpset" => f[i].bpset
           S == {i \in Nat : i \in 1 .. Len(data) => P(i)}
<1>1. 0 \in S
  OBVIOUS
<1>2. ASSUME NEW i \in Nat, i \in S
      PROVE  i + 1 \in S
  <2> SUFFICES ASSUME i + 1 <= Len(data) PROVE P(i + 1)
    OBVIOUS
  <2>1. i + 1 \in 1 .. Len(data) /\ i + 1 \in DOMAIN data /\ i + 1 - 1 = i /\ i \in 0 .. Len(data)
    OBVIOUS
  <2>2. PICK u : u = f[i]
    OBVIOUS
  <2>3. PICK item : item = data[i + 1]
    OBVIOUS
  <2>4. PICK v : v = f[i + 1]
    OBVIOUS
  <2>5. u \in Updates
    BY <2>1, <2>2, RunSays
  <2>12. item \in Text
    BY <2>1, <2>3
  <2>6. item \in Text /\ item.k \in Items
    BY <2>12 DEF Text
  <2>11. item.k \in {"stop", "exit"} => item.n # 0
    BY <2>1, <2>3
  <2>7. v = consume(u, item)
    BY <2>1, <2>2, <2>3, <2>4 DEF IsRun
  <2>8. LET k == item.k
            clear == u.buf = "none"
        IN  /\ k \in LineEnds \cup {"nl"} => v.buf = "none"
            /\ k = "echo" => v.buf \in {"ask", "text"}
            /\ k = "ask" => v.buf = "ask"
            /\ k = "prompt" => v.buf = IF clear THEN "prompt" ELSE u.buf
            /\ v.stop = IF k = "stop" /\ clear THEN item.n ELSE u.stop
            /\ v.exit = IF k = "exit" /\ clear THEN item.n ELSE u.exit
            /\ v.bpset = (u.bpset \/ (k = "bpset" /\ clear))
            /\ v.garbled = (u.garbled \/ (k \in {"stop", "exit"} /\ ~clear))
    BY <2>5, <2>6, <2>7, ConsumeFields DEF LineEnds
  <2>9. CASE i = 0
    <3>1. u.buf = buf /\ u.garbled = FALSE /\ u.stop = 0 /\ u.exit = 0 /\ u.bpset = FALSE
      BY <2>2, <2>9 DEF IsRun, NoUpdate
    <3>2. item.k \in {"bpset", "ask", "prompt", "line"} => u.buf = "none"
      BY <2>3, <2>9, <3>1 DEF Continues
    <3>3. \A x \in 1 .. i + 1 : x = 1
      BY <2>9
    <3>4. data[1] = item /\ f[1] = v
      BY <2>3, <2>4, <2>9
    <3>5. (v.garbled => buf = "text" /\ item.k \in {"stop", "exit"})
          /\ (item.k = "prompt" => v.buf = "prompt")
          /\ (item.k = "stop" => v.garbled \/ v.stop # 0)
          /\ (item.k = "exit" => v.garbled \/ v.exit # 0)
          /\ (item.k = "bpset" => v.bpset)
      BY <2>6, <2>8, <2>11, <3>1, <3>2
    <3> QED BY <2>3, <2>4, <2>8, <2>9, <3>3, <3>4, <3>5
  <2>10. CASE i # 0
    <3>1. i \in 1 .. Len(data) /\ i \in 1 .. Len(data) - 1
      BY <2>10, <2>1
    <3>2. P(i)
      BY <1>2, <3>1
    <3>3. Follows(data[i], item)
      BY <3>1, <2>3 DEF WellMade
    <3>4. item.k \in {"stop", "exit", "failed", "bpset", "prompt", "line"} => u.buf = "none"
      BY <3>2, <3>3, <2>2, <2>6 DEF Follows, LineEnds, Items
    <3>5. (v.garbled => u.garbled) /\ (item.k = "prompt" => v.buf = "prompt")
          /\ (item.k = "stop" => v.stop = item.n) /\ (item.k = "exit" => v.exit = item.n)
          /\ (item.k = "bpset" => v.bpset) /\ (u.garbled => v.garbled) /\ (u.bpset => v.bpset)
          /\ (v.stop = u.stop \/ item.k = "stop") /\ (v.exit = u.exit \/ item.k = "exit")
      BY <2>6, <2>8, <3>4
    <3>6. item.k \in LineEnds \cup {"nl"} => v.buf = "none"
      BY <2>8
    <3>7. \A x \in 1 .. i + 1 : x \in 1 .. i \/ x = i + 1
      OBVIOUS
    <3>8. \A x \in 1 .. i :
                /\ data[x].k = "stop" => v.garbled \/ v.stop # 0
                /\ data[x].k = "exit" => v.garbled \/ v.exit # 0
                /\ data[x].k = "bpset" => v.bpset
      BY <2>2, <2>11, <3>2, <3>5
    <3>9. /\ item.k = "stop" => v.stop # 0
          /\ item.k = "exit" => v.exit # 0
          /\ item.k = "bpset" => v.bpset
      BY <2>11, <3>5
    <3>10. \A x \in 1 .. i + 1 :
                /\ data[x].k = "stop" => v.garbled \/ v.stop # 0
                /\ data[x].k = "exit" => v.garbled \/ v.exit # 0
                /\ data[x].k = "bpset" => v.bpset
      BY <2>3, <3>7, <3>8, <3>9
    <3>11. v.garbled => buf = "text" /\ data[1].k \in {"stop", "exit"}
      BY <2>2, <3>2, <3>5
    <3> QED BY <2>3, <2>4, <2>8, <3>5, <3>6, <3>10, <3>11
  <2> QED BY <2>9, <2>10
<1> HIDE DEF S
<1>3. Nat \subseteq S
  BY <1>1, <1>2, SetInduction
<1> QED BY <1>3 DEF S

(* PushRaw of any text: it says nothing that no item said.                 *)
LEMMA PushRawSays ==
  ASSUME NEW buf \in {"none", "text"}, NEW data \in Seq(Text), NEW u, u = PushRaw(buf, data)
  PROVE  /\ u.buf \in {"none", "text"} /\ u.stop \in 0 .. MaxStops + 1 /\ u.exit \in 0 .. MaxStops + 1
         /\ u.prompt \in BOOLEAN /\ u.ask \in BOOLEAN /\ u.garbled \in BOOLEAN /\ u.bpset \in BOOLEAN
         /\ u.stop # 0 => \E x \in DOMAIN data : data[x].k = "stop" /\ data[x].n = u.stop
         /\ u.exit # 0 => \E x \in DOMAIN data : data[x].k = "exit" /\ data[x].n = u.exit
         /\ u.prompt => \E x \in DOMAIN data : data[x].k \in {"line", "prompt"}
         /\ u.ask <=> \E x \in DOMAIN data : data[x].k = "ask"
         /\ u.bpset => \E x \in DOMAIN data : data[x].k = "bpset"
<1>1. Len(data) \in Nat /\ DOMAIN data = 1 .. Len(data)
  OBVIOUS
<1>2. PICK f : IsRun(f, buf, data) /\ u = AtEnd(f[Len(data)])
  BY <1>1, RunOfText
<1>3. PICK w : w = f[Len(data)]
  OBVIOUS
<1>4. /\ w \in Updates
      /\ w.stop # 0 => \E x \in DOMAIN data : data[x].k = "stop" /\ data[x].n = w.stop
      /\ w.exit # 0 => \E x \in DOMAIN data : data[x].k = "exit" /\ data[x].n = w.exit
      /\ w.prompt => \E x \in DOMAIN data : data[x].k = "line"
      /\ w.buf = "prompt" => \E x \in DOMAIN data : data[x].k = "prompt"
      /\ w.ask <=> \E x \in DOMAIN data : data[x].k = "ask"
      /\ w.bpset => \E x \in DOMAIN data : data[x].k = "bpset"
  <2>1. Len(data) \in 0 .. Len(data)
    BY <1>1
  <2>2. LET i == Len(data)
        IN /\ f[i] \in Updates
           /\ f[i].stop # 0 => \E x \in 1 .. i : data[x].k = "stop" /\ data[x].n = f[i].stop
           /\ f[i].exit # 0 => \E x \in 1 .. i : data[x].k = "exit" /\ data[x].n = f[i].exit
           /\ f[i].prompt => \E x \in 1 .. i : data[x].k = "line"
           /\ f[i].buf = "prompt" => \E x \in 1 .. i : data[x].k = "prompt"
           /\ f[i].ask <=> \E x \in 1 .. i : data[x].k = "ask"
           /\ f[i].bpset => \E x \in 1 .. i : data[x].k = "bpset"
    BY <1>2, <2>1, RunSays
  <2> QED BY <1>1, <1>3, <2>2
<1>5. /\ u.buf = (IF w.buf = "text" THEN "text" ELSE "none")
      /\ u.prompt = (w.prompt \/ w.buf = "prompt")
      /\ u.stop = w.stop /\ u.exit = w.exit /\ u.ask = w.ask /\ u.garbled = w.garbled /\ u.bpset = w.bpset
  BY <1>2, <1>3, <1>4 DEF Updates, AtEnd
<1>6. w.stop \in 0 .. MaxStops + 1 /\ w.exit \in 0 .. MaxStops + 1
      /\ w.prompt \in BOOLEAN /\ w.ask \in BOOLEAN /\ w.garbled \in BOOLEAN /\ w.bpset \in BOOLEAN
  BY <1>4 DEF Updates
<1> QED BY <1>4, <1>5, <1>6

(* PushRaw of a text that is well made: it misses nothing, except the      *)
(* report of a stop that comes after half a line.                          *)
LEMMA PushRawReads ==
  ASSUME NEW buf \in {"none", "text"}, NEW data \in Seq(Text), data # <<>>,
         WellMade(data), Continues(buf, data),
         \A x \in DOMAIN data : data[x].k \in {"stop", "exit"} => data[x].n # 0,
         NEW u, u = PushRaw(buf, data)
  PROVE  /\ u.buf = "text" => data[Len(data)].k = "echo"
         /\ u.garbled => buf = "text" /\ data[1].k \in {"stop", "exit"}
         /\ \A x \in DOMAIN data :
              /\ data[x].k = "stop" => u.garbled \/ u.stop # 0
              /\ data[x].k = "exit" => u.garbled \/ u.exit # 0
              /\ data[x].k = "bpset" => u.bpset
              /\ data[x].k = "prompt" => u.prompt
<1>1. Len(data) \in Nat /\ DOMAIN data = 1 .. Len(data) /\ Len(data) \in 1 .. Len(data)
  OBVIOUS
<1>2. PICK f : IsRun(f, buf, data) /\ u = AtEnd(f[Len(data)])
  BY <1>1, RunOfText
<1>3. PICK w : w = f[Len(data)]
  OBVIOUS
<1>4. PICK item : item = data[Len(data)]
  OBVIOUS
<1>5. /\ w.garbled => buf = "text" /\ data[1].k \in {"stop", "exit"}
      /\ item.k \in LineEnds \cup {"nl"} => w.buf = "none"
      /\ item.k = "ask" => w.buf = "ask"
      /\ item.k = "prompt" => w.buf = "prompt"
      /\ \A x \in DOMAIN data :
           /\ data[x].k = "stop" => w.garbled \/ w.stop # 0
           /\ data[x].k = "exit" => w.garbled \/ w.exit # 0
           /\ data[x].k = "bpset" => w.bpset
  BY <1>1, <1>2, <1>3, <1>4, RunReads
<1>6. w \in Updates
  <2>1. Len(data) \in 0 .. Len(data)
    BY <1>1
  <2> QED BY <1>2, <1>3, <2>1, RunSays
<1>7. /\ u.buf = (IF w.buf = "text" THEN "text" ELSE "none")
      /\ u.prompt = (w.prompt \/ w.buf = "prompt")
      /\ u.stop = w.stop /\ u.exit = w.exit /\ u.garbled = w.garbled /\ u.bpset = w.bpset
  BY <1>2, <1>3, <1>6 DEF Updates, AtEnd
<1>8. item.k \in Items
  <2>1. item \in Text
    BY <1>1, <1>4
  <2> QED BY <2>1 DEF Text
<1>9. u.buf = "text" => item.k = "echo"
  BY <1>5, <1>7, <1>8 DEF Items, LineEnds
<1>10. ASSUME NEW x \in DOMAIN data, data[x].k = "prompt"
       PROVE  x = Len(data)
  <2>1. CASE x \in 1 .. Len(data) - 1
    BY <1>10, <2>1 DEF WellMade, Follows
  <2> QED BY <1>1, <2>1
<1> QED BY <1>4, <1>5, <1>7, <1>9, <1>10
---------------------------------------------------------------------------
(* Delve: types *)

(* The steps, named once for the proofs by cases. *)
LEMMA DlvSteps ==
    ASSUME [DlvNext]_dlvVars
    PROVE  \/ \E cmd \in Commands : Exec(cmd)
           \/ NoteStop
           \/ Done
           \/ ServeResume
           \/ ProgramStops
           \/ Halt
           \/ CliReads
           \/ Flush
           \/ \E line \in {"continue", "recalled", "break", "up", "y", "n"} : TypeLine(line)
           \/ TypeHalf
           \/ Enter
           \/ CtrlC
           \/ Toggle
           \/ ServeBreak
           \/ RunRefresh
           \/ RefreshAfterStop
           \/ HandleOutput
           \/ UNCHANGED dlvVars
  BY DEF DlvNext

(* An exit is never taken for a frame. *)
RealText == {t \in Text : t.k = "exit" => t.n \in 0 .. MaxStops}

RPCJobs == [pc : {"none", "sent", "answered", "posted"}, cmd : Commands, ans : Seq(RealText)]

ServerTypes ==
    /\ target \in {"stopped", "running", "exited"} /\ runner \in {"job", "cli"}
    /\ waiting \in Seq({"job", "cli"}) /\ stops \in 0 .. MaxStops
    /\ bps \in BOOLEAN /\ halts \in Nat

ClientTypes ==
    /\ job \in RPCJobs /\ resuming \in BOOLEAN
    /\ cli \in {"prompt", "inServer", "asking"} /\ cliIn \in Seq(Lines)
    /\ halfTyped \in BOOLEAN

TextTypes ==
    /\ cliOut \in Seq(RealText) /\ uiq \in Seq(Seq(RealText))
    /\ lineBuf \in {"none", "text"}

FlagTypes ==
    /\ ui \in {"free", "insert", "clear"}
    /\ running \in BOOLEAN /\ confirming \in BOOLEAN /\ bpDeferred \in BOOLEAN
    /\ refresh \in BOOLEAN /\ afterStop \in BOOLEAN /\ list \in BOOLEAN
    /\ lost \in BOOLEAN

CountTypes ==
    /\ suppress \in Nat /\ navs \in Nat /\ shown \in 0 .. MaxStops
    /\ bound \in BOOLEAN /\ spent \in 0 .. MaxActs /\ hasty \in 0 .. MaxHasty

DlvTypes == ServerTypes /\ ClientTypes /\ TextTypes /\ FlagTypes /\ CountTypes

LEMMA BoundsAreNat == MaxActs \in Nat /\ MaxHasty \in Nat /\ MaxStops \in Nat
  BY DelveResumeAssumption

LEMMA RealTextIsText ==
  /\ \A s : s \in Seq(RealText) => s \in Seq(Text)
  /\ \A s : s \in Seq(Seq(RealText)) => s \in Seq(Seq(Text))
<1>1. \A s : s \in Seq(RealText) => s \in Seq(Text)
  BY DEF RealText
<1>2. ASSUME NEW s \in Seq(Seq(RealText))
      PROVE  s \in Seq(Seq(Text))
  <2>1. \A i \in 1 .. Len(s) : s[i] \in Seq(RealText)
    OBVIOUS
  <2>2. \A i \in 1 .. Len(s) : s[i] \in Seq(Text)
    BY <1>1, <2>1
  <2> QED BY <2>2
<1> QED BY <1>1, <1>2

LEMMA ItemsAreReal ==
  /\ \A kind \in Items : Item(kind) \in RealText
  /\ \A n \in 0 .. MaxStops : [k |-> "exit", n |-> n] \in RealText /\ [k |-> "stop", n |-> n] \in RealText
  /\ [k |-> "stop", n |-> Frame] \in RealText
<1>1. 0 \in 0 .. MaxStops /\ 0 \in 0 .. MaxStops + 1 /\ MaxStops + 1 \in 0 .. MaxStops + 1
      /\ \A n \in 0 .. MaxStops : n \in 0 .. MaxStops + 1
  BY BoundsAreNat
<1> QED BY <1>1 DEF Item, RealText, Text, Items, Frame

LEMMA DlvTypesInit == ASSUME DlvInit PROVE DlvTypes
<1>1. 0 \in 0 .. MaxStops /\ 0 \in 0 .. MaxActs /\ 0 \in 0 .. MaxHasty /\ 0 \in Nat
  BY BoundsAreNat
<1>2. NoJob \in RPCJobs
  BY DEF NoJob, RPCJobs, Commands
<1>3. ServerTypes
  <2>1. waiting \in Seq({"job", "cli"})
    BY DEF DlvInit
  <2> QED BY <1>1, <2>1 DEF DlvInit, ServerTypes
<1>4. ClientTypes
  <2>1. cliIn \in Seq(Lines)
    BY DEF DlvInit
  <2> QED BY <1>2, <2>1 DEF DlvInit, ClientTypes
<1>5. TextTypes
  BY DEF DlvInit, TextTypes
<1>6. FlagTypes
  BY DEF DlvInit, FlagTypes
<1>7. CountTypes
  BY <1>1 DEF DlvInit, CountTypes
<1> QED BY <1>3, <1>4, <1>5, <1>6, <1>7 DEF DlvTypes

LEMMA ActsTypes ==
  ASSUME CountTypes, NEW w \in BOOLEAN, Acts(w)
  PROVE  spent' \in 0 .. MaxActs /\ hasty' \in 0 .. MaxHasty /\ bound' \in BOOLEAN
  BY BoundsAreNat DEF CountTypes, Acts

LEMMA AnswerTypes ==
  ASSUME ClientTypes, TextTypes, NEW c, NEW items \in Seq(RealText), Answer(c, items)
  PROVE  job' \in RPCJobs /\ cli' \in {"prompt", "inServer", "asking"} /\ cliOut' \in Seq(RealText)
<1>1. Item("prompt") \in RealText
  BY ItemsAreReal DEF Items
<1>2. CASE c = "job"
  <2>1. job' \in RPCJobs
    BY <1>2 DEF Answer, ClientTypes, RPCJobs
  <2> QED BY <1>2, <2>1 DEF Answer, ClientTypes, TextTypes
<1>3. CASE c # "job"
  <2>1. <<Item("prompt")>> \in Seq(RealText)
    BY <1>1
  <2>2. cliOut' = cliOut \o items \o <<Item("prompt")>> /\ cli' = "prompt" /\ UNCHANGED job
    BY <1>3 DEF Answer
  <2>3. cliOut' \in Seq(RealText)
    BY <2>1, <2>2 DEF TextTypes
  <2> QED BY <2>2, <2>3 DEF ClientTypes
<1> QED BY <1>2, <1>3

LEMMA StopsTypes ==
  ASSUME DlvTypes, Stops
  PROVE  /\ target' \in {"stopped", "running", "exited"} /\ stops' \in 0 .. MaxStops /\ lost' \in BOOLEAN
         /\ job' \in RPCJobs /\ cli' \in {"prompt", "inServer", "asking"} /\ cliOut' \in Seq(RealText)
<1>1. stops' \in 0 .. MaxStops
  BY BoundsAreNat DEF Stops, DlvTypes, ServerTypes
<1>2. PICK how \in {"stop", "exit", "nowhere"} :
         /\ target' = IF how = "exit" THEN "exited" ELSE "stopped"
         /\ lost' = (how = "nowhere" \/ lost)
         /\ Answer(runner, IF how = "nowhere" THEN <<>> ELSE <<[k |-> how, n |-> stops']>>)
  BY DEF Stops
<1>3. PICK items : items = IF how = "nowhere" THEN <<>> ELSE <<[k |-> how, n |-> stops']>>
  OBVIOUS
<1>4. items \in Seq(RealText)
  <2>1. CASE how = "nowhere"
    BY <1>3, <2>1
  <2>2. CASE how # "nowhere"
    <3>1. [k |-> how, n |-> stops'] \in RealText
      BY <1>1, <2>2, ItemsAreReal
    <3> QED BY <1>3, <2>2, <3>1
  <2> QED BY <2>1, <2>2
<1>5. job' \in RPCJobs /\ cli' \in {"prompt", "inServer", "asking"} /\ cliOut' \in Seq(RealText)
  BY <1>2, <1>3, <1>4, AnswerTypes DEF DlvTypes
<1>6. lost' \in BOOLEAN
  BY <1>2 DEF DlvTypes, FlagTypes
<1> QED BY <1>1, <1>2, <1>5, <1>6

LEMMA DlvTypesNext == ASSUME DlvTypes, [DlvNext]_dlvVars PROVE DlvTypes'
<1> USE DEF server, client, term, texts, gate, breaks, pane, rest
<1>0. ServerTypes /\ ClientTypes /\ TextTypes /\ FlagTypes /\ CountTypes
  BY DEF DlvTypes
<1>1. ASSUME NEW cmd \in Commands, Exec(cmd) PROVE DlvTypes'
  <2>1. spent' \in 0 .. MaxActs /\ hasty' \in 0 .. MaxHasty /\ bound' \in BOOLEAN
    BY <1>0, <1>1, ActsTypes DEF Exec, Resumes
  <2>2. job' \in RPCJobs
    <3>1. [pc |-> "sent", cmd |-> cmd, ans |-> <<>>] \in RPCJobs
      BY DEF RPCJobs
    <3> QED BY <1>0, <1>1, <3>1 DEF Exec, ClientTypes
  <2>11. ServerTypes'
    BY <1>0, <1>1 DEF Exec, ServerTypes
  <2>12. ClientTypes'
    BY <1>0, <1>1, <2>2 DEF Exec, ClientTypes
  <2>13. TextTypes'
    BY <1>0, <1>1 DEF Exec, TextTypes
  <2>14. FlagTypes'
    BY <1>0, <1>1 DEF Exec, FlagTypes
  <2>15. CountTypes'
    BY <1>0, <1>1, <2>1 DEF Exec, CountTypes
  <2> QED BY <2>11, <2>12, <2>13, <2>14, <2>15 DEF DlvTypes
<1>2. CASE NoteStop
  <2>1. job.ans \in Seq(RealText) /\ Item("line") \in RealText
    BY <1>0, ItemsAreReal DEF ClientTypes, RPCJobs, Items
  <2>2. Append(job.ans, Item("line")) \in Seq(RealText)
    BY <2>1
  <2>3. job' \in RPCJobs
    BY <1>0, <1>2 DEF NoteStop, ClientTypes, RPCJobs
  <2>11. ServerTypes'
    BY <1>0, <1>2 DEF NoteStop, ServerTypes
  <2>12. ClientTypes'
    BY <1>0, <1>2, <2>3 DEF NoteStop, ClientTypes
  <2>13. TextTypes'
    BY <1>0, <1>2, <2>2 DEF NoteStop, TextTypes
  <2>14. FlagTypes'
    BY <1>0, <1>2 DEF NoteStop, FlagTypes
  <2>15. CountTypes'
    BY <1>0, <1>2 DEF NoteStop, CountTypes
  <2> QED BY <2>11, <2>12, <2>13, <2>14, <2>15 DEF DlvTypes
<1>3. CASE Done
  <2>1. NoJob \in RPCJobs
    BY DEF NoJob, RPCJobs, Commands
  <2>11. ServerTypes'
    BY <1>0, <1>3 DEF Done, ServerTypes
  <2>12. ClientTypes'
    BY <1>0, <1>3, <2>1 DEF Done, ClientTypes
  <2>13. TextTypes'
    BY <1>0, <1>3 DEF Done, TextTypes
  <2>14. FlagTypes'
    BY <1>0, <1>3 DEF Done, FlagTypes
  <2>15. CountTypes'
    BY <1>0, <1>3 DEF Done, CountTypes
  <2> QED BY <2>11, <2>12, <2>13, <2>14, <2>15 DEF DlvTypes
<1>4. CASE ServeResume
  <2>1. waiting' \in Seq({"job", "cli"}) /\ Head(waiting) \in {"job", "cli"}
    BY <1>0, <1>4 DEF ServeResume, ServerTypes
  <2>2. <<>> \in Seq(RealText) /\ <<Item("failed")>> \in Seq(RealText)
    BY ItemsAreReal DEF Items
  <2>3. job' \in RPCJobs /\ cli' \in {"prompt", "inServer", "asking"} /\ cliOut' \in Seq(RealText)
    <3>1. \/ Answer("job", <<>>)
          \/ Answer(Head(waiting), <<Item("failed")>>)
          \/ UNCHANGED <<job, cli, cliOut>>
      BY <1>4 DEF ServeResume
    <3>2. CASE UNCHANGED <<job, cli, cliOut>>
      BY <1>0, <3>2 DEF ClientTypes, TextTypes
    <3> QED BY <1>0, <2>2, <3>1, <3>2, AnswerTypes
  <2>11. ServerTypes'
    BY <1>0, <1>4, <2>1 DEF ServeResume, ServerTypes
  <2>12. ClientTypes'
    BY <1>0, <1>4, <2>3 DEF ServeResume, ClientTypes
  <2>13. TextTypes'
    BY <1>0, <1>4, <2>3 DEF ServeResume, TextTypes
  <2>14. FlagTypes'
    BY <1>0, <1>4 DEF ServeResume, FlagTypes
  <2>15. CountTypes'
    BY <1>0, <1>4 DEF ServeResume, CountTypes
  <2> QED BY <2>11, <2>12, <2>13, <2>14, <2>15 DEF DlvTypes
<1>5. CASE ProgramStops
  <2>1. /\ target' \in {"stopped", "running", "exited"} /\ stops' \in 0 .. MaxStops /\ lost' \in BOOLEAN
        /\ job' \in RPCJobs /\ cli' \in {"prompt", "inServer", "asking"} /\ cliOut' \in Seq(RealText)
    BY <1>5, StopsTypes DEF ProgramStops
  <2>11. ServerTypes'
    BY <1>0, <1>5, <2>1 DEF ProgramStops, Stops, ServerTypes
  <2>12. ClientTypes'
    BY <1>0, <1>5, <2>1 DEF ProgramStops, Stops, ClientTypes
  <2>13. TextTypes'
    BY <1>0, <1>5, <2>1 DEF ProgramStops, Stops, TextTypes
  <2>14. FlagTypes'
    BY <1>0, <1>5, <2>1 DEF ProgramStops, Stops, FlagTypes
  <2>15. CountTypes'
    BY <1>0, <1>5, <2>1 DEF ProgramStops, Stops, CountTypes
  <2> QED BY <2>11, <2>12, <2>13, <2>14, <2>15 DEF DlvTypes
<1>6. CASE Halt
  <2>1. halts' \in Nat
    BY <1>0, <1>6 DEF Halt, ServerTypes
  <2>2. CASE Stops
    <3>1. /\ target' \in {"stopped", "running", "exited"} /\ stops' \in 0 .. MaxStops /\ lost' \in BOOLEAN
          /\ job' \in RPCJobs /\ cli' \in {"prompt", "inServer", "asking"} /\ cliOut' \in Seq(RealText)
      BY <2>2, StopsTypes
    <3>2. ServerTypes'
      BY <1>0, <2>1, <2>2, <3>1 DEF Stops, ServerTypes
    <3>3. ClientTypes'
      BY <1>0, <2>1, <2>2, <3>1 DEF Stops, ClientTypes
    <3>4. TextTypes'
      BY <1>0, <2>1, <2>2, <3>1 DEF Stops, TextTypes
    <3>5. FlagTypes'
      BY <1>0, <2>1, <2>2, <3>1 DEF Stops, FlagTypes
    <3>6. CountTypes'
      BY <1>0, <2>1, <2>2, <3>1 DEF Stops, CountTypes
    <3> QED BY <3>2, <3>3, <3>4, <3>5, <3>6 DEF DlvTypes
  <2>3. CASE UNCHANGED <<server, client, term, texts, gate, ui, breaks, pane, lost, rest>>
    <3>2. ServerTypes'
      BY <1>0, <2>1, <2>3 DEF ServerTypes
    <3>3. ClientTypes'
      BY <1>0, <2>1, <2>3 DEF ClientTypes
    <3>4. TextTypes'
      BY <1>0, <2>1, <2>3 DEF TextTypes
    <3>5. FlagTypes'
      BY <1>0, <2>1, <2>3 DEF FlagTypes
    <3>6. CountTypes'
      BY <1>0, <2>1, <2>3 DEF CountTypes
    <3> QED BY <3>2, <3>3, <3>4, <3>5, <3>6 DEF DlvTypes
  <2> QED BY <1>6, <2>2, <2>3 DEF Halt
<1>7. CASE CliReads
  <2>1. cliIn' \in Seq(Lines) /\ Head(cliIn) \in Lines
    BY <1>0, <1>7 DEF CliReads, ClientTypes
  <2>2. waiting' \in Seq({"job", "cli"})
    <3>1. waiting' \in {waiting, Append(waiting, "cli")}
      BY <1>7 DEF CliReads
    <3> QED BY <1>0, <3>1 DEF ServerTypes
  <2>3. bps' \in BOOLEAN /\ cli' \in {"prompt", "inServer", "asking"}
    <3>1. bps' \in {bps, TRUE, bps \/ Head(cliIn) \in {"y", "repeat"}}
      BY <1>7 DEF CliReads
    <3>2. cli' \in {cli, "prompt", "inServer", "asking"}
      BY <1>7 DEF CliReads
    <3> QED BY <1>0, <3>1, <3>2 DEF ServerTypes, ClientTypes
  <2>4. cliOut' \in Seq(RealText)
    <3>1. /\ Item("echo") \in RealText /\ Item("nl") \in RealText /\ Item("prompt") \in RealText
          /\ Item("bpset") \in RealText /\ Item("ask") \in RealText /\ Item("failed") \in RealText
          /\ [k |-> "stop", n |-> Frame] \in RealText
      BY ItemsAreReal DEF Items
    <3>2. PICK items \in {<<>>, <<Item("prompt")>>, <<Item("bpset"), Item("prompt")>>, <<Item("ask")>>,
                          <<Item("failed"), Item("prompt")>>,
                          <<[k |-> "stop", n |-> Frame], Item("prompt")>>} :
            cliOut' = cliOut \o <<Item("echo"), Item("nl")>> \o items
      BY <1>7 DEF CliReads
    <3>5. /\ <<Item("prompt")>> \in Seq(RealText) /\ <<Item("bpset"), Item("prompt")>> \in Seq(RealText)
          /\ <<Item("ask")>> \in Seq(RealText) /\ <<>> \in Seq(RealText)
          /\ <<Item("failed"), Item("prompt")>> \in Seq(RealText)
      BY <3>1
    <3>6. <<[k |-> "stop", n |-> Frame], Item("prompt")>> \in Seq(RealText)
      BY <3>1
    <3>3. items \in Seq(RealText)
      BY <3>2, <3>5, <3>6, Zenon
    <3>4. cliOut \in Seq(RealText) /\ <<Item("echo"), Item("nl")>> \in Seq(RealText)
      BY <1>0, <3>1 DEF TextTypes
    <3> QED BY <3>2, <3>3, <3>4
  <2>11. ServerTypes'
    BY <1>0, <1>7, <2>2, <2>3 DEF CliReads, ServerTypes
  <2>12. ClientTypes'
    BY <1>0, <1>7, <2>1, <2>3 DEF CliReads, ClientTypes
  <2>13. TextTypes'
    BY <1>0, <1>7, <2>4 DEF CliReads, TextTypes
  <2>14. FlagTypes'
    BY <1>0, <1>7 DEF CliReads, FlagTypes
  <2>15. CountTypes'
    BY <1>0, <1>7 DEF CliReads, CountTypes
  <2> QED BY <2>11, <2>12, <2>13, <2>14, <2>15 DEF DlvTypes
<1>8. CASE Flush
  <2>1. PICK i \in 1 .. Len(cliOut) : /\ uiq' = Append(uiq, SubSeq(cliOut, 1, i))
                                      /\ cliOut' = SubSeq(cliOut, i + 1, Len(cliOut))
    BY <1>8 DEF Flush
  <2>2. SubSeq(cliOut, 1, i) \in Seq(RealText) /\ SubSeq(cliOut, i + 1, Len(cliOut)) \in Seq(RealText)
    BY <1>0 DEF TextTypes
  <2>3. uiq' \in Seq(Seq(RealText))
    BY <1>0, <2>1, <2>2 DEF TextTypes
  <2>11. ServerTypes'
    BY <1>0, <1>8 DEF Flush, ServerTypes
  <2>12. ClientTypes'
    BY <1>0, <1>8 DEF Flush, ClientTypes
  <2>13. TextTypes'
    BY <1>0, <1>8, <2>1, <2>2, <2>3 DEF Flush, TextTypes
  <2>14. FlagTypes'
    BY <1>0, <1>8 DEF Flush, FlagTypes
  <2>15. CountTypes'
    BY <1>0, <1>8 DEF Flush, CountTypes
  <2> QED BY <2>11, <2>12, <2>13, <2>14, <2>15 DEF DlvTypes
<1>9. ASSUME NEW line \in {"continue", "recalled", "break", "up", "y", "n"}, TypeLine(line)
      PROVE  DlvTypes'
  <2>1. spent' \in 0 .. MaxActs /\ hasty' \in 0 .. MaxHasty /\ bound' \in BOOLEAN
    BY <1>0, <1>9, ActsTypes DEF TypeLine
  <2>2. cliIn' \in Seq(Lines)
    <3>1. (IF line = "recalled" THEN "continue" ELSE line) \in Lines
      BY DEF Lines
    <3> QED BY <1>0, <1>9, <3>1 DEF TypeLine, ClientTypes
  <2>3. running' \in BOOLEAN
    BY <1>0, <1>9 DEF TypeLine, FlagTypes
  <2>11. ServerTypes'
    BY <1>0, <1>9 DEF TypeLine, ServerTypes
  <2>12. ClientTypes'
    BY <1>0, <1>9, <2>2 DEF TypeLine, ClientTypes
  <2>13. TextTypes'
    BY <1>0, <1>9 DEF TypeLine, TextTypes
  <2>14. FlagTypes'
    BY <1>0, <1>9, <2>3 DEF TypeLine, FlagTypes
  <2>15. CountTypes'
    BY <1>0, <1>9, <2>1 DEF TypeLine, CountTypes
  <2> QED BY <2>11, <2>12, <2>13, <2>14, <2>15 DEF DlvTypes
<1>10. CASE TypeHalf
  <2>1. spent' \in 0 .. MaxActs /\ hasty' \in 0 .. MaxHasty /\ bound' \in BOOLEAN
    BY <1>0, <1>10, ActsTypes DEF TypeHalf, User
  <2>2. cliOut' \in Seq(RealText)
    BY <1>0, <1>10, ItemsAreReal DEF TypeHalf, TextTypes, Items
  <2>11. ServerTypes'
    BY <1>0, <1>10 DEF TypeHalf, ServerTypes
  <2>12. ClientTypes'
    BY <1>0, <1>10 DEF TypeHalf, ClientTypes
  <2>13. TextTypes'
    BY <1>0, <1>10, <2>2 DEF TypeHalf, TextTypes
  <2>14. FlagTypes'
    BY <1>0, <1>10 DEF TypeHalf, FlagTypes
  <2>15. CountTypes'
    BY <1>0, <1>10, <2>1 DEF TypeHalf, CountTypes
  <2> QED BY <2>11, <2>12, <2>13, <2>14, <2>15 DEF DlvTypes
<1>11. CASE Enter
  <2>1. spent' \in 0 .. MaxActs /\ hasty' \in 0 .. MaxHasty /\ bound' \in BOOLEAN
    BY <1>0, <1>11, ActsTypes DEF Enter, User
  <2>2. cliIn' \in Seq(Lines)
    BY <1>0, <1>11 DEF Enter, ClientTypes, Lines
  <2>11. ServerTypes'
    BY <1>0, <1>11 DEF Enter, ServerTypes
  <2>12. ClientTypes'
    BY <1>0, <1>11, <2>2 DEF Enter, ClientTypes
  <2>13. TextTypes'
    BY <1>0, <1>11 DEF Enter, TextTypes
  <2>14. FlagTypes'
    BY <1>0, <1>11 DEF Enter, FlagTypes
  <2>15. CountTypes'
    BY <1>0, <1>11, <2>1 DEF Enter, CountTypes
  <2> QED BY <2>11, <2>12, <2>13, <2>14, <2>15 DEF DlvTypes
<1>12. CASE CtrlC
  <2>1. spent' \in 0 .. MaxActs /\ hasty' \in 0 .. MaxHasty /\ bound' \in BOOLEAN
    BY <1>0, <1>12, ActsTypes DEF CtrlC, User
  <2>2. cliIn' \in Seq(Lines)
    BY <1>0, <1>12 DEF CtrlC, ClientTypes, Lines
  <2>3. running' \in BOOLEAN
    BY <1>0, <1>12 DEF CtrlC, FlagTypes, SaysRunning
  <2>11. ServerTypes'
    BY <1>0, <1>12 DEF CtrlC, ServerTypes
  <2>12. ClientTypes'
    BY <1>0, <1>12, <2>2 DEF CtrlC, ClientTypes
  <2>13. TextTypes'
    BY <1>0, <1>12 DEF CtrlC, TextTypes
  <2>14. FlagTypes'
    BY <1>0, <1>12, <2>3 DEF CtrlC, FlagTypes
  <2>15. CountTypes'
    BY <1>0, <1>12, <2>1 DEF CtrlC, CountTypes
  <2> QED BY <2>11, <2>12, <2>13, <2>14, <2>15 DEF DlvTypes
<1>13. CASE Toggle
  <2>1. spent' \in 0 .. MaxActs /\ hasty' \in 0 .. MaxHasty /\ bound' \in BOOLEAN
    BY <1>0, <1>13, ActsTypes DEF Toggle, AtRest
  <2>11. ServerTypes'
    BY <1>0, <1>13 DEF Toggle, ServerTypes
  <2>12. ClientTypes'
    BY <1>0, <1>13 DEF Toggle, ClientTypes
  <2>13. TextTypes'
    BY <1>0, <1>13 DEF Toggle, TextTypes
  <2>14. FlagTypes'
    BY <1>0, <1>13 DEF Toggle, FlagTypes
  <2>15. CountTypes'
    BY <1>0, <1>13, <2>1 DEF Toggle, CountTypes
  <2> QED BY <2>11, <2>12, <2>13, <2>14, <2>15 DEF DlvTypes
<1>14. CASE ServeBreak
  <2>1. bps' \in {bps, ui = "insert"} /\ suppress' \in {suppress, suppress + 1}
    BY <1>14 DEF ServeBreak
  <2>2. cliIn' \in {cliIn, Append(cliIn, "clear"), cliIn \o <<"break", "continue">>, cliIn \o <<"break">>}
    BY <1>14 DEF ServeBreak
  <2>3. cliIn' \in Seq(Lines)
    <3>1. cliIn \in Seq(Lines)
      BY <1>0 DEF ClientTypes
    <3>2. "clear" \in Lines /\ <<"break", "continue">> \in Seq(Lines) /\ <<"break">> \in Seq(Lines)
      BY DEF Lines
    <3>3. /\ Append(cliIn, "clear") \in Seq(Lines) /\ cliIn \o <<"break", "continue">> \in Seq(Lines)
          /\ cliIn \o <<"break">> \in Seq(Lines)
      BY <3>1, <3>2
    <3> QED BY <2>2, <3>1, <3>3, Zenon
  <2>11. ServerTypes'
    BY <1>0, <1>14, <2>1 DEF ServeBreak, ServerTypes
  <2>12. ClientTypes'
    BY <1>0, <1>14, <2>3 DEF ServeBreak, ClientTypes
  <2>13. TextTypes'
    BY <1>0, <1>14 DEF ServeBreak, TextTypes
  <2>14. FlagTypes'
    BY <1>0, <1>14 DEF ServeBreak, FlagTypes
  <2>15. CountTypes'
    BY <1>0, <1>14, <2>1 DEF ServeBreak, CountTypes
  <2> QED BY <2>11, <2>12, <2>13, <2>14, <2>15 DEF DlvTypes
<1>15. CASE RunRefresh
  <2>1. list' \in BOOLEAN
    BY <1>0, <1>15 DEF RunRefresh, FlagTypes, ServerTypes
  <2>11. ServerTypes'
    BY <1>0, <1>15 DEF RunRefresh, ServerTypes
  <2>12. ClientTypes'
    BY <1>0, <1>15 DEF RunRefresh, ClientTypes
  <2>13. TextTypes'
    BY <1>0, <1>15 DEF RunRefresh, TextTypes
  <2>14. FlagTypes'
    BY <1>0, <1>15, <2>1 DEF RunRefresh, FlagTypes
  <2>15. CountTypes'
    BY <1>0, <1>15 DEF RunRefresh, CountTypes
  <2> QED BY <2>11, <2>12, <2>13, <2>14, <2>15 DEF DlvTypes
<1>16. CASE RefreshAfterStop
  <2>1. list' \in BOOLEAN
    BY <1>0, <1>16 DEF RefreshAfterStop, FlagTypes, ServerTypes
  <2>11. ServerTypes'
    BY <1>0, <1>16 DEF RefreshAfterStop, ServerTypes
  <2>12. ClientTypes'
    BY <1>0, <1>16 DEF RefreshAfterStop, ClientTypes
  <2>13. TextTypes'
    BY <1>0, <1>16 DEF RefreshAfterStop, TextTypes
  <2>14. FlagTypes'
    BY <1>0, <1>16, <2>1 DEF RefreshAfterStop, FlagTypes
  <2>15. CountTypes'
    BY <1>0, <1>16 DEF RefreshAfterStop, CountTypes
  <2> QED BY <2>11, <2>12, <2>13, <2>14, <2>15 DEF DlvTypes
<1>17. CASE HandleOutput
  <2>1. PICK m : m = Head(uiq)
    OBVIOUS
  <2>2. PICK u : u = PushRaw(lineBuf, m)
    OBVIOUS
  <2>3. m \in Seq(RealText) /\ uiq' \in Seq(Seq(RealText))
    BY <1>0, <1>17, <2>1 DEF HandleOutput, TextTypes
  <2>4. m \in Seq(Text)
    BY <2>3, RealTextIsText
  <2>5. lineBuf \in {"none", "text"}
    BY <1>0 DEF TextTypes
  <2>6. /\ u.buf \in {"none", "text"} /\ u.stop \in 0 .. MaxStops + 1 /\ u.exit \in 0 .. MaxStops + 1
        /\ u.prompt \in BOOLEAN /\ u.ask \in BOOLEAN /\ u.garbled \in BOOLEAN /\ u.bpset \in BOOLEAN
        /\ u.exit # 0 => \E x \in DOMAIN m : m[x].k = "exit" /\ m[x].n = u.exit
    BY <2>2, <2>4, <2>5, PushRawSays
  <2>7. u.exit \in 0 .. MaxStops
    <3>1. ASSUME NEW x \in DOMAIN m, m[x].k = "exit"
          PROVE  m[x].n \in 0 .. MaxStops
      <4>1. m[x] \in RealText
        BY <2>3
      <4> QED BY <3>1, <4>1 DEF RealText
    <3> QED BY <2>6, <3>1, BoundsAreNat
  <2>8. u.stop # Frame => u.stop \in 0 .. MaxStops
    BY <2>6, BoundsAreNat DEF Frame
  <2>9. shown' \in {u.exit, shown} \/ (shown' = u.stop /\ u.stop # Frame)
    BY <1>17, <2>1, <2>2 DEF HandleOutput
  <2>10. lineBuf' = u.buf
    BY <1>17, <2>1, <2>2 DEF HandleOutput
  <2>11. ServerTypes'
    BY <1>0, <1>17 DEF HandleOutput, ServerTypes
  <2>12. ClientTypes'
    BY <1>0, <1>17 DEF HandleOutput, ClientTypes
  <2>13. TextTypes'
    BY <1>0, <1>17, <2>3, <2>6, <2>10 DEF HandleOutput, TextTypes
  <2>14. FlagTypes'
    BY <1>0, <1>17 DEF HandleOutput, FlagTypes
  <2>15. CountTypes'
    BY <1>0, <1>17, <2>7, <2>8, <2>9 DEF HandleOutput, CountTypes
  <2> QED BY <2>11, <2>12, <2>13, <2>14, <2>15 DEF DlvTypes
<1>18. CASE UNCHANGED dlvVars
  <2>11. ServerTypes'
    BY <1>0, <1>18 DEF dlvVars, ServerTypes
  <2>12. ClientTypes'
    BY <1>0, <1>18 DEF dlvVars, ClientTypes
  <2>13. TextTypes'
    BY <1>0, <1>18 DEF dlvVars, TextTypes
  <2>14. FlagTypes'
    BY <1>0, <1>18 DEF dlvVars, FlagTypes
  <2>15. CountTypes'
    BY <1>0, <1>18 DEF dlvVars, CountTypes
  <2> QED BY <2>11, <2>12, <2>13, <2>14, <2>15 DEF DlvTypes
<1> QED BY <1>1, <1>2, <1>3, <1>4, <1>5, <1>6, <1>7, <1>8, <1>9, <1>10, <1>11, <1>12, <1>13, <1>14,
           <1>15, <1>16, <1>17, <1>18, DlvSteps

(* TypeOK of the module: what the texts hold, the stops and the counters,  *)
(* for any bounds.                                                         *)
LEMMA TypesGiveTypeOK == ASSUME DlvTypes PROVE DlvTypeOK
<1>1. cliOut \in Seq(Text) /\ uiq \in Seq(Seq(Text)) /\ job.ans \in Seq(Text)
  BY RealTextIsText DEF DlvTypes, ClientTypes, TextTypes, RPCJobs
<1>2. job.pc \in {"none", "sent", "answered", "posted"} /\ job.cmd \in Commands
  BY DEF DlvTypes, ClientTypes, RPCJobs
<1>3. {running, confirming, bpDeferred, refresh, afterStop, list, lost, bound, halfTyped}
         \subseteq BOOLEAN
  BY DEF DlvTypes, FlagTypes, CountTypes, ClientTypes
<1> QED BY <1>1, <1>2, <1>3
     DEF DlvTypes, ServerTypes, ClientTypes, TextTypes, FlagTypes, CountTypes, DlvTypeOK

LEMMA DlvTypesAlways == DlvSpec => []DlvTypes
<1>1. DlvInit => DlvTypes
  BY DlvTypesInit
<1>2. DlvTypes /\ [DlvNext]_dlvVars => DlvTypes'
  BY DlvTypesNext
<1> QED BY <1>1, <1>2, PTL DEF DlvSpec

(* The types of the whole session under Delve hold: in particular whatever *)
(* PushRaw makes of a text, in any cut, names a stop there was.            *)
THEOREM DlvTypesHold == DlvSpec => []DlvTypeOK
<1>1. DlvTypes => DlvTypeOK
  BY TypesGiveTypeOK
<1> QED BY <1>1, DlvTypesAlways, PTL

---------------------------------------------------------------------------
(* Delve: one key's resume at a time, and a running program is noticed     *)

(* The key's goroutine is at work exactly while the flag is up, and only   *)
(* before its resume ends it has one, at the server or running.            *)
OneKey ==
    /\ resuming <=> job.pc # "none"
    /\ \A i \in DOMAIN waiting : waiting[i] = "job" =>
         /\ job.pc = "sent" /\ ~(target = "running" /\ runner = "job")
         /\ \A j \in DOMAIN waiting : waiting[j] = "job" => j = i
    /\ target = "running" /\ runner = "job" => job.pc = "sent"

LEMMA OneKeyAppend ==
  ASSUME DlvTypes, NEW who \in {"job", "cli"}, waiting' = Append(waiting, who)
  PROVE  /\ DOMAIN waiting' = DOMAIN waiting \cup {Len(waiting) + 1} /\ Len(waiting) + 1 \notin DOMAIN waiting
         /\ \A i \in DOMAIN waiting : waiting'[i] = waiting[i]
         /\ waiting'[Len(waiting) + 1] = who
  BY DEF DlvTypes, ServerTypes

LEMMA OneKeyStop ==
  ASSUME DlvTypes, OneKey, Stops
  PROVE  OneKey'
<1>1. PICK items : Answer(runner, items)
  BY DEF Stops
<1>2. target = "running" /\ target' # "running" /\ UNCHANGED <<runner, waiting, resuming>>
  BY DEF Stops
<1>3. CASE runner = "job"
  <2>1. job'.pc = "answered" /\ job.pc = "sent"
    BY <1>1, <1>2, <1>3 DEF Answer, OneKey, DlvTypes, ClientTypes, RPCJobs
  <2> QED BY <1>2, <1>3, <2>1 DEF OneKey
<1>4. CASE runner # "job"
  <2>1. UNCHANGED job
    BY <1>1, <1>4 DEF Answer
  <2> QED BY <1>2, <1>4, <2>1 DEF OneKey
<1> QED BY <1>3, <1>4

LEMMA OneKeyNext == ASSUME DlvTypes, OneKey, [DlvNext]_dlvVars PROVE OneKey'
<1> USE DEF server, client, term, texts, gate, breaks, pane, rest
<1>1. ASSUME NEW cmd \in Commands, Exec(cmd) PROVE OneKey'
  <2>1. CASE resuming
    BY <1>1, <2>1 DEF Exec, OneKey
  <2>2. CASE ~resuming
    <3>1. /\ resuming' /\ job'.pc = "sent" /\ waiting' = Append(waiting, "job")
          /\ UNCHANGED <<target, runner>>
      BY <1>1, <2>2 DEF Exec
    <3>2. job.pc = "none"
      BY <2>2 DEF OneKey
    <3> QED BY <3>1, <3>2, OneKeyAppend DEF OneKey
  <2> QED BY <2>1, <2>2
<1>2. CASE NoteStop
  <2>1. job.pc = "answered" /\ job'.pc = "posted"
    BY <1>2 DEF NoteStop, DlvTypes, ClientTypes, RPCJobs
  <2> QED BY <1>2, <2>1 DEF NoteStop, OneKey
<1>3. CASE Done
  BY <1>3 DEF Done, NoJob, OneKey
<1>4. CASE ServeResume
  <2>1. waiting # <<>> /\ target # "running" /\ waiting' = Tail(waiting) /\ UNCHANGED resuming
    BY <1>4 DEF ServeResume
  <2>2. /\ 1 \in DOMAIN waiting /\ waiting[1] = Head(waiting)
        /\ \A i \in DOMAIN waiting' : i + 1 \in DOMAIN waiting /\ waiting'[i] = waiting[i + 1] /\ i + 1 # 1
                                      /\ \A j \in DOMAIN waiting' : i + 1 = j + 1 => i = j
    BY <2>1 DEF DlvTypes, ServerTypes
  <2>3. CASE Head(waiting) = "job"
    <3>1. \A i \in DOMAIN waiting' : waiting'[i] # "job"
      BY <2>2, <2>3 DEF OneKey
    <3>2. job.pc = "sent"
      BY <2>2, <2>3 DEF OneKey
    <3>3. \/ Answer("job", <<>>) /\ target' = "stopped"
          \/ Answer("job", <<Item("failed")>>) /\ UNCHANGED <<target, runner>>
          \/ UNCHANGED job
      BY <1>4, <2>3 DEF ServeResume
    <3>4. ASSUME NEW items, Answer("job", items) PROVE job'.pc = "answered"
      BY <3>4 DEF Answer, DlvTypes, ClientTypes, RPCJobs
    <3> QED BY <2>1, <3>1, <3>2, <3>3, <3>4 DEF OneKey
  <2>4. CASE Head(waiting) # "job"
    <3>1. UNCHANGED job /\ (UNCHANGED target \/ (target' = "running" /\ runner' # "job"))
      BY <1>4, <2>4 DEF ServeResume, Answer
    <3>2. ASSUME NEW i \in DOMAIN waiting', waiting'[i] = "job"
          PROVE  /\ job.pc = "sent"
                 /\ \A j \in DOMAIN waiting' : waiting'[j] = "job" => j = i
      BY <2>2, <3>2 DEF OneKey
    <3>3. target' = "running" => runner' # "job"
      BY <2>1, <3>1
    <3> QED BY <2>1, <3>1, <3>2, <3>3 DEF OneKey
  <2> QED BY <2>3, <2>4
<1>5. CASE ProgramStops
  BY <1>5, OneKeyStop DEF ProgramStops
<1>6. CASE Halt
  <2>1. Stops \/ UNCHANGED <<server, client>>
    BY <1>6 DEF Halt
  <2> QED BY <2>1, OneKeyStop DEF OneKey
<1>7. CASE CliReads
  <2>1. waiting' = waiting \/ waiting' = Append(waiting, "cli")
    BY <1>7 DEF CliReads
  <2>2. UNCHANGED <<target, runner, job, resuming>>
    BY <1>7 DEF CliReads
  <2> QED BY <2>1, <2>2, OneKeyAppend DEF OneKey
<1>8. CASE UNCHANGED <<target, runner, waiting, job, resuming>>
  BY <1>8 DEF OneKey
<1>9. \/ \E cmd \in Commands : Exec(cmd)
      \/ NoteStop \/ Done \/ ServeResume \/ ProgramStops \/ Halt \/ CliReads
      \/ UNCHANGED <<target, runner, waiting, job, resuming>>
  BY DlvSteps DEF Flush, TypeLine, TypeHalf, Enter, CtrlC, Toggle, ServeBreak, RunRefresh,
                  RefreshAfterStop, HandleOutput, dlvVars
<1> QED BY <1>1, <1>2, <1>3, <1>4, <1>5, <1>6, <1>7, <1>8, <1>9

(* However fast the keys, the stops and the goroutines' ends come, no key's*)
(* resume waits behind a run that a key started (execViaRPC).              *)
THEOREM NoStopIsRunPast == DlvSpec => []StopIsNotRunPast
<1>1. DlvInit => OneKey
  BY DEF DlvInit, NoJob, OneKey
<1>2. DlvTypes /\ OneKey /\ [DlvNext]_dlvVars => OneKey'
  BY OneKeyNext
<1>3. OneKey => StopIsNotRunPast
  BY DEF OneKey, StopIsNotRunPast
<1> QED BY <1>1, <1>2, <1>3, DlvTypesAlways, PTL DEF DlvSpec

(* Whatever the flag says of a program the server knows to run, Ctrl-C     *)
(* halts it and a bare Enter is dropped (backendSaysRunning).              *)
THEOREM RunningIsAlwaysNoticed == DlvSpec => RunningIsNoticed
<1> DEFINE A == target = "running" /\ spent' # spent /\ UNCHANGED halfTyped =>
                  /\ CtrlC /\ ~confirming => halts' > halts
                  /\ Enter => cliIn' = cliIn
<1>1. ASSUME DlvTypes PROVE A
  <2>1. ASSUME target = "running", CtrlC, ~confirming
        PROVE  halts' > halts
    <3>1. halts' = halts + 1
      BY <2>1 DEF CtrlC, SaysRunning
    <3> QED BY <1>1, <3>1 DEF DlvTypes, ServerTypes
  <2>2. ASSUME target = "running", Enter
        PROVE  cliIn' = cliIn
    BY <2>2 DEF Enter, SaysRunning
  <2> QED BY <2>1, <2>2
<1>2. DlvTypes /\ [DlvNext]_dlvVars => [A]_dlvVars
  BY <1>1
<1> QED BY <1>2, DlvTypesAlways, PTL DEF DlvSpec, RunningIsNoticed
---------------------------------------------------------------------------
(* Delve: what a patient user sees                                         *)

(* The text on its way to the screen, and what the key's goroutine will    *)
(* still say.                                                              *)
Stream == (UNION {Range(uiq[j]) : j \in DOMAIN uiq}) \cup Range(cliOut)
Held   == IF job.pc = "answered" THEN Range(job.ans) ELSE {}

Coming(kinds) == \E x \in Stream : x.k \in kinds
AtServer      == waiting # <<>> \/ target = "running"
Outcome(x)    == x.k \in {"stop", "exit"} /\ x.n # Frame
IsFrame(x)    == x.k = "stop" /\ x.n = Frame

(* A text leaves a line unfinished, and so does what is before the j-th    *)
(* message, and the whole stream.                                          *)
Open(m)   == m[Len(m)].k = "echo"
OpenAt(j) == IF j = 0 THEN lineBuf = "text" ELSE Open(uiq[j])
EndsOpen  == IF cliOut = <<>> THEN OpenAt(Len(uiq)) ELSE Open(cliOut)

(* After an unfinished line comes the rest of it, unless it is half a line *)
(* of the user's and a key's resume ends.                                  *)
Fits(open, m) ==
    open /\ m[1].k \notin {"echo", "nl"} => halfTyped /\ m[1].k \in {"stop", "exit", "failed"}

(* The text is well made across its cuts; it ends in half a line only if   *)
(* the user typed that.                                                    *)
TextFits ==
    /\ \A j \in DOMAIN uiq : uiq[j] # <<>> /\ WellMade(uiq[j]) /\ Fits(OpenAt(j - 1), uiq[j])
    /\ WellMade(cliOut)
    /\ cliOut # <<>> => Fits(OpenAt(Len(uiq)), cliOut)
    /\ EndsOpen => halfTyped \/ cliIn # <<>>
    /\ cli = "inServer" => ~EndsOpen /\ (cliOut # <<>> => cliOut[Len(cliOut)].k = "nl")

(* One resume at a time, of a key or of the command line, and meanwhile    *)
(* nothing else is under way.                                              *)
OneResume ==
    /\ waiting \in {<<>>, <<"job">>, <<"cli">>}
    /\ target = "running" => waiting = <<>>
    /\ waiting = <<"job">> \/ (target = "running" /\ runner = "job") => job.pc = "sent"
    /\ job.pc = "sent" => waiting = <<"job">> \/ (target = "running" /\ runner = "job")
    /\ waiting = <<"cli">> \/ (target = "running" /\ runner = "cli") => cli = "inServer"
    /\ cli = "inServer" => waiting = <<"cli">> \/ (target = "running" /\ runner = "cli")
    /\ job.pc # "none" => cliIn = <<>> /\ cli = "prompt" /\ ui = "free" /\ ~confirming
    /\ job.pc = "answered" => job.ans = <<>> \/ \E x \in RealText :
                                job.ans = <<x>> /\ x.k \in {"stop", "exit", "failed"}
    /\ AtServer => cliIn = <<>> /\ ui = "free" /\ list = bps /\ ~confirming

(* A line waits to be read only while the program rests; a second one only *)
(* behind a refused breakpoint, for a flag that is wrong.                  *)
LinesWait ==
    /\ cliIn # <<>> =>
         /\ ~AtServer /\ job.pc = "none" /\ ui = "free" /\ ~refresh
         /\ \/ cliIn = <<"break", "continue">> /\ ~bound /\ lost
            \/ \E l \in Lines : cliIn = <<l>>
         /\ Stream # {} => cli = "asking" /\ cliIn = <<"continue">>
         /\ cliIn = <<"continue">> /\ cli = "asking" => lost
    /\ ui # "free" => /\ uiq = <<>> /\ cliOut = <<>> /\ ~AtServer /\ ~refresh /\ ~afterStop
                      /\ list = (ui = "insert")

(* What may be on its way when; and every stop is the last one, every      *)
(* frame alone.                                                            *)
TextSays ==
    /\ Coming({"stop", "exit", "failed", "bpset", "line", "prompt"}) =>
         ~AtServer /\ cliIn = <<>> /\ cli = "prompt" /\ ui = "free"
    /\ Coming({"ask"}) => cli = "asking"
    /\ job.pc # "none" => /\ ~Coming({"nl", "ask", "prompt", "bpset"})
                          /\ \A x \in Range(cliOut) : x.k = "echo"
    /\ \A x \in Stream \cup Held :
         /\ x.k = "stop" /\ x.n # Frame => x.n = stops /\ x.n # 0 /\ target = "stopped"
         /\ x.k = "exit" => x.n = stops /\ x.n # 0 /\ target = "exited"
         /\ IsFrame(x) => \A y \in Stream \cup Held : y.k \in {"stop", "exit"} => IsFrame(y)
         /\ IsFrame(x) => job.pc = "none"

(* The screen shows the last stop, or will.                                *)
ShownOrComing ==
    ~AtServer /\ ~lost /\ ~(cliIn # <<>> /\ Head(cliIn) = "continue")
      => (shown = stops /\ ~running) \/ \E x \in Stream \cup Held : Outcome(x)

(* No token is left to swallow it.                                         *)
TokensSpent ==
    ~lost /\ target # "exited" =>
      /\ suppress = 0
      /\ navs # 0 => navs = 1 /\ ((cliIn = <<"up">> /\ cli = "prompt") \/ \E x \in Stream : IsFrame(x))

(* The console knows of Delve's question, or will.                         *)
QuestionSeen ==
    /\ confirming /\ cli # "asking" => Coming({"prompt"})
    /\ cli = "asking" /\ ~confirming => Coming({"ask"})

(* If the list is wrong, a refresh is owed.                                *)
ListOwed ==
    list # bps =>
      \/ ui # "free" \/ refresh
      \/ Coming({"bpset"})
      \/ /\ bpDeferred
         /\ \/ cli = "asking" \/ Coming({"prompt"})
            \/ cliIn # <<>> /\ Head(cliIn) \in {"break", "clear"}

Patient == /\ TextFits /\ OneResume /\ LinesWait /\ TextSays
           /\ ShownOrComing /\ TokensSpent /\ QuestionSeen /\ ListOwed

LEMMA InRange == \A s, x : x \in Range(s) <=> \E i \in DOMAIN s : x = s[i]
  BY DEF Range

LEMMA StreamHas ==
  \A x : x \in Stream <=> (\E j \in DOMAIN uiq : x \in Range(uiq[j])) \/ x \in Range(cliOut)
<1> DEFINE U == UNION {Range(uiq[j]) : j \in DOMAIN uiq}
<1>1. \A x : x \in U <=> \E j \in DOMAIN uiq : x \in Range(uiq[j])
  OBVIOUS
<1>2. Stream = U \cup Range(cliOut)
  BY DEF Stream
<1> HIDE DEF U
<1>3. \A x : x \in Stream <=> x \in U \/ x \in Range(cliOut)
  BY <1>2
<1> QED BY <1>1, <1>3

LEMMA StreamHasNext ==
  \A x : x \in Stream' <=> (\E j \in DOMAIN uiq' : x \in Range(uiq'[j])) \/ x \in Range(cliOut')
<1> DEFINE U == UNION {Range(uiq'[j]) : j \in DOMAIN uiq'}
<1>1. \A x : x \in U <=> \E j \in DOMAIN uiq' : x \in Range(uiq'[j])
  OBVIOUS
<1>2. Stream' = U \cup Range(cliOut')
  BY DEF Stream
<1> HIDE DEF U
<1>3. \A x : x \in Stream' <=> x \in U \/ x \in Range(cliOut')
  BY <1>2
<1> QED BY <1>1, <1>3

LEMMA StreamSame == ASSUME UNCHANGED <<uiq, cliOut>> PROVE Stream' = Stream
  BY DEF Stream

LEMMA RangeIsText == \A s \in Seq(RealText) : Range(s) \subseteq RealText
<1>1. \A s \in Seq(RealText) : \A i \in DOMAIN s : s[i] \in RealText
  OBVIOUS
<1> QED BY <1>1, InRange

LEMMA RangeOfParts ==
  ASSUME NEW s \in Seq(RealText), NEW t \in Seq(RealText)
  PROVE  Range(s \o t) = Range(s) \cup Range(t)
<1> DEFINE c == s \o t
<1>1. /\ \A i \in DOMAIN s : i \in DOMAIN c /\ c[i] = s[i]
      /\ \A i \in DOMAIN t : i + Len(s) \in DOMAIN c /\ c[i + Len(s)] = t[i]
      /\ \A i \in DOMAIN c : (i \in DOMAIN s /\ c[i] = s[i])
                             \/ (i - Len(s) \in DOMAIN t /\ c[i] = t[i - Len(s)])
  OBVIOUS
<1> HIDE DEF c
<1>2. ASSUME NEW x \in Range(c) PROVE x \in Range(s) \/ x \in Range(t)
  <2>1. PICK i \in DOMAIN c : x = c[i]
    BY <1>2, InRange, Zenon
  <2> QED BY <1>1, <2>1, InRange
<1>3. ASSUME NEW x \in Range(s) PROVE x \in Range(c)
  <2>1. PICK i \in DOMAIN s : x = s[i]
    BY <1>3, InRange, Zenon
  <2> QED BY <1>1, <2>1, InRange
<1>4. ASSUME NEW x \in Range(t) PROVE x \in Range(c)
  <2>1. PICK i \in DOMAIN t : x = t[i]
    BY <1>4, InRange, Zenon
  <2> QED BY <1>1, <2>1, InRange
<1>5. Range(c) = Range(s) \cup Range(t)
  BY <1>2, <1>3, <1>4
<1> QED BY <1>5 DEF c

LEMMA StreamIsText == ASSUME DlvTypes PROVE Stream \subseteq RealText
<1>1. /\ \A j \in DOMAIN uiq : uiq[j] \in Seq(RealText)
      /\ cliOut \in Seq(RealText)
  BY DEF DlvTypes, TextTypes
<1> QED BY <1>1, StreamHas, RangeIsText

LEMMA StreamSays ==
  ASSUME DlvTypes, NEW items \in Seq(RealText), cliOut' = cliOut \o items, UNCHANGED uiq
  PROVE  Stream' = Stream \cup Range(items)
<1>1. cliOut \in Seq(RealText)
  BY DEF DlvTypes, TextTypes
<1>2. Range(cliOut') = Range(cliOut) \cup Range(items)
  BY <1>1, RangeOfParts
<1>3. \A x : x \in Stream' <=> x \in Stream \/ x \in Range(items)
  BY <1>2, StreamHas, StreamHasNext
<1> QED BY <1>3

LEMMA StreamPosts ==
  ASSUME DlvTypes, NEW m \in Seq(RealText), uiq' = Append(uiq, m)
  PROVE  \A x : (\E j \in DOMAIN uiq' : x \in Range(uiq'[j]))
                  <=> (\E j \in DOMAIN uiq : x \in Range(uiq[j])) \/ x \in Range(m)
<1>1. uiq \in Seq(Seq(RealText))
  BY DEF DlvTypes, TextTypes
<1>2. /\ \A j : j \in DOMAIN uiq' <=> j \in DOMAIN uiq \/ j = Len(uiq) + 1
      /\ uiq'[Len(uiq) + 1] = m
      /\ \A j \in DOMAIN uiq : uiq'[j] = uiq[j]
  BY <1>1
<1> QED BY <1>2

LEMMA StreamPost ==
  ASSUME DlvTypes, NEW m \in Seq(RealText), uiq' = Append(uiq, m), UNCHANGED cliOut
  PROVE  Stream' = Stream \cup Range(m)
<1>1. \A x : x \in Stream' <=> x \in Stream \/ x \in Range(m)
  BY StreamPosts, StreamHas, StreamHasNext
<1> QED BY <1>1

LEMMA StreamFlush ==
  ASSUME DlvTypes, NEW i \in 1 .. Len(cliOut), uiq' = Append(uiq, SubSeq(cliOut, 1, i)),
         cliOut' = SubSeq(cliOut, i + 1, Len(cliOut))
  PROVE  Stream' = Stream
<1>1. cliOut \in Seq(RealText)
  BY DEF DlvTypes, TextTypes
<1>2. SubSeq(cliOut, 1, i) \in Seq(RealText) /\ cliOut' \in Seq(RealText)
  BY <1>1
<1>3. cliOut = SubSeq(cliOut, 1, i) \o cliOut'
  BY <1>1
<1>4. Range(cliOut) = Range(SubSeq(cliOut, 1, i)) \cup Range(cliOut')
  BY <1>2, <1>3, RangeOfParts
<1>5. \A x : x \in Stream' <=> x \in Stream
  BY <1>2, <1>4, StreamPosts, StreamHas, StreamHasNext
<1> QED BY <1>5

LEMMA StreamTakes ==
  ASSUME DlvTypes, uiq # <<>>, uiq' = Tail(uiq), UNCHANGED cliOut
  PROVE  Stream = Stream' \cup Range(Head(uiq))
<1>1. uiq \in Seq(Seq(RealText))
  BY DEF DlvTypes, TextTypes
<1>2. /\ 1 \in DOMAIN uiq /\ uiq[1] = Head(uiq)
      /\ \A j \in DOMAIN uiq' : j + 1 \in DOMAIN uiq /\ uiq'[j] = uiq[j + 1]
      /\ \A j \in DOMAIN uiq : j = 1 \/ (j - 1 \in DOMAIN uiq' /\ uiq'[j - 1] = uiq[j])
  BY <1>1
<1>3. ASSUME NEW x, NEW j \in DOMAIN uiq, x \in Range(uiq[j])
      PROVE  (\E k \in DOMAIN uiq' : x \in Range(uiq'[k])) \/ x \in Range(Head(uiq))
  BY <1>2, <1>3
<1>4. ASSUME NEW x, NEW j \in DOMAIN uiq', x \in Range(uiq'[j])
      PROVE  \E k \in DOMAIN uiq : x \in Range(uiq[k])
  BY <1>2, <1>4
<1>5. ASSUME NEW x, x \in Range(Head(uiq))
      PROVE  \E k \in DOMAIN uiq : x \in Range(uiq[k])
  BY <1>2, <1>5
<1>6. \A x : x \in Stream <=> x \in Stream' \/ x \in Range(Head(uiq))
  BY <1>3, <1>4, <1>5, StreamHas, StreamHasNext
<1> QED BY <1>6

LEMMA RealConcat == \A r, s, t \in Seq(RealText) : (r \o s) \o t = r \o (s \o t)
  BY ConcatAssociative

LEMMA EmptyRange == Range(<<>>) = {}
  BY DEF Range

LEMMA EmptyStream ==
  /\ uiq = <<>> /\ cliOut = <<>> => Stream = {}
  /\ uiq' = <<>> /\ cliOut' = <<>> => Stream' = {}
<1>1. \A i : i \notin DOMAIN <<>>
  OBVIOUS
<1> QED BY <1>1, EmptyRange, StreamHas, StreamHasNext

LEMMA HeldSame == ASSUME UNCHANGED job PROVE Held' = Held
  BY DEF Held

LEMMA HeldNone ==
  /\ job.pc # "answered" => Held = {}
  /\ job'.pc # "answered" => Held' = {}
  BY DEF Held

(* The text is left alone. *)
LEMMA TextFitsSame ==
  ASSUME TextFits, UNCHANGED <<uiq, cliOut, lineBuf>>, halfTyped => halfTyped',
         EndsOpen => halfTyped' \/ cliIn' # <<>>, cli' = "inServer" => cli = "inServer"
  PROVE  TextFits'
<1>1. (EndsOpen)' = EndsOpen /\ \A j : (OpenAt(j))' = OpenAt(j)
  BY DEF EndsOpen, OpenAt, Open
<1>2. \A open, m : Fits(open, m) => (Fits(open, m))'
  BY DEF Fits
<1> QED BY <1>1, <1>2 DEF TextFits

LEMMA WellMadeParts ==
  ASSUME NEW s \in Seq(RealText), NEW t \in Seq(RealText), WellMade(s), WellMade(t), t # <<>>,
         s # <<>> => Follows(s[Len(s)], t[1])
  PROVE  WellMade(s \o t)
<1> DEFINE c == s \o t
<1>1. /\ \A i \in 1 .. Len(s) : c[i] = s[i]
      /\ \A i \in 1 .. Len(t) : c[i + Len(s)] = t[i]
      /\ Len(c) = Len(s) + Len(t) /\ Len(t) \in Nat \ {0} /\ Len(s) \in Nat
  OBVIOUS
<1> HIDE DEF c
<1> SUFFICES ASSUME NEW i \in 1 .. Len(c) - 1
             PROVE  Follows(c[i], c[i + 1])
  BY DEF WellMade, c
<1>2. CASE i < Len(s)
  <2>1. i \in 1 .. Len(s) - 1 /\ c[i] = s[i] /\ c[i + 1] = s[i + 1]
    BY <1>1, <1>2
  <2> QED BY <2>1 DEF WellMade
<1>3. CASE i = Len(s)
  <2>1. c[i] = s[Len(s)] /\ c[i + 1] = t[1]
    BY <1>1, <1>3
  <2>2. s # <<>>
    BY <1>1, <1>3
  <2> QED BY <2>1, <2>2
<1>4. CASE i > Len(s)
  <2>1. PICK k \in 1 .. Len(t) - 1 : i = k + Len(s)
    <3>1. i - Len(s) \in 1 .. Len(t) - 1 /\ i = (i - Len(s)) + Len(s)
      BY <1>1, <1>4
    <3> QED BY <3>1
  <2>2. k \in 1 .. Len(t) /\ k + 1 \in 1 .. Len(t) /\ i + 1 = (k + 1) + Len(s)
    BY <1>1, <2>1
  <2>3. c[i] = t[k] /\ c[i + 1] = t[k + 1]
    BY <1>1, <2>1, <2>2
  <2> QED BY <2>1, <2>3 DEF WellMade
<1> QED BY <1>1, <1>2, <1>3, <1>4

(* The command line has said something: first the end of an echoed line.   *)
LEMMA TextFitsSays ==
  ASSUME DlvTypes, TextFits, NEW items \in Seq(RealText), items # <<>>,
         cliOut' = cliOut \o items, UNCHANGED <<uiq, lineBuf, halfTyped>>,
         WellMade(items), cliOut # <<>> => Follows(cliOut[Len(cliOut)], items[1]),
         cliOut = <<>> => Fits(OpenAt(Len(uiq)), items),
         items[Len(items)].k = "echo" => halfTyped,
         cli' = "inServer" => items[Len(items)].k = "nl"
  PROVE  TextFits'
<1>1. cliOut \in Seq(RealText)
  BY DEF DlvTypes, TextTypes
<1>2. /\ \A i \in 1 .. Len(cliOut) : cliOut'[i] = cliOut[i]
      /\ \A i \in 1 .. Len(items) : cliOut'[i + Len(cliOut)] = items[i]
      /\ Len(cliOut') = Len(cliOut) + Len(items) /\ Len(items) \in Nat \ {0} /\ Len(cliOut) \in Nat
  BY <1>1
<1>3. WellMade(cliOut')
  BY <1>1, WellMadeParts DEF TextFits
<1>4. \A j : (OpenAt(j))' = OpenAt(j)
  BY DEF OpenAt, Open
<1>5. \A open, m : Fits(open, m) => (Fits(open, m))'
  BY DEF Fits
<1>6. cliOut' # <<>> /\ cliOut'[Len(cliOut')] = items[Len(items)]
  BY <1>1, <1>2
<1>7. (EndsOpen)' = (items[Len(items)].k = "echo")
  BY <1>6 DEF EndsOpen, Open
<1>8. Fits(OpenAt(Len(uiq)), cliOut')
  <2>1. CASE cliOut = <<>>
    <3>1. cliOut' = items
      BY <2>1
    <3> QED BY <2>1, <3>1
  <2>2. CASE cliOut # <<>>
    <3>1. cliOut'[1] = cliOut[1]
      BY <1>1, <1>2, <2>2
    <3> QED BY <2>2, <3>1 DEF TextFits, Fits
  <2> QED BY <2>1, <2>2
<1>9. items[Len(items)].k = "echo" => "nl" # items[Len(items)].k
  OBVIOUS
<1> QED BY <1>3, <1>4, <1>5, <1>6, <1>7, <1>8, <1>9 DEF TextFits

(* The coalescer cuts where it likes. *)
LEMMA TextFitsFlush ==
  ASSUME DlvTypes, TextFits, NEW i \in 1 .. Len(cliOut), uiq' = Append(uiq, SubSeq(cliOut, 1, i)),
         cliOut' = SubSeq(cliOut, i + 1, Len(cliOut)), UNCHANGED <<lineBuf, halfTyped, cliIn, cli>>
  PROVE  TextFits'
<1>1. uiq \in Seq(Seq(RealText)) /\ cliOut \in Seq(RealText)
  BY DEF DlvTypes, TextTypes
<1>2. PICK m : m = SubSeq(cliOut, 1, i)
  OBVIOUS
<1>3. /\ DOMAIN uiq' = DOMAIN uiq \cup {Len(uiq) + 1} /\ uiq'[Len(uiq) + 1] = m
      /\ \A j \in DOMAIN uiq : uiq'[j] = uiq[j]
      /\ Len(uiq') = Len(uiq) + 1 /\ Len(uiq) \in Nat /\ DOMAIN uiq = 1 .. Len(uiq)
  BY <1>1, <1>2
<1>4. /\ m # <<>> /\ Len(m) = i /\ \A k \in 1 .. i : m[k] = cliOut[k]
      /\ i \in Nat /\ i >= 1 /\ i <= Len(cliOut) /\ Len(cliOut) \in Nat
  <2>1. i \in Nat /\ i >= 1 /\ i <= Len(cliOut) /\ Len(cliOut) \in Nat
    BY <1>1
  <2>2. Len(m) = i /\ \A k \in 1 .. i : m[k] = cliOut[k]
    BY <1>1, <1>2, <2>1
  <2>3. m # <<>>
    BY <2>1, <2>2
  <2> QED BY <2>1, <2>2, <2>3
<1>5. /\ Len(cliOut') = Len(cliOut) - i
      /\ \A k \in 1 .. Len(cliOut) - i : cliOut'[k] = cliOut[k + i]
      /\ cliOut' # <<>> <=> i < Len(cliOut)
  <2>1. /\ Len(cliOut') = Len(cliOut) - i /\ cliOut' \in Seq(RealText)
        /\ \A k \in 1 .. Len(cliOut) - i : cliOut'[k] = cliOut[k + i]
    BY <1>1, <1>4
  <2>2. cliOut' # <<>> <=> Len(cliOut') # 0
    BY <2>1, EmptySeq
  <2> QED BY <1>4, <2>1, <2>2
<1>6. \A j \in 0 .. Len(uiq) : (OpenAt(j))' = OpenAt(j)
  BY <1>3 DEF OpenAt, Open
<1>7. WellMade(m) /\ WellMade(cliOut')
  <2>1. ASSUME NEW k \in 1 .. Len(m) - 1 PROVE Follows(m[k], m[k + 1])
    <3>1. k \in 1 .. Len(cliOut) - 1 /\ m[k] = cliOut[k] /\ m[k + 1] = cliOut[k + 1]
      BY <1>4, <2>1
    <3> QED BY <3>1 DEF TextFits, WellMade
  <2>2. ASSUME NEW k \in 1 .. Len(cliOut') - 1 PROVE Follows(cliOut'[k], cliOut'[k + 1])
    <3>1. k + i \in 1 .. Len(cliOut) - 1 /\ cliOut'[k] = cliOut[k + i] /\ cliOut'[k + 1] = cliOut[(k + i) + 1]
      BY <1>4, <1>5, <2>2
    <3> QED BY <3>1 DEF TextFits, WellMade
  <2> QED BY <2>1, <2>2 DEF WellMade
<1>8. cliOut # <<>> /\ m[1] = cliOut[1]
  BY <1>1, <1>4
<1>9. Fits(OpenAt(Len(uiq)), m)
  BY <1>8 DEF TextFits, Fits
<1>10. (OpenAt(Len(uiq)))' = Open(m)
  BY <1>3 DEF OpenAt, Open
<1>11. cliOut' # <<>> => /\ cliOut'[1] = cliOut[i + 1] /\ Follows(cliOut[i], cliOut[i + 1])
                         /\ cliOut'[Len(cliOut')] = cliOut[Len(cliOut)]
  <2> SUFFICES ASSUME i < Len(cliOut)
               PROVE  /\ cliOut'[1] = cliOut[i + 1] /\ Follows(cliOut[i], cliOut[i + 1])
                      /\ cliOut'[Len(cliOut')] = cliOut[Len(cliOut)]
    BY <1>5
  <2>1. i \in 1 .. Len(cliOut) - 1 /\ 1 \in 1 .. Len(cliOut) - i
        /\ Len(cliOut') \in 1 .. Len(cliOut) - i /\ Len(cliOut') + i = Len(cliOut)
    BY <1>4, <1>5
  <2> QED BY <1>5, <2>1 DEF TextFits, WellMade
<1>12. m[Len(m)] = cliOut[i]
  BY <1>4
<1>13. cliOut' # <<>> => Fits(Open(m), cliOut')
  <2> SUFFICES ASSUME cliOut' # <<>>, Open(m)
               PROVE  cliOut'[1].k \in {"echo", "nl"}
    BY DEF Fits
  <2>1. cliOut[i].k = "echo" /\ Follows(cliOut[i], cliOut[i + 1]) /\ cliOut'[1] = cliOut[i + 1]
    BY <1>11, <1>12 DEF Open
  <2>2. i + 1 \in DOMAIN cliOut
    BY <1>1, <1>4, <1>5
  <2>3. cliOut[i + 1] \in RealText
    BY <1>1, <2>2
  <2>4. cliOut[i + 1].k \in Items
    BY <2>3 DEF RealText, Text
  <2> QED BY <2>1, <2>4 DEF Follows, Items
<1>14. (EndsOpen)' = EndsOpen
  <2>1. EndsOpen = (cliOut[Len(cliOut)].k = "echo")
    BY <1>8 DEF EndsOpen, Open
  <2>2. CASE cliOut' = <<>>
    <3>1. i = Len(cliOut)
      BY <1>4, <1>5, <2>2
    <3> QED BY <1>10, <1>12, <2>1, <2>2, <3>1 DEF EndsOpen, Open
  <2>3. CASE cliOut' # <<>>
    BY <1>11, <2>1, <2>3 DEF EndsOpen, Open
  <2> QED BY <2>2, <2>3
<1>15. \A open, t : Fits(open, t) => (Fits(open, t))'
  BY DEF Fits
<1>16. \A j \in DOMAIN uiq' : uiq'[j] # <<>> /\ WellMade(uiq'[j]) /\ (Fits(OpenAt(j - 1), uiq[j]))'
  <2>1. ASSUME NEW j \in DOMAIN uiq
        PROVE  uiq'[j] # <<>> /\ WellMade(uiq'[j]) /\ (Fits(OpenAt(j - 1), uiq[j]))'
    <3>1. j - 1 \in 0 .. Len(uiq) /\ uiq'[j] = uiq[j]
      BY <1>3
    <3>2. (OpenAt(j - 1))' = OpenAt(j - 1)
      BY <1>6, <3>1
    <3> QED BY <1>15, <3>1, <3>2 DEF TextFits
  <2>2. ASSUME NEW j \in DOMAIN uiq', j = Len(uiq) + 1
        PROVE  uiq'[j] # <<>> /\ WellMade(uiq'[j]) /\ (Fits(OpenAt(j - 1), uiq[j]))'
    <3>1. j - 1 = Len(uiq) /\ Len(uiq) \in 0 .. Len(uiq) /\ uiq'[j] = m
      BY <1>3, <2>2
    <3>2. (OpenAt(j - 1))' = OpenAt(Len(uiq))
      BY <1>6, <3>1
    <3> QED BY <1>4, <1>7, <1>9, <1>15, <3>1, <3>2
  <2> QED BY <1>3, <2>1, <2>2
<1>17. cliOut' # <<>> => (Fits(OpenAt(Len(uiq)), cliOut))'
  BY <1>10, <1>13, <1>15 DEF Fits
<1>18. (EndsOpen)' => halfTyped' \/ cliIn' # <<>>
  BY <1>14 DEF TextFits
<1>19. cli' = "inServer" => ~(EndsOpen)' /\ (cliOut' # <<>> => cliOut'[Len(cliOut')].k = "nl")
  BY <1>8, <1>11, <1>14 DEF TextFits
<1> QED BY <1>7, <1>16, <1>17, <1>18, <1>19 DEF TextFits
---------------------------------------------------------------------------
(* Delve: what holds while nothing is on its way                           *)

(* Who acts without haste has waited.                                      *)
LEMMA Waited ==
  ASSUME DlvTypes, NEW w, Acts(w), hasty' = 0
  PROVE  AllRead /\ w /\ ui = "free"
  BY DEF DlvTypes, CountTypes, Acts

LEMMA NoComing == Stream = {} => \A kinds : ~Coming(kinds)
  BY DEF Coming

LEMMA AtScreen ==
  ASSUME DlvTypes, Patient, AllRead
  PROVE  /\ Stream = {} /\ (confirming <=> cli = "asking")
         /\ lineBuf = "text" => halfTyped
         /\ Held = {} /\ job.pc \in {"none", "sent"}
         /\ target # "running" => ~AtServer /\ job.pc = "none" /\ cli # "inServer"
         /\ ~AtServer /\ ~lost => shown = stops /\ ~running
         /\ ~lost /\ target # "exited" => suppress = 0 /\ navs = 0
         /\ ui = "free" /\ list # bps => bpDeferred /\ cli = "asking"
<1>1. Stream = {} /\ Held = {} /\ job.pc \in {"none", "sent"} /\ cliIn = <<>>
  BY EmptyStream, HeldNone DEF AllRead
<1>2. \A kinds : ~Coming(kinds)
  BY <1>1, NoComing
<1>3. confirming <=> cli = "asking"
  BY <1>2 DEF Patient, QuestionSeen
<1>4. lineBuf = "text" => halfTyped
  BY DEF AllRead, Patient, TextFits, EndsOpen, OpenAt
<1>5. target # "running" => ~AtServer /\ job.pc = "none" /\ cli # "inServer"
  BY DEF AllRead, AtServer, Patient, OneResume
<1>6. ~AtServer /\ ~lost => shown = stops /\ ~running
  BY <1>1 DEF Patient, ShownOrComing
<1>7. ~lost /\ target # "exited" => suppress = 0 /\ navs = 0
  BY <1>1 DEF Patient, TokensSpent
<1>8. ui = "free" /\ list # bps => bpDeferred /\ cli = "asking"
  BY <1>1, <1>2 DEF AllRead, Patient, ListOwed
<1> QED BY <1>1, <1>3, <1>4, <1>5, <1>6, <1>7, <1>8

LEMMA TextFitsEmpty ==
  ASSUME uiq' = <<>>, cliOut' = <<>>, lineBuf' = "text" => halfTyped' \/ cliIn' # <<>>,
         cli' = "inServer" => lineBuf' # "text"
  PROVE  TextFits'
<1>1. Len(uiq') = 0 /\ DOMAIN uiq' = {} /\ Len(cliOut') = 0
  OBVIOUS
<1>2. (EndsOpen)' = (lineBuf' = "text")
  BY <1>1 DEF EndsOpen, OpenAt
<1>3. WellMade(cliOut')
  BY <1>1 DEF WellMade
<1> QED BY <1>1, <1>2, <1>3 DEF TextFits

(* Nothing changes but what the user has spent.                            *)
LEMMA PatientSame ==
  ASSUME Patient,
         UNCHANGED <<target, runner, waiting, stops, bps, job, cli, cliIn, cliOut, halfTyped, uiq,
                     lineBuf, ui, running, suppress, navs, confirming, bpDeferred, refresh,
                     afterStop, list, shown, lost, bound>>
  PROVE  Patient'
<1>1. Stream' = Stream /\ Held' = Held
  BY StreamSame, HeldSame
<1>2. TextFits'
  <2>1. EndsOpen => halfTyped' \/ cliIn' # <<>>
    BY DEF Patient, TextFits
  <2> QED BY <2>1, TextFitsSame DEF Patient
<1>3. AtServer' = AtServer /\ \A kinds : Coming(kinds)' <=> Coming(kinds)
  BY <1>1 DEF AtServer, Coming
<1>4. OneResume'
  BY <1>3 DEF Patient, OneResume
<1>5. LinesWait'
  BY <1>1, <1>3 DEF Patient, LinesWait
<1>6. TextSays'
  BY <1>1, <1>3 DEF Patient, TextSays
<1>7. ShownOrComing' /\ TokensSpent'
  BY <1>1, <1>3 DEF Patient, ShownOrComing, TokensSpent
<1>8. QuestionSeen' /\ ListOwed'
  BY <1>1, <1>3 DEF Patient, QuestionSeen, ListOwed
<1> QED BY <1>2, <1>4, <1>5, <1>6, <1>7, <1>8 DEF Patient

LEMMA TextSaysEmpty == ASSUME Stream' = {}, Held' = {} PROVE TextSays'
<1>1. \A kinds : ~Coming(kinds)'
  BY DEF Coming
<1>2. Range(cliOut') = {}
  BY StreamHasNext
<1> QED BY <1>1, <1>2 DEF TextSays

LEMMA InitPatient == ASSUME DlvInit PROVE Patient
<1>1. Stream = {} /\ Held = {}
  BY EmptyStream, HeldNone DEF DlvInit, NoJob
<1>2. \A kinds : ~Coming(kinds)
  BY <1>1, NoComing
<1>3. Len(uiq) = 0 /\ DOMAIN uiq = {} /\ Len(cliOut) = 0 /\ uiq = <<>> /\ cliOut = <<>>
  BY DEF DlvInit
<1>4. TextFits
  <2>1. ~EndsOpen
    BY <1>3 DEF EndsOpen, OpenAt, DlvInit
  <2>2. WellMade(cliOut)
    BY <1>3 DEF WellMade
  <2> QED BY <1>3, <2>1, <2>2 DEF TextFits
<1>5. OneResume
  BY DEF OneResume, DlvInit, NoJob, AtServer
<1>6. LinesWait
  BY DEF LinesWait, DlvInit
<1>7. TextSays
  BY <1>1, <1>2 DEF TextSays, DlvInit, NoJob
<1>8. ShownOrComing /\ TokensSpent
  BY DEF ShownOrComing, TokensSpent, DlvInit
<1>9. QuestionSeen /\ ListOwed
  BY DEF QuestionSeen, ListOwed, DlvInit
<1> QED BY <1>4, <1>5, <1>6, <1>7, <1>8, <1>9 DEF Patient
---------------------------------------------------------------------------
(* Delve: the user's acts keep the invariant                               *)

LEMMA ExecPatient ==
  ASSUME DlvTypes, Patient, NEW cmd \in Commands, Exec(cmd), hasty' = 0
  PROVE  Patient'
<1>1. AllRead /\ target # "running" /\ cli # "asking" /\ ui = "free"
  BY Waited DEF Exec, Resumes
<1>2. CASE resuming
  <2>1. UNCHANGED bound
    BY DEF Exec, Resumes, Acts
  <2> QED BY <1>2, <2>1, PatientSame DEF Exec, term, texts, gate, breaks
<1>3. CASE ~resuming
  <2>1. /\ waiting' = <<"job">> /\ job' = [pc |-> "sent", cmd |-> cmd, ans |-> <<>>]
        /\ UNCHANGED <<target, runner, stops, bps, cli, cliIn, halfTyped, cliOut, uiq,
                       lineBuf, confirming, ui, bpDeferred, refresh, afterStop, list, suppress, navs,
                       shown, lost, bound>>
    BY <1>1, <1>3 DEF Exec, Resumes, Acts, AllRead, term, texts, gate, breaks
  <2>2. job'.pc = "sent" /\ Held' = {}
    BY <2>1, HeldNone
  <2>3. /\ Stream = {} /\ Stream' = {} /\ ~confirming /\ cli = "prompt" /\ list = bps
        /\ cliIn = <<>> /\ uiq = <<>> /\ cliOut = <<>> /\ ~refresh /\ ~afterStop
        /\ ~lost /\ target # "exited" => suppress = 0 /\ navs = 0
    BY <1>1, <2>1, AtScreen, StreamSame DEF AllRead, DlvTypes, ClientTypes
  <2>4. \A kinds : ~Coming(kinds)'
    BY <2>3 DEF Coming
  <2>5. TextFits'
    BY <2>1, <2>3, AtScreen, <1>1, TextFitsEmpty
  <2>6. OneResume'
    BY <1>1, <2>1, <2>2, <2>3 DEF OneResume, AtServer
  <2>7. LinesWait' /\ TextSays'
    BY <1>1, <2>1, <2>2, <2>3, TextSaysEmpty DEF LinesWait
  <2>8. ShownOrComing' /\ TokensSpent'
    BY <2>1, <2>3 DEF ShownOrComing, TokensSpent, AtServer
  <2>9. QuestionSeen' /\ ListOwed'
    BY <2>1, <2>3 DEF QuestionSeen, ListOwed
  <2> QED BY <2>5, <2>6, <2>7, <2>8, <2>9 DEF Patient
<1> QED BY <1>2, <1>3

LEMMA TypeLinePatient ==
  ASSUME DlvTypes, Patient, NEW line \in {"continue", "recalled", "break", "up", "y", "n"},
         TypeLine(line), hasty' = 0
  PROVE  Patient'
<1>1. /\ AllRead /\ target # "running" /\ ui = "free"
      /\ line \in {"continue", "recalled"} => cli # "asking"
  BY Waited DEF TypeLine
<1>2. PICK l \in Lines : l = IF line = "recalled" THEN "continue" ELSE line
  BY DEF Lines
<1>3. /\ cliIn' = <<l>> /\ running' = (running \/ (line = "continue" /\ ~confirming))
      /\ navs' = IF line = "up" /\ ~confirming THEN navs + 1 ELSE navs
      /\ UNCHANGED <<target, runner, waiting, stops, bps, job, cli, cliOut, uiq,
                     lineBuf, confirming, ui, bpDeferred, refresh, afterStop, list, suppress,
                     shown, lost, bound>>
  BY <1>1, <1>2 DEF TypeLine, Acts, AllRead, server, client, texts, gate, breaks
<1>4. /\ Stream = {} /\ Held = {} /\ Stream' = {} /\ Held' = {} /\ job.pc = "none" /\ ~AtServer
      /\ (confirming <=> cli = "asking") /\ cli # "inServer"
      /\ cliIn = <<>> /\ uiq = <<>> /\ cliOut = <<>> /\ ~refresh /\ ~afterStop
  BY <1>1, <1>3, AtScreen, StreamSame, HeldSame DEF AllRead
<1>5. /\ ~lost => shown = stops /\ ~running
      /\ ~lost /\ target # "exited" => suppress = 0 /\ navs = 0
      /\ list # bps => bpDeferred /\ cli = "asking"
  BY <1>1, <1>4, AtScreen
<1>6. /\ cliIn' # <<>> /\ Head(cliIn') = l /\ AtServer' = AtServer /\ (l = "continue" => cli # "asking")
      /\ cli = "asking" \/ cli = "prompt"
  BY <1>1, <1>2, <1>3, <1>4 DEF AtServer, DlvTypes, ClientTypes
<1>7. TextFits'
  BY <1>3, <1>4, <1>6, TextFitsEmpty
<1>8. OneResume'
  BY <1>1, <1>3, <1>4, <1>6 DEF Patient, OneResume
<1>9. LinesWait' /\ TextSays'
  BY <1>1, <1>2, <1>3, <1>4, <1>6, TextSaysEmpty DEF LinesWait
<1>10. ShownOrComing' /\ QuestionSeen' /\ ListOwed'
  BY <1>1, <1>2, <1>3, <1>4, <1>5, <1>6 DEF ShownOrComing, QuestionSeen, ListOwed
<1>11. TokensSpent'
  BY <1>1, <1>2, <1>3, <1>4, <1>5, <1>6 DEF TokensSpent
<1> QED BY <1>7, <1>8, <1>9, <1>10, <1>11 DEF Patient

LEMMA TypeHalfPatient ==
  ASSUME DlvTypes, Patient, TypeHalf, hasty' = 0
  PROVE  Patient'
<1>1. AllRead /\ ui = "free"
  BY Waited DEF TypeHalf, User
<1>2. /\ cli = "prompt" /\ cliOut' = <<Item("echo")>> /\ halfTyped' = TRUE
      /\ UNCHANGED <<target, runner, waiting, stops, bps, job, cli, cliIn, uiq,
                     lineBuf, confirming, ui, bpDeferred, refresh, afterStop, list, suppress, navs,
                     running, shown, lost, bound>>
  BY <1>1 DEF TypeHalf, User, Acts, AllRead, server, client, gate, breaks, pane
<1>3. /\ Stream = {} /\ Held = {} /\ Held' = {} /\ ~confirming
      /\ cliIn = <<>> /\ uiq = <<>> /\ cliOut = <<>> /\ ~refresh /\ ~afterStop
  BY <1>1, <1>2, AtScreen, HeldSame DEF AllRead
<1>4. /\ ~AtServer /\ ~lost => shown = stops /\ ~running
      /\ ~lost /\ target # "exited" => suppress = 0 /\ navs = 0
      /\ list = bps
  BY <1>1, <1>2, AtScreen
<1>5. /\ Range(cliOut') = {Item("echo")} /\ Len(cliOut') = 1 /\ cliOut' # <<>>
      /\ cliOut'[1].k = "echo" /\ DOMAIN uiq' = {}
  BY <1>2, <1>3 DEF Range, Item
<1>6. \A x : x \in Stream' => x.k = "echo"
  <2>1. \A x : x \in Stream' => x = Item("echo")
    BY <1>5, StreamHasNext
  <2> QED BY <2>1 DEF Item
<1>7. \A kinds : "echo" \notin kinds => ~Coming(kinds)'
  BY <1>6 DEF Coming
<1>8. TextFits'
  <2>1. WellMade(cliOut') /\ (EndsOpen)'
    BY <1>5 DEF WellMade, EndsOpen, Open
  <2> QED BY <1>2, <1>5, <2>1 DEF TextFits, Fits
<1>9. OneResume'
  BY <1>1, <1>2 DEF Patient, OneResume, AtServer
<1>10. LinesWait'
  BY <1>1, <1>2, <1>3 DEF LinesWait
<1>11. TextSays'
  <2>1. \A x \in Range(cliOut') : x.k = "echo"
    BY <1>5 DEF Item
  <2> QED BY <1>3, <1>6, <1>7, <2>1 DEF TextSays, IsFrame
<1>12. ShownOrComing' /\ TokensSpent'
  BY <1>2, <1>3, <1>4 DEF ShownOrComing, TokensSpent, AtServer
<1>13. QuestionSeen' /\ ListOwed'
  BY <1>2, <1>3, <1>4 DEF QuestionSeen, ListOwed
<1> QED BY <1>8, <1>9, <1>10, <1>11, <1>12, <1>13 DEF Patient

(* A line typed or sent while the program rests.                           *)
LEMMA LinePatient ==
  ASSUME DlvTypes, Patient, AllRead, target # "running", ui = "free",
         NEW l \in {"repeat", "n"}, cliIn' = <<l>>,
         UNCHANGED <<target, runner, waiting, stops, bps, job, cli, cliOut, uiq, halfTyped,
                     lineBuf, confirming, ui, bpDeferred, refresh, afterStop, list, suppress, navs,
                     running, shown, lost, bound>>
  PROVE  Patient'
<1>1. /\ Stream = {} /\ Held = {} /\ Stream' = {} /\ Held' = {} /\ job.pc = "none" /\ ~AtServer
      /\ (confirming <=> cli = "asking") /\ cli # "inServer"
      /\ cliIn = <<>> /\ uiq = <<>> /\ cliOut = <<>> /\ ~refresh /\ ~afterStop
  BY AtScreen, StreamSame, HeldSame DEF AllRead
<1>2. /\ ~lost => shown = stops /\ ~running
      /\ ~lost /\ target # "exited" => suppress = 0 /\ navs = 0
      /\ list # bps => bpDeferred /\ cli = "asking"
  BY <1>1, AtScreen
<1>3. cliIn' # <<>> /\ Head(cliIn') = l /\ AtServer' = AtServer /\ l # "continue"
  BY <1>1 DEF AtServer
<1>4. TextFits'
  BY <1>1, <1>3, TextFitsEmpty
<1>5. OneResume'
  BY <1>1, <1>3 DEF Patient, OneResume
<1>6. LinesWait' /\ TextSays'
  <2>1. l \in Lines /\ <<l>> # <<"continue">>
    BY <1>3 DEF Lines
  <2> QED BY <1>1, <1>3, <2>1, TextSaysEmpty DEF LinesWait
<1>7. ShownOrComing' /\ QuestionSeen' /\ ListOwed'
  BY <1>1, <1>2, <1>3 DEF ShownOrComing, QuestionSeen, ListOwed
<1>8. TokensSpent'
  BY <1>1, <1>2 DEF TokensSpent
<1> QED BY <1>4, <1>5, <1>6, <1>7, <1>8 DEF Patient

LEMMA EnterPatient ==
  ASSUME DlvTypes, Patient, Enter, hasty' = 0
  PROVE  Patient'
<1>1. AllRead /\ ui = "free"
  BY Waited DEF Enter, User
<1>2. UNCHANGED <<target, runner, waiting, stops, bps, job, cli, cliOut, uiq, halfTyped,
                  lineBuf, confirming, ui, bpDeferred, refresh, afterStop, list, suppress, navs,
                  running, shown, lost, bound>>
  BY DEF Enter, User, Acts, server, client, texts, gate, breaks, pane
<1>3. CASE SaysRunning
  BY <1>2, <1>3, PatientSame DEF Enter
<1>4. CASE ~SaysRunning
  <2>1. cliIn' = <<"repeat">> /\ target # "running"
    BY <1>1, <1>4 DEF Enter, AllRead, SaysRunning
  <2> QED BY <1>1, <1>2, <2>1, LinePatient
<1> QED BY <1>3, <1>4

LEMMA CtrlCPatient ==
  ASSUME DlvTypes, Patient, CtrlC, hasty' = 0
  PROVE  Patient'
<1>1. AllRead /\ ui = "free"
  BY Waited DEF CtrlC, User
<1>2. /\ UNCHANGED <<target, runner, waiting, stops, bps, job, cli, cliOut, uiq, halfTyped,
                     lineBuf, confirming, ui, bpDeferred, refresh, afterStop, list, suppress, navs,
                     shown, lost, bound>>
      /\ running' = (running \/ target = "running")
  BY DEF CtrlC, User, Acts, server, client, texts, gate, breaks, SaysRunning
<1>3. CASE confirming
  <2>1. target # "running"
    BY <1>3 DEF Patient, OneResume, AtServer
  <2>2. cliIn' = <<"n">> /\ running' = running
    BY <1>1, <1>2, <1>3, <2>1 DEF CtrlC, AllRead, DlvTypes, FlagTypes
  <2> QED BY <1>1, <1>2, <2>1, <2>2, LinePatient
<1>4. CASE ~confirming /\ target # "running"
  <2>1. cliIn' = cliIn /\ running' = running
    BY <1>2, <1>4 DEF CtrlC, DlvTypes, FlagTypes
  <2> QED BY <1>2, <2>1, PatientSame
<1>5. CASE ~confirming /\ target = "running"
  <2>1. cliIn' = cliIn
    BY <1>5 DEF CtrlC
  <2>2. Stream' = Stream /\ Held' = Held
        /\ AtServer' = AtServer /\ AtServer
    BY <1>2, <1>5, StreamSame, HeldSame DEF AtServer
  <2>3. \A kinds : Coming(kinds)' <=> Coming(kinds)
    BY <2>2 DEF Coming
  <2>4. TextFits'
    <3>1. EndsOpen => halfTyped' \/ cliIn' # <<>>
      BY <1>2, <2>1 DEF Patient, TextFits
    <3> QED BY <1>2, <3>1, TextFitsSame DEF Patient
  <2>5. OneResume'
    BY <1>2, <2>1, <2>2 DEF Patient, OneResume
  <2>6. LinesWait'
    BY <1>2, <2>1, <2>2, <2>3 DEF Patient, LinesWait
  <2>7. TextSays'
    BY <1>2, <2>1, <2>2, <2>3 DEF Patient, TextSays
  <2>8. ShownOrComing' /\ TokensSpent'
    BY <1>2, <2>1, <2>2 DEF Patient, ShownOrComing, TokensSpent
  <2>9. QuestionSeen' /\ ListOwed'
    BY <1>2, <2>1, <2>2, <2>3 DEF Patient, QuestionSeen, ListOwed
  <2> QED BY <2>4, <2>5, <2>6, <2>7, <2>8, <2>9 DEF Patient
<1> QED BY <1>3, <1>4, <1>5
---------------------------------------------------------------------------
(* Delve: breakpoints, refreshes and the coalescer keep the invariant      *)

LEMMA TogglePatient ==
  ASSUME DlvTypes, Patient, Toggle, hasty' = 0
  PROVE  Patient'
<1>1. AllRead /\ target # "running" /\ ui = "free"
  BY Waited DEF Toggle, AtRest
<1>2. /\ list' = ~list /\ ui' = (IF list THEN "clear" ELSE "insert")
      /\ UNCHANGED <<target, runner, waiting, stops, bps, job, cli, cliIn, cliOut, uiq, halfTyped,
                     lineBuf, confirming, bpDeferred, refresh, afterStop, suppress, navs,
                     running, shown, lost, bound>>
  BY DEF Toggle, AtRest, Acts, server, client, term, texts, gate, pane
<1>3. /\ Stream = {} /\ Held = {} /\ Stream' = {} /\ Held' = {} /\ job.pc = "none" /\ ~AtServer
      /\ (confirming <=> cli = "asking") /\ cli # "inServer"
      /\ cliIn = <<>> /\ uiq = <<>> /\ cliOut = <<>> /\ ~refresh /\ ~afterStop
      /\ lineBuf = "text" => halfTyped
  BY <1>1, <1>2, AtScreen, StreamSame, HeldSame DEF AllRead
<1>4. /\ ~lost => shown = stops /\ ~running
      /\ ~lost /\ target # "exited" => suppress = 0 /\ navs = 0
  BY <1>1, <1>3, AtScreen
<1>5. AtServer' = AtServer /\ ui' # "free" /\ (list' = (ui' = "insert")) /\ list \in BOOLEAN
  BY <1>2 DEF AtServer, DlvTypes, FlagTypes
<1>6. TextFits'
  BY <1>2, <1>3, TextFitsEmpty
<1>7. OneResume'
  BY <1>2, <1>3, <1>5 DEF Patient, OneResume
<1>8. LinesWait' /\ TextSays'
  BY <1>2, <1>3, <1>5, TextSaysEmpty DEF LinesWait
<1>9. ShownOrComing' /\ TokensSpent'
  BY <1>2, <1>3, <1>4 DEF ShownOrComing, TokensSpent
<1>10. QuestionSeen' /\ ListOwed'
  BY <1>2, <1>3, <1>5 DEF QuestionSeen, ListOwed
<1> QED BY <1>6, <1>7, <1>8, <1>9, <1>10 DEF Patient

LEMMA ServeBreakPatient ==
  ASSUME DlvTypes, Patient, ServeBreak
  PROVE  Patient'
<1>1. /\ ui # "free" /\ target # "running" /\ ui' = "free" /\ bpDeferred'
      /\ UNCHANGED <<target, runner, waiting, stops, job, cli, cliOut, uiq, halfTyped,
                     lineBuf, confirming, refresh, afterStop, list, navs,
                     running, shown, lost, bound>>
  BY DEF ServeBreak, client, texts, gate, rest
<1>2. /\ uiq = <<>> /\ cliOut = <<>> /\ ~AtServer /\ ~refresh /\ ~afterStop /\ cliIn = <<>>
      /\ list = (ui = "insert") /\ job.pc = "none"
  BY <1>1 DEF Patient, LinesWait, OneResume
<1>3. /\ Stream = {} /\ Held = {} /\ Stream' = {} /\ Held' = {} /\ AtServer' = AtServer
      /\ cli # "inServer"
  BY <1>1, <1>2, EmptyStream, HeldNone, HeldSame DEF AtServer, Patient, OneResume
<1>4. \A kinds : ~Coming(kinds)
  BY <1>3, NoComing
<1>5. /\ (confirming <=> cli = "asking") /\ (lineBuf = "text" => halfTyped)
      /\ ~lost => shown = stops /\ ~running
      /\ ~lost /\ target # "exited" => suppress = 0 /\ navs = 0
  <2>1. confirming <=> cli = "asking"
    BY <1>4 DEF Patient, QuestionSeen
  <2>2. lineBuf = "text" => halfTyped
    BY <1>2 DEF Patient, TextFits, EndsOpen, OpenAt
  <2>3. ~lost => shown = stops /\ ~running
    BY <1>2, <1>3 DEF Patient, ShownOrComing
  <2>4. ~lost /\ target # "exited" => suppress = 0 /\ navs = 0
    BY <1>2, <1>3 DEF Patient, TokensSpent
  <2> QED BY <2>1, <2>2, <2>3, <2>4
<1>6. \/ cliIn' = <<>> /\ bps' = list /\ suppress' = suppress
      \/ cliIn' = <<"clear">> /\ bps' = bps /\ suppress' = suppress
      \/ cliIn' = <<"break">> /\ bps' = bps /\ suppress' = suppress
      \/ cliIn' = <<"break", "continue">> /\ ~bound /\ lost /\ bps' = bps
  <2> DEFINE ok == IF ui = "insert" THEN bound ELSE bps
  <2>1. /\ bps' = IF ok THEN ui = "insert" ELSE bps
        /\ cliIn' = IF ok THEN cliIn
                    ELSE IF ui = "clear" THEN Append(cliIn, "clear")
                    ELSE cliIn \o (IF running THEN <<"break", "continue">> ELSE <<"break">>)
        /\ suppress' = IF ~ok /\ ui = "insert" /\ running THEN suppress + 1 ELSE suppress
    BY DEF ServeBreak
  <2>2. Append(cliIn, "clear") = <<"clear">> /\ cliIn \o <<"break">> = <<"break">>
        /\ cliIn \o <<"break", "continue">> = <<"break", "continue">>
    BY <1>2
  <2>3. ui = "clear" <=> ui # "insert"
    BY <1>1 DEF DlvTypes, FlagTypes
  <2>4. CASE ok
    BY <1>2, <2>1, <2>4
  <2>5. CASE ~ok /\ ui = "clear"
    BY <2>1, <2>2, <2>3, <2>5
  <2>6. CASE ~ok /\ ui # "clear" /\ running
    <3>1. ~bound /\ lost
      BY <1>5, <2>3, <2>6
    <3> QED BY <2>1, <2>2, <2>6, <3>1
  <2>7. CASE ~ok /\ ui # "clear" /\ ~running
    BY <2>1, <2>2, <2>7
  <2> QED BY <2>4, <2>5, <2>6, <2>7
<1>7. /\ cliIn' = <<>> \/ Head(cliIn') \in {"break", "clear"}
      /\ cliIn' # <<>> => cliIn' # <<"continue">>
      /\ cliIn' = <<>> \/ (cliIn' = <<"break", "continue">> /\ ~bound /\ lost) \/ \E l \in Lines : cliIn' = <<l>>
      /\ cliIn' = <<>> => bps' = list
      /\ lost \/ suppress' = suppress
  <2>1. CASE cliIn' = <<>> /\ bps' = list /\ suppress' = suppress
    BY <2>1
  <2>2. CASE cliIn' = <<"clear">> /\ bps' = bps /\ suppress' = suppress
    <3>1. "clear" \in Lines /\ Head(<<"clear">>) = "clear" /\ <<"clear">> # <<>> /\ <<"clear">> # <<"continue">>
      BY DEF Lines
    <3> QED BY <2>2, <3>1
  <2>3. CASE cliIn' = <<"break">> /\ bps' = bps /\ suppress' = suppress
    <3>1. "break" \in Lines /\ Head(<<"break">>) = "break" /\ <<"break">> # <<>> /\ <<"break">> # <<"continue">>
      BY DEF Lines
    <3> QED BY <2>3, <3>1
  <2>4. CASE cliIn' = <<"break", "continue">> /\ ~bound /\ lost /\ bps' = bps
    <3>1. /\ Head(<<"break", "continue">>) = "break" /\ <<"break", "continue">> # <<>>
          /\ <<"break", "continue">> # <<"continue">>
      OBVIOUS
    <3> QED BY <2>4, <3>1
  <2> QED BY <1>6, <2>1, <2>2, <2>3, <2>4
<1>8. TextFits'
  BY <1>1, <1>2, <1>3, <1>5, TextFitsEmpty
<1>9. OneResume'
  BY <1>1, <1>2, <1>3 DEF Patient, OneResume
<1>10. LinesWait' /\ TextSays'
  BY <1>1, <1>2, <1>3, <1>7, TextSaysEmpty DEF LinesWait
<1>11. ShownOrComing' /\ TokensSpent'
  BY <1>1, <1>2, <1>5, <1>7 DEF ShownOrComing, TokensSpent
<1>12. QuestionSeen' /\ ListOwed'
  BY <1>1, <1>5, <1>7 DEF QuestionSeen, ListOwed
<1> QED BY <1>8, <1>9, <1>10, <1>11, <1>12 DEF Patient

(* Both refreshes read the list of a program at rest.                      *)
LEMMA RefreshPatient ==
  ASSUME DlvTypes, Patient, refresh \/ afterStop, refresh' => refresh, afterStop' => afterStop,
         list' = IF target = "running" THEN list ELSE bps,
         UNCHANGED <<target, runner, waiting, stops, bps, job, cli, cliIn, cliOut, uiq, halfTyped,
                     lineBuf, confirming, ui, bpDeferred, suppress, navs,
                     running, shown, lost, bound>>
  PROVE  Patient'
<1>1. Stream' = Stream /\ Held' = Held /\ AtServer' = AtServer
  BY StreamSame, HeldSame DEF AtServer
<1>2. \A kinds : Coming(kinds)' <=> Coming(kinds)
  BY <1>1 DEF Coming
<1>3. ui = "free" /\ list' = bps'
  BY DEF Patient, LinesWait, OneResume, AtServer
<1>4. TextFits'
  <2>1. EndsOpen => halfTyped' \/ cliIn' # <<>>
    BY DEF Patient, TextFits
  <2> QED BY <2>1, TextFitsSame DEF Patient
<1>5. OneResume'
  BY <1>1, <1>3 DEF Patient, OneResume
<1>6. LinesWait'
  BY <1>1, <1>2, <1>3 DEF Patient, LinesWait
<1>7. TextSays'
  BY <1>1, <1>2 DEF Patient, TextSays
<1>8. ShownOrComing' /\ TokensSpent'
  BY <1>1 DEF Patient, ShownOrComing, TokensSpent
<1>9. QuestionSeen' /\ ListOwed'
  BY <1>2, <1>3 DEF Patient, QuestionSeen, ListOwed
<1> QED BY <1>4, <1>5, <1>6, <1>7, <1>8, <1>9 DEF Patient

LEMMA RefreshesPatient ==
  ASSUME DlvTypes, Patient, RunRefresh \/ RefreshAfterStop
  PROVE  Patient'
<1>1. CASE RunRefresh
  BY <1>1, RefreshPatient DEF RunRefresh, server, client, term, texts, gate, pane, rest
<1>2. CASE RefreshAfterStop
  BY <1>2, RefreshPatient DEF RefreshAfterStop, server, client, term, texts, gate, pane, rest
<1> QED BY <1>1, <1>2

LEMMA FlushPatient ==
  ASSUME DlvTypes, Patient, Flush
  PROVE  Patient'
<1>1. PICK i \in 1 .. Len(cliOut) : /\ uiq' = Append(uiq, SubSeq(cliOut, 1, i))
                                    /\ cliOut' = SubSeq(cliOut, i + 1, Len(cliOut))
  BY DEF Flush
<1>2. /\ cliOut # <<>>
      /\ UNCHANGED <<target, runner, waiting, stops, bps, job, cli, cliIn, halfTyped,
                     lineBuf, confirming, ui, bpDeferred, refresh, afterStop, list, suppress, navs,
                     running, shown, lost, bound>>
  BY DEF Flush, server, client, term, gate, breaks, pane, rest
<1>3. Stream' = Stream /\ Held' = Held /\ AtServer' = AtServer
  BY <1>1, <1>2, StreamFlush, HeldSame DEF AtServer
<1>4. \A kinds : Coming(kinds)' <=> Coming(kinds)
  BY <1>3 DEF Coming
<1>5. Range(cliOut') \subseteq Range(cliOut)
  <2>1. cliOut \in Seq(RealText)
    BY DEF DlvTypes, TextTypes
  <2>2. SubSeq(cliOut, 1, i) \in Seq(RealText) /\ cliOut' \in Seq(RealText)
        /\ cliOut = SubSeq(cliOut, 1, i) \o cliOut'
    BY <1>1, <2>1
  <2>3. Range(cliOut) = Range(SubSeq(cliOut, 1, i)) \cup Range(cliOut')
    BY <2>2, RangeOfParts
  <2> QED BY <2>3
<1>6. TextFits'
  BY <1>1, <1>2, TextFitsFlush DEF Patient
<1>7. OneResume'
  BY <1>2, <1>3 DEF Patient, OneResume
<1>8. LinesWait'
  BY <1>2, <1>3 DEF Patient, LinesWait
<1>9. TextSays'
  BY <1>2, <1>3, <1>4, <1>5 DEF Patient, TextSays
<1>10. ShownOrComing' /\ TokensSpent'
  BY <1>2, <1>3 DEF Patient, ShownOrComing, TokensSpent
<1>11. QuestionSeen' /\ ListOwed'
  BY <1>2, <1>3, <1>4 DEF Patient, QuestionSeen, ListOwed
<1> QED BY <1>6, <1>7, <1>8, <1>9, <1>10, <1>11 DEF Patient
---------------------------------------------------------------------------
(* Delve: the server and the key's goroutine keep the invariant            *)

(* A whole line and what follows it is posted by the goroutine, behind     *)
(* which the coalescer's text goes on.                                     *)
LEMMA TextFitsPost ==
  ASSUME DlvTypes, TextFits, NEW m \in Seq(RealText), m # <<>>, WellMade(m), uiq' = Append(uiq, m),
         Fits(OpenAt(Len(uiq)), m), m[Len(m)].k # "echo", cli # "inServer",
         UNCHANGED <<cliOut, lineBuf, halfTyped, cliIn, cli>>
  PROVE  TextFits'
<1>1. uiq \in Seq(Seq(RealText)) /\ cliOut \in Seq(RealText)
  BY DEF DlvTypes, TextTypes
<1>2. /\ Len(uiq') = Len(uiq) + 1 /\ uiq'[Len(uiq) + 1] = m
      /\ \A j \in DOMAIN uiq : uiq'[j] = uiq[j]
      /\ DOMAIN uiq = 1 .. Len(uiq) /\ DOMAIN uiq' = 1 .. Len(uiq) + 1 /\ Len(uiq) \in Nat
  BY <1>1
<1>3. \A j \in 0 .. Len(uiq) : (OpenAt(j))' = OpenAt(j)
  BY <1>2 DEF OpenAt, Open
<1>4. (OpenAt(Len(uiq)))' = FALSE
  BY <1>2 DEF OpenAt, Open
<1>5. \A open, t : Fits(open, t) => (Fits(open, t))'
  BY DEF Fits
<1>6. \A j \in DOMAIN uiq' : uiq'[j] # <<>> /\ WellMade(uiq'[j]) /\ (Fits(OpenAt(j - 1), uiq[j]))'
  <2>1. ASSUME NEW j \in DOMAIN uiq
        PROVE  uiq'[j] # <<>> /\ WellMade(uiq'[j]) /\ (Fits(OpenAt(j - 1), uiq[j]))'
    <3>1. j - 1 \in 0 .. Len(uiq) /\ uiq'[j] = uiq[j]
      BY <1>2
    <3>2. (OpenAt(j - 1))' = OpenAt(j - 1)
      BY <1>3, <3>1
    <3> QED BY <1>5, <3>1, <3>2 DEF TextFits
  <2>2. ASSUME NEW j \in DOMAIN uiq', j = Len(uiq) + 1
        PROVE  uiq'[j] # <<>> /\ WellMade(uiq'[j]) /\ (Fits(OpenAt(j - 1), uiq[j]))'
    <3>1. j - 1 = Len(uiq) /\ Len(uiq) \in 0 .. Len(uiq) /\ uiq'[j] = m
      BY <1>2, <2>2
    <3>2. (OpenAt(j - 1))' = OpenAt(Len(uiq))
      BY <1>3, <3>1
    <3> QED BY <1>5, <3>1, <3>2
  <2> QED BY <1>2, <2>1, <2>2
<1>7. cliOut' # <<>> => (Fits(OpenAt(Len(uiq)), cliOut))'
  BY <1>4 DEF Fits
<1>8. (EndsOpen)' => EndsOpen
  BY <1>4 DEF EndsOpen
<1> QED BY <1>6, <1>7, <1>8 DEF TextFits

LEMMA NoteStopPatient ==
  ASSUME DlvTypes, Patient, NoteStop
  PROVE  Patient'
<1>1. /\ job.pc = "answered" /\ job'.pc = "posted"
      /\ UNCHANGED <<target, runner, waiting, stops, bps, cli, cliIn, cliOut, halfTyped,
                     lineBuf, confirming, ui, bpDeferred, refresh, afterStop, list, suppress, navs,
                     running, shown, lost, bound>>
  <2>1. job' = [job EXCEPT !.pc = "posted"] /\ job \in RPCJobs
    BY DEF NoteStop, DlvTypes, ClientTypes
  <2>2. job'.pc = "posted"
    BY <2>1 DEF RPCJobs
  <2> QED BY <2>2 DEF NoteStop, server, term, gate, breaks, pane, rest
<1>2. Held = Range(job.ans) /\ Held' = {}
  BY <1>1, HeldNone DEF Held
<1>3. /\ cliIn = <<>> /\ cli = "prompt" /\ ui = "free" /\ ~confirming /\ ~AtServer /\ AtServer' = AtServer
      /\ job.ans = <<>> \/ \E x \in RealText : job.ans = <<x>> /\ x.k \in {"stop", "exit", "failed"}
  <2>1. /\ cliIn = <<>> /\ cli = "prompt" /\ ui = "free" /\ ~confirming
        /\ job.ans = <<>> \/ \E x \in RealText : job.ans = <<x>> /\ x.k \in {"stop", "exit", "failed"}
    BY <1>1 DEF Patient, OneResume
  <2>2. ~AtServer /\ AtServer' = AtServer
    BY <1>1, <2>1 DEF Patient, OneResume, AtServer, DlvTypes, ServerTypes
  <2> QED BY <2>1, <2>2
<1>4. CASE job.ans = <<>>
  <2>1. uiq' = uiq /\ Stream' = Stream /\ Held = {}
    BY <1>1, <1>2, <1>4, StreamSame, EmptyRange DEF NoteStop
  <2>2. \A kinds : Coming(kinds)' <=> Coming(kinds)
    BY <2>1 DEF Coming
  <2>3. TextFits'
    <3>1. EndsOpen => halfTyped' \/ cliIn' # <<>>
      BY <1>1 DEF Patient, TextFits
    <3> QED BY <1>1, <2>1, <3>1, TextFitsSame DEF Patient
  <2>4. OneResume'
    BY <1>1, <1>3 DEF Patient, OneResume, AtServer
  <2>5. LinesWait'
    BY <1>1, <1>3 DEF Patient, LinesWait
  <2>6. TextSays'
    BY <1>1, <1>2, <1>3, <2>1, <2>2 DEF Patient, TextSays
  <2>7. ShownOrComing' /\ TokensSpent'
    BY <1>1, <1>2, <1>3, <2>1 DEF Patient, ShownOrComing, TokensSpent
  <2>8. QuestionSeen' /\ ListOwed'
    BY <1>1, <1>3, <2>1, <2>2 DEF Patient, QuestionSeen, ListOwed
  <2> QED BY <2>3, <2>4, <2>5, <2>6, <2>7, <2>8 DEF Patient
<1>5. CASE \E x \in RealText : job.ans = <<x>> /\ x.k \in {"stop", "exit", "failed"}
  <2>1. PICK x \in RealText : job.ans = <<x>> /\ x.k \in {"stop", "exit", "failed"}
    BY <1>5
  <2>2. PICK line \in RealText : line = Item("line")
    BY ItemsAreReal DEF Items
  <2>3. PICK m : m = Append(<<x>>, line)
    OBVIOUS
  <2>4. uiq' = Append(uiq, m) /\ line.k = "line"
    <3>1. job.ans # <<>>
      BY <2>1
    <3> QED BY <2>1, <2>2, <2>3, <3>1 DEF NoteStop, Item
  <2>5. /\ m \in Seq(RealText) /\ m # <<>> /\ Range(m) = {x, line} /\ m[Len(m)].k = "line"
        /\ m[1] = x /\ Len(m) = 2 /\ m[2] = line
    <3>1. m \in Seq(RealText) /\ m # <<>> /\ Len(m) = 2 /\ m[1] = x /\ m[2] = line
      <4>1. <<x>> \in Seq(RealText) /\ Len(<<x>>) = 1 /\ <<x>>[1] = x
        BY <2>1
      <4>2. m \in Seq(RealText) /\ Len(m) = 2 /\ m[1] = x /\ m[2] = line
        BY <2>2, <2>3, <4>1
      <4> QED BY <4>2, EmptySeq
    <3>2. DOMAIN m = {1, 2}
      BY <3>1
    <3>3. Range(m) = {x, line}
      BY <3>1, <3>2 DEF Range
    <3> QED BY <2>4, <3>1, <3>3
  <2>6. WellMade(m)
    BY <2>1, <2>4, <2>5 DEF WellMade, Follows
  <2>7. /\ \A y \in Range(cliOut) : y.k = "echo"
        /\ ~Coming({"nl", "ask", "prompt", "bpset"})
    BY <1>1 DEF Patient, TextSays
  <2>8. Fits(OpenAt(Len(uiq)), m)
    <3> SUFFICES ASSUME OpenAt(Len(uiq)) PROVE halfTyped
      BY <2>1, <2>5 DEF Fits
    <3>1. EndsOpen
      <4>1. CASE cliOut = <<>>
        BY <4>1 DEF EndsOpen
      <4>2. CASE cliOut # <<>>
        <5>1. Len(cliOut) \in DOMAIN cliOut
          BY <4>2 DEF DlvTypes, TextTypes
        <5>2. cliOut[Len(cliOut)] \in Range(cliOut)
          BY <5>1, InRange
        <5> QED BY <2>7, <4>2, <5>2 DEF EndsOpen, Open
      <4> QED BY <4>1, <4>2
    <3> QED BY <1>3, <3>1 DEF Patient, TextFits
  <2>9. TextFits'
    BY <1>1, <1>3, <2>4, <2>5, <2>6, <2>8, TextFitsPost DEF Patient
  <2>10. /\ Stream' = Stream \cup {x, line} /\ Held = {x}
         /\ Stream' \cup Held' = (Stream \cup Held) \cup {line}
    <3>1. Stream' = Stream \cup {x, line}
      BY <1>1, <2>4, <2>5, StreamPost
    <3>2. Range(<<x>>) = {x}
      BY DEF Range
    <3> QED BY <1>2, <2>1, <3>1, <3>2
  <2>11. \A kinds : /\ Coming(kinds) => Coming(kinds)'
                    /\ Coming(kinds)' => Coming(kinds) \/ x.k \in kinds \/ "line" \in kinds
    BY <2>4, <2>10 DEF Coming
  <2>12. OneResume'
    BY <1>1, <1>3 DEF Patient, OneResume, AtServer
  <2>13. LinesWait'
    BY <1>1, <1>3 DEF Patient, LinesWait
  <2>14. TextSays'
    <3>1. /\ \A y \in Stream' \cup Held' :
               /\ y.k = "stop" /\ y.n # Frame => y.n = stops /\ y.n # 0 /\ target = "stopped"
               /\ y.k = "exit" => y.n = stops /\ y.n # 0 /\ target = "exited"
               /\ ~IsFrame(y)
      BY <1>1, <2>4, <2>10 DEF Patient, TextSays, IsFrame
    <3>2. ~Coming({"ask"})' /\ ~Coming({"nl", "ask", "prompt", "bpset"})'
      <4>1. Coming({"ask"}) => Coming({"nl", "ask", "prompt", "bpset"})
        BY DEF Coming
      <4>2. /\ x.k \notin {"ask"} /\ "line" \notin {"ask"}
            /\ x.k \notin {"nl", "ask", "prompt", "bpset"} /\ "line" \notin {"nl", "ask", "prompt", "bpset"}
        BY <2>1
      <4> QED BY <2>7, <2>11, <4>1, <4>2
    <3> QED BY <1>1, <1>3, <2>7, <3>1, <3>2 DEF TextSays
  <2>15. ShownOrComing' /\ TokensSpent'
    BY <1>1, <1>3, <2>10 DEF Patient, ShownOrComing, TokensSpent
  <2>16. QuestionSeen'
    BY <1>1, <1>3 DEF Patient, QuestionSeen
  <2>17. ListOwed'
    <3>1. ~Coming({"bpset"}) /\ ~Coming({"prompt"})
      BY <2>7 DEF Coming
    <3> QED BY <1>1, <1>3, <3>1 DEF Patient, ListOwed
  <2> QED BY <2>9, <2>12, <2>13, <2>14, <2>15, <2>16, <2>17 DEF Patient
<1> QED BY <1>3, <1>4, <1>5

LEMMA DonePatient ==
  ASSUME DlvTypes, Patient, Done
  PROVE  Patient'
<1>1. /\ job.pc = "posted" /\ job'.pc = "none"
      /\ UNCHANGED <<target, runner, waiting, stops, bps, cli, cliIn, cliOut, halfTyped, uiq,
                     lineBuf, confirming, ui, bpDeferred, refresh, afterStop, list, suppress, navs,
                     running, shown, lost, bound>>
  BY DEF Done, NoJob, server, term, texts, gate, breaks, pane, rest
<1>2. Stream' = Stream /\ Held = {} /\ Held' = {} /\ AtServer' = AtServer
  BY <1>1, StreamSame, HeldNone DEF AtServer
<1>3. \A kinds : Coming(kinds)' <=> Coming(kinds)
  BY <1>2 DEF Coming
<1>4. TextFits'
  <2>1. EndsOpen => halfTyped' \/ cliIn' # <<>>
    BY <1>1 DEF Patient, TextFits
  <2> QED BY <1>1, <2>1, TextFitsSame DEF Patient
<1>5. OneResume'
  BY <1>1, <1>2 DEF Patient, OneResume
<1>6. LinesWait'
  BY <1>1, <1>2, <1>3 DEF Patient, LinesWait
<1>7. TextSays'
  BY <1>1, <1>2, <1>3 DEF Patient, TextSays
<1>8. ShownOrComing' /\ TokensSpent'
  BY <1>1, <1>2 DEF Patient, ShownOrComing, TokensSpent
<1>9. QuestionSeen' /\ ListOwed'
  BY <1>1, <1>2, <1>3 DEF Patient, QuestionSeen, ListOwed
<1> QED BY <1>4, <1>5, <1>6, <1>7, <1>8, <1>9 DEF Patient
---------------------------------------------------------------------------
(* Delve: the end of a resume keeps the invariant                          *)

(* What the command line prints when its resume ends.                      *)
LEMMA CliAnswerText ==
  ASSUME DlvTypes, TextFits, cli = "inServer", cli' = "prompt", UNCHANGED <<uiq, lineBuf, halfTyped>>,
         NEW items, items = <<>> \/ \E x \in RealText : items = <<x>> /\ x.k \in {"stop", "exit", "failed"},
         cliOut' = cliOut \o items \o <<Item("prompt")>>
  PROVE  TextFits' /\ Stream' = Stream \cup Range(items) \cup {Item("prompt")}
<1>1. PICK p \in RealText : p = Item("prompt") /\ p.k = "prompt"
  BY ItemsAreReal DEF Items, Item
<1>2. items \in Seq(RealText) /\ cliOut \in Seq(RealText)
  <2>1. \A x \in RealText : <<x>> \in Seq(RealText)
    OBVIOUS
  <2>2. <<>> \in Seq(RealText)
    OBVIOUS
  <2> QED BY <2>1, <2>2 DEF DlvTypes, TextTypes
<1>3. PICK q \in Seq(RealText) : q = <<p>>
  <2>1. \A x \in RealText : <<x>> \in Seq(RealText)
    OBVIOUS
  <2>2. <<p>> \in Seq(RealText)
    BY <2>1
  <2> QED BY <2>2
<1>4. Len(q) = 1 /\ q[1] = p /\ Range(q) = {p}
  <2>1. Range(<<p>>) = {p}
    BY DEF Range
  <2> QED BY <1>3, <2>1
<1>5. PICK m : m = items \o q
  OBVIOUS
<1>6. m \in Seq(RealText) /\ cliOut' = cliOut \o m
  <2>1. cliOut' = cliOut \o items \o q
    <3>1. q = <<Item("prompt")>>
      BY <1>1, <1>3, Zenon
    <3> QED BY <3>1, Zenon
  <2>2. (cliOut \o items) \o q = cliOut \o (items \o q)
    BY <1>2, <1>3, RealConcat, Zenon
  <2>3. m \in Seq(RealText)
    BY <1>2, <1>3, <1>5
  <2> QED BY <1>5, <2>1, <2>2, <2>3, Zenon
<1>7. Range(m) = Range(items) \cup {p}
  BY <1>2, <1>4, <1>5, RangeOfParts
<1>8. /\ m # <<>> /\ m[Len(m)].k = "prompt" /\ WellMade(m) /\ m[1].k \in {"stop", "exit", "failed", "prompt"}
  <2>1. CASE items = <<>>
    <3>1. m = q
      BY <1>3, <1>5, <2>1
    <3>2. m # <<>> /\ Len(m) = 1 /\ m[1] = p
      BY <1>3, <1>4, <3>1
    <3> QED BY <1>1, <3>2 DEF WellMade
  <2>2. CASE \E x \in RealText : items = <<x>> /\ x.k \in {"stop", "exit", "failed"}
    <3>1. PICK x \in RealText : items = <<x>> /\ x.k \in {"stop", "exit", "failed"}
      BY <2>2
    <3>2. Len(items) = 1 /\ items[1] = x
      BY <3>1
    <3>3. Len(m) = 2 /\ m[1] = x /\ m[2] = p
      <4>1. /\ Len(m) = Len(items) + Len(q)
            /\ \A i \in 1 .. Len(items) : m[i] = items[i]
            /\ \A i \in 1 .. Len(q) : m[i + Len(items)] = q[i]
        BY <1>2, <1>5
      <4>2. 1 \in 1 .. Len(items) /\ 1 \in 1 .. Len(q) /\ 1 + Len(items) = 2 /\ Len(items) + Len(q) = 2
        BY <1>4, <3>2
      <4> QED BY <1>4, <3>2, <4>1, <4>2
    <3>4. m # <<>>
      BY <1>6, <3>3, EmptySeq
    <3>5. WellMade(m)
      BY <1>1, <3>1, <3>3 DEF WellMade, Follows
    <3> QED BY <1>1, <3>1, <3>3, <3>4, <3>5
  <2> QED BY <2>1, <2>2
<1>9. ~EndsOpen /\ (cliOut # <<>> => cliOut[Len(cliOut)].k = "nl")
  BY DEF TextFits
<1>10. cliOut # <<>> => Follows(cliOut[Len(cliOut)], m[1])
  BY <1>8, <1>9 DEF Follows
<1>11. cliOut = <<>> => Fits(OpenAt(Len(uiq)), m)
  BY <1>9 DEF Fits, EndsOpen
<1>12. TextFits'
  BY <1>6, <1>8, <1>10, <1>11, TextFitsSays
<1>13. Stream' = Stream \cup Range(m)
  BY <1>6, StreamSays
<1> QED BY <1>1, <1>7, <1>12, <1>13

LEMMA AnswerPatient ==
  ASSUME DlvTypes, Patient, NEW c \in {"job", "cli"},
         (waiting = <<c>> /\ target # "running") \/ (target = "running" /\ runner = c),
         NEW items, items = <<>> \/ \E x \in RealText : items = <<x>> /\ x.k \in {"stop", "exit", "failed"},
         Answer(c, items), target' # "running", waiting' = <<>>,
         \A x \in Range(items) :
           /\ x.k = "stop" => x.n # Frame /\ x.n = stops' /\ x.n # 0 /\ target' = "stopped"
           /\ x.k = "exit" => x.n = stops' /\ x.n # 0 /\ target' = "exited",
         lost' \/ (~lost /\ target # "exited" /\ \E x \in Range(items) : Outcome(x)),
         UNCHANGED <<bps, cliIn, halfTyped, uiq, lineBuf, ui, running, suppress, navs, confirming,
                     bpDeferred, refresh, afterStop, list, shown, bound>>
  PROVE  Patient'
<1>1. AtServer /\ ~AtServer'
  BY DEF AtServer
<1>2. cliIn = <<>> /\ ui = "free" /\ list = bps /\ ~confirming
  BY <1>1 DEF Patient, OneResume
<1>3. /\ ~Coming({"stop", "exit", "failed", "bpset", "line", "prompt"})
      /\ Coming({"ask"}) => cli = "asking"
  BY <1>1 DEF Patient, TextSays
<1>4. /\ c = "job" => job.pc = "sent" /\ cli = "prompt"
      /\ c = "cli" => cli = "inServer" /\ job.pc = "none"
  BY DEF Patient, OneResume
<1>5. Held = {} /\ items \in Seq(RealText) /\ Range(items) \subseteq RealText
  <2>1. items \in Seq(RealText)
    <3>1. \A x \in RealText : <<x>> \in Seq(RealText)
      OBVIOUS
    <3>2. <<>> \in Seq(RealText)
      OBVIOUS
    <3> QED BY <3>1, <3>2
  <2> QED BY <1>4, <2>1, HeldNone, RangeIsText
<1>6. PICK p \in RealText : p = Item("prompt") /\ p.k = "prompt"
  BY ItemsAreReal DEF Items, Item
<1>7. c = "job" => /\ job'.pc = "answered" /\ job'.ans = items /\ UNCHANGED <<cli, cliOut>>
                   /\ Stream' = Stream /\ Held' = Range(items)
  <2> SUFFICES ASSUME c = "job" PROVE /\ job'.pc = "answered" /\ job'.ans = items /\ UNCHANGED <<cli, cliOut>>
                                      /\ Stream' = Stream /\ Held' = Range(items)
    OBVIOUS
  <2>1. job' = [job EXCEPT !.pc = "answered", !.ans = items] /\ UNCHANGED <<cli, cliOut>> /\ job \in RPCJobs
    BY DEF Answer, DlvTypes, ClientTypes
  <2>2. job'.pc = "answered" /\ job'.ans = items
    BY <2>1 DEF RPCJobs
  <2> QED BY <2>1, <2>2, StreamSame DEF Held
<1>8. c = "cli" => /\ UNCHANGED job /\ cli' = "prompt" /\ Stream' = Stream \cup Range(items) \cup {p}
                   /\ Held' = {} /\ TextFits'
  <2> SUFFICES ASSUME c = "cli" PROVE /\ UNCHANGED job /\ cli' = "prompt" /\ Stream' = Stream \cup Range(items) \cup {p}
                                      /\ Held' = {} /\ TextFits'
    OBVIOUS
  <2>1. UNCHANGED job /\ cli' = "prompt" /\ cliOut' = cliOut \o items \o <<Item("prompt")>>
    BY DEF Answer
  <2>2. Held' = {}
    BY <1>4, <2>1, HeldNone
  <2> QED BY <1>4, <1>6, <2>1, <2>2, CliAnswerText DEF Patient
<1>9. cli' = "prompt"
  BY <1>4, <1>7, <1>8
<1>10. /\ Stream' \cup Held' \subseteq Stream \cup Range(items) \cup {p}
       /\ Range(items) \subseteq Stream' \cup Held'
  BY <1>7, <1>8
<1>11. \A x \in Stream : x.k \notin {"stop", "exit", "failed", "bpset", "line", "prompt"}
  BY <1>3 DEF Coming
<1>12. TextFits'
  <2>1. CASE c = "job"
    <3>1. EndsOpen => halfTyped' \/ cliIn' # <<>>
      BY DEF Patient, TextFits
    <3> QED BY <1>4, <1>7, <2>1, <3>1, TextFitsSame DEF Patient
  <2> QED BY <1>8, <2>1
<1>13. OneResume'
  BY <1>1, <1>2, <1>4, <1>7, <1>8, <1>9 DEF OneResume, AtServer
<1>14. LinesWait'
  BY <1>2 DEF LinesWait
<1>15. TextSays'
  <2>1. ~Coming({"ask"})'
    <3>1. \A x \in Stream : x.k # "ask"
      BY <1>3, <1>4 DEF Coming
    <3>2. \A x \in Range(items) : x.k # "ask"
      <4>1. Range(<<>>) = {} /\ \A x : Range(<<x>>) = {x}
        BY DEF Range
      <4> QED BY <4>1
    <3> QED BY <1>6, <1>7, <1>8, <3>1, <3>2 DEF Coming
  <2>2. job'.pc # "none" => /\ ~Coming({"nl", "ask", "prompt", "bpset"})'
                            /\ \A x \in Range(cliOut') : x.k = "echo"
    <3> SUFFICES ASSUME c = "job" PROVE /\ ~Coming({"nl", "ask", "prompt", "bpset"})'
                                        /\ \A x \in Range(cliOut') : x.k = "echo"
      BY <1>4, <1>8
    <3>1. ~Coming({"nl", "ask", "prompt", "bpset"}) /\ \A x \in Range(cliOut) : x.k = "echo"
      BY <1>4 DEF Patient, TextSays
    <3> QED BY <1>7, <3>1 DEF Coming
  <2>3. \A x \in Stream' \cup Held' :
          /\ x.k = "stop" => x.n # Frame /\ x.n = stops' /\ x.n # 0 /\ target' = "stopped"
          /\ x.k = "exit" => x.n = stops' /\ x.n # 0 /\ target' = "exited"
    BY <1>6, <1>10, <1>11
  <2> QED BY <1>1, <1>2, <1>9, <2>1, <2>2, <2>3 DEF TextSays, IsFrame
<1>16. ShownOrComing'
  BY <1>10 DEF ShownOrComing, Outcome
<1>17. TokensSpent'
  <2> SUFFICES ASSUME ~lost' PROVE suppress' = 0 /\ navs' = 0
    BY DEF TokensSpent
  <2>1. ~lost /\ target # "exited" /\ ~\E x \in Stream : IsFrame(x)
    BY <1>11 DEF IsFrame
  <2> QED BY <1>2, <2>1 DEF Patient, TokensSpent
<1>18. QuestionSeen' /\ ListOwed'
  BY <1>2, <1>9 DEF QuestionSeen, ListOwed
<1> QED BY <1>12, <1>13, <1>14, <1>15, <1>16, <1>17, <1>18 DEF Patient

LEMMA ServeResumePatient ==
  ASSUME DlvTypes, Patient, ServeResume
  PROVE  Patient'
<1>1. PICK c \in {"job", "cli"} : waiting = <<c>>
  BY DEF ServeResume, Patient, OneResume
<1>2. /\ target # "running" /\ Head(waiting) = c /\ waiting' = <<>>
      /\ UNCHANGED <<bps, cliIn, halfTyped, uiq, lineBuf, ui, running, suppress, navs, confirming,
                     bpDeferred, refresh, afterStop, list, shown, bound, stops>>
  BY <1>1 DEF ServeResume, gate, breaks, pane, rest
<1>3. CASE c = "job" /\ job.cmd = "restart"
  <2>1. target' = "stopped" /\ lost' = TRUE /\ Answer("job", <<>>)
    BY <1>2, <1>3 DEF ServeResume
  <2> QED BY <1>1, <1>2, <1>3, <2>1, AnswerPatient, EmptyRange
<1>4. CASE ~(c = "job" /\ job.cmd = "restart") /\ target = "exited"
  <2>1. PICK f \in RealText : f = Item("failed") /\ f.k = "failed"
    BY ItemsAreReal DEF Items, Item
  <2>2. target' = "exited" /\ lost' = TRUE /\ Answer(c, <<f>>)
    BY <1>2, <1>4, <2>1 DEF ServeResume
  <2>3. Range(<<f>>) = {f}
    BY DEF Range
  <2> QED BY <1>1, <1>2, <2>1, <2>2, <2>3, AnswerPatient
<1>5. CASE ~(c = "job" /\ job.cmd = "restart") /\ target # "exited"
  <2>1. target' = "running" /\ runner' = c /\ UNCHANGED <<job, cli, cliOut, lost>>
    BY <1>2, <1>5 DEF ServeResume
  <2>2. AtServer /\ AtServer'
    BY <1>1, <2>1 DEF AtServer
  <2>3. Stream' = Stream /\ Held' = Held
    BY <1>2, <2>1, StreamSame, HeldSame
  <2>4. \A kinds : Coming(kinds)' <=> Coming(kinds)
    BY <2>3 DEF Coming
  <2>5. cliIn = <<>> /\ ui = "free" /\ list = bps /\ ~confirming
    BY <2>2 DEF Patient, OneResume
  <2>6. TextFits'
    <3>1. EndsOpen => halfTyped' \/ cliIn' # <<>>
      BY <1>2 DEF Patient, TextFits
    <3> QED BY <1>2, <2>1, <3>1, TextFitsSame DEF Patient
  <2>7. OneResume'
    <3>1. /\ c = "job" => job.pc = "sent" /\ cli = "prompt"
          /\ c = "cli" => cli = "inServer" /\ job.pc = "none"
      BY <1>1 DEF Patient, OneResume
    <3> QED BY <1>2, <2>1, <2>5, <3>1 DEF OneResume, AtServer
  <2>8. LinesWait'
    BY <1>2, <2>5 DEF LinesWait
  <2>9. TextSays'
    <3>1. \A x \in Stream \cup Held : x.k \notin {"stop", "exit"}
      <4>1. ~Coming({"stop", "exit", "failed", "bpset", "line", "prompt"})
        BY <2>2 DEF Patient, TextSays
      <4>2. Held = {}
        BY <1>1, HeldNone DEF Patient, OneResume
      <4> QED BY <4>1, <4>2 DEF Coming
    <3>2. ~Coming({"stop", "exit", "failed", "bpset", "line", "prompt"})
      BY <2>2 DEF Patient, TextSays
    <3> QED BY <1>2, <2>1, <2>3, <2>4, <3>1, <3>2 DEF Patient, TextSays, IsFrame
  <2>10. ShownOrComing' /\ TokensSpent'
    BY <1>2, <1>5, <2>1, <2>2, <2>3 DEF Patient, ShownOrComing, TokensSpent
  <2>11. QuestionSeen' /\ ListOwed'
    BY <1>2, <2>1, <2>4, <2>5 DEF Patient, QuestionSeen, ListOwed
  <2> QED BY <2>6, <2>7, <2>8, <2>9, <2>10, <2>11 DEF Patient
<1> QED BY <1>3, <1>4, <1>5

LEMMA StopsPatient ==
  ASSUME DlvTypes, Patient, Stops
  PROVE  Patient'
<1>1. PICK how \in {"stop", "exit", "nowhere"} :
         /\ target' = IF how = "exit" THEN "exited" ELSE "stopped"
         /\ lost' = (how = "nowhere" \/ lost)
         /\ Answer(runner, IF how = "nowhere" THEN <<>> ELSE <<[k |-> how, n |-> stops']>>)
  BY DEF Stops
<1>2. /\ target = "running" /\ stops' = stops + 1 /\ stops' \in 0 .. MaxStops /\ stops' # 0
      /\ waiting = <<>> /\ waiting' = <<>> /\ runner \in {"job", "cli"}
      /\ UNCHANGED <<bps, cliIn, halfTyped, uiq, lineBuf, ui, running, suppress, navs, confirming,
                     bpDeferred, refresh, afterStop, list, shown, bound>>
  BY StopsTypes DEF Stops, gate, breaks, pane, rest, Patient, OneResume, DlvTypes, ServerTypes
<1>3. stops' # Frame /\ target' # "running"
  BY <1>1, <1>2, BoundsAreNat DEF Frame
<1>4. CASE how = "nowhere"
  <2>1. Answer(runner, <<>>) /\ lost'
    BY <1>1, <1>4
  <2> QED BY <1>2, <1>3, <2>1, AnswerPatient, EmptyRange
<1>5. CASE how # "nowhere"
  <2>1. PICK x \in RealText : x = [k |-> how, n |-> stops'] /\ x.k = how /\ x.n = stops'
    BY <1>2, <1>5, ItemsAreReal
  <2>2. Answer(runner, <<x>>) /\ (lost' = lost) /\ lost \in BOOLEAN
    BY <1>1, <1>5, <2>1 DEF DlvTypes, FlagTypes
  <2>3. Range(<<x>>) = {x}
    BY DEF Range
  <2>4. Outcome(x) /\ x.k \in {"stop", "exit", "failed"}
    BY <1>3, <1>5, <2>1 DEF Outcome
  <2>5. /\ x.k = "stop" => x.n # Frame /\ x.n = stops' /\ x.n # 0 /\ target' = "stopped"
        /\ x.k = "exit" => x.n = stops' /\ x.n # 0 /\ target' = "exited"
    BY <1>1, <1>2, <1>3, <2>1
  <2> QED BY <1>2, <1>3, <2>2, <2>3, <2>4, <2>5, AnswerPatient
<1> QED BY <1>4, <1>5

LEMMA HaltPatient ==
  ASSUME DlvTypes, Patient, Halt
  PROVE  Patient'
<1>1. CASE Stops
  BY <1>1, StopsPatient
<1>2. CASE UNCHANGED <<server, client, term, texts, gate, ui, breaks, pane, lost, rest>>
  BY <1>2, PatientSame DEF server, client, term, texts, gate, breaks, pane, rest
<1> QED BY <1>1, <1>2 DEF Halt
---------------------------------------------------------------------------
(* Delve: the command line reads a line                                    *)

Echo == <<Item("echo"), Item("nl")>>

(* What it answers: nothing, a question, a prompt, or a line and a prompt. *)
Reply(items) ==
    \/ items = <<>>
    \/ \E x \in RealText : x.k \in {"ask", "prompt"} /\ items = <<x>>
    \/ \E x, p \in RealText : x.k \in {"stop", "failed", "bpset"} /\ p.k = "prompt" /\ items = <<x, p>>

LEMMA EchoIs ==
  /\ Echo \in Seq(RealText) /\ Len(Echo) = 2 /\ Echo # <<>>
  /\ Echo[1].k = "echo" /\ Echo[2].k = "nl" /\ WellMade(Echo)
  /\ \A x \in Range(Echo) : x.k \in {"echo", "nl"}
<1>1. PICK e \in RealText : e = Item("echo") /\ e.k = "echo"
  BY ItemsAreReal DEF Items, Item
<1>2. PICK n \in RealText : n = Item("nl") /\ n.k = "nl"
  BY ItemsAreReal DEF Items, Item
<1>3. Echo = <<e, n>>
  BY <1>1, <1>2 DEF Echo
<1>4. Echo \in Seq(RealText) /\ Len(Echo) = 2 /\ Echo[1] = e /\ Echo[2] = n
  BY <1>3
<1>5. Echo # <<>>
  BY <1>4, EmptySeq
<1>6. WellMade(Echo)
  BY <1>1, <1>2, <1>4 DEF WellMade, Follows
<1>7. Range(Echo) = {e, n}
  BY <1>3 DEF Range
<1> QED BY <1>1, <1>2, <1>4, <1>5, <1>6, <1>7

LEMMA ReplyIs ==
  ASSUME NEW items, Reply(items)
  PROVE  /\ items \in Seq(RealText) /\ WellMade(items)
         /\ items # <<>> => /\ items[1].k \in {"ask", "prompt", "stop", "failed", "bpset"}
                            /\ items[Len(items)].k \in {"ask", "prompt"}
                            /\ items[Len(items)] \in Range(items)
<1>1. CASE items = <<>>
  <2>1. items \in Seq(RealText) /\ Len(items) = 0
    BY <1>1
  <2> QED BY <1>1, <2>1 DEF WellMade
<1>2. CASE \E x \in RealText : x.k \in {"ask", "prompt"} /\ items = <<x>>
  <2>1. PICK x \in RealText : x.k \in {"ask", "prompt"} /\ items = <<x>>
    BY <1>2
  <2>2. items \in Seq(RealText) /\ Len(items) = 1 /\ items[1] = x
    BY <2>1
  <2>3. items[1] \in Range(items)
    BY <2>2, InRange
  <2> QED BY <2>1, <2>2, <2>3 DEF WellMade
<1>3. CASE \E x, p \in RealText : x.k \in {"stop", "failed", "bpset"} /\ p.k = "prompt" /\ items = <<x, p>>
  <2>1. PICK x, p \in RealText : x.k \in {"stop", "failed", "bpset"} /\ p.k = "prompt" /\ items = <<x, p>>
    BY <1>3
  <2>2. items \in Seq(RealText) /\ Len(items) = 2 /\ items[1] = x /\ items[2] = p
    BY <2>1
  <2>3. items[2] \in Range(items)
    BY <2>2, InRange
  <2>4. WellMade(items)
    BY <2>1, <2>2 DEF WellMade, Follows
  <2> QED BY <2>1, <2>2, <2>3, <2>4
<1> QED BY <1>1, <1>2, <1>3 DEF Reply

LEMMA CliText ==
  ASSUME DlvTypes, TextFits, ~Coming({"prompt"}), NEW items, Reply(items),
         cliOut' = cliOut \o Echo \o items, UNCHANGED <<uiq, lineBuf, halfTyped>>,
         cli' = "inServer" => items = <<>>
  PROVE  /\ TextFits' /\ Stream' = Stream \cup Range(Echo) \cup Range(items)
<1>1. items \in Seq(RealText) /\ cliOut \in Seq(RealText) /\ Echo \in Seq(RealText)
  BY ReplyIs, EchoIs DEF DlvTypes, TextTypes
<1>2. PICK m : m = Echo \o items
  OBVIOUS
<1>3. m \in Seq(RealText) /\ cliOut' = cliOut \o m
  <2>1. (cliOut \o Echo) \o items = cliOut \o (Echo \o items)
    BY <1>1, RealConcat, Zenon
  <2>2. m \in Seq(RealText)
    BY <1>1, <1>2
  <2> QED BY <1>2, <2>1, <2>2, Zenon
<1>4. Range(m) = Range(Echo) \cup Range(items)
  BY <1>1, <1>2, RangeOfParts
<1>5. Len(m) = 2 + Len(items) /\ Len(items) \in Nat /\ m[1] = Echo[1] /\ m[2] = Echo[2]
      /\ \A i \in 1 .. Len(items) : m[i + 2] = items[i]
  <2>1. /\ Len(m) = Len(Echo) + Len(items) /\ Len(items) \in Nat
        /\ \A i \in 1 .. Len(Echo) : m[i] = Echo[i]
        /\ \A i \in 1 .. Len(items) : m[i + Len(Echo)] = items[i]
    BY <1>1, <1>2
  <2>2. Len(Echo) = 2
    BY EchoIs
  <2> QED BY <2>1, <2>2
<1>6. /\ m # <<>> /\ m[1].k = "echo"
      /\ items = <<>> => m[Len(m)].k = "nl"
      /\ items # <<>> => m[Len(m)] = items[Len(items)]
  <2>1. m # <<>>
    BY <1>3, <1>5, EmptySeq
  <2>2. items = <<>> => Len(m) = 2
    BY <1>5
  <2>3. items # <<>> => Len(items) \in 1 .. Len(items) /\ Len(m) = Len(items) + 2
    BY <1>1, <1>5, EmptySeq
  <2> QED BY <1>5, <2>1, <2>2, <2>3, EchoIs
<1>7. WellMade(m)
  <2>1. CASE items = <<>>
    <3>1. m = Echo
      BY <1>1, <1>2, <2>1
    <3> QED BY <3>1, EchoIs
  <2>2. CASE items # <<>>
    <3>1. Follows(Echo[Len(Echo)], items[1])
      BY <2>2, EchoIs, ReplyIs DEF Follows
    <3> QED BY <1>1, <1>2, <2>2, <3>1, EchoIs, ReplyIs, WellMadeParts
  <2> QED BY <2>1, <2>2
<1>8. cliOut # <<>> => Follows(cliOut[Len(cliOut)], m[1])
  <2> SUFFICES ASSUME cliOut # <<>> PROVE cliOut[Len(cliOut)].k # "prompt"
    BY <1>6 DEF Follows
  <2>1. Len(cliOut) \in DOMAIN cliOut
    BY <1>1
  <2>2. cliOut[Len(cliOut)] \in Stream
    BY <2>1, InRange, StreamHas
  <2> QED BY <2>2 DEF Coming
<1>9. Fits(OpenAt(Len(uiq)), m)
  BY <1>6 DEF Fits
<1>10. m[Len(m)].k # "echo" /\ (cli' = "inServer" => m[Len(m)].k = "nl")
  BY <1>6, ReplyIs
<1>11. TextFits'
  BY <1>3, <1>6, <1>7, <1>8, <1>9, <1>10, TextFitsSays
<1>12. Stream' = Stream \cup Range(m)
  BY <1>3, StreamSays
<1> QED BY <1>4, <1>11, <1>12

(* A line is read and answered at once, or by Delve's question.            *)
LEMMA CliSaysPatient ==
  ASSUME DlvTypes, Patient, cliIn # <<>>, cli \in {"prompt", "asking"}, NEW items,
         \/ cli' = "asking" /\ items = <<Item("ask")>>
         \/ cli' = "prompt" /\ items = <<Item("prompt")>>
         \/ cli' = "prompt" /\ \E x \in RealText : /\ x.k \in {"stop", "failed", "bpset"}
                                                   /\ x.k = "stop" => IsFrame(x)
                                                   /\ items = <<x, Item("prompt")>>,
         cliOut' = cliOut \o Echo \o items, cliIn' = Tail(cliIn),
         cli' = "prompt" => Tail(cliIn) = <<>> /\ ~(cli = "asking" /\ Head(cliIn) = "continue"),
         bps' = bps \/ \E x \in Range(items) : x.k = "bpset",
         Head(cliIn) = "up" /\ cli = "prompt" => target = "exited" \/ \E x \in Range(items) : IsFrame(x),
         lost \/ Head(cliIn) # "continue",
         UNCHANGED <<target, runner, waiting, stops, job, halfTyped, uiq, lineBuf, ui, running,
                     suppress, navs, confirming, bpDeferred, refresh, afterStop, list, shown, lost, bound>>
  PROVE  Patient'
<1>1. PICK p \in RealText : p = Item("prompt") /\ p.k = "prompt"
  BY ItemsAreReal DEF Items, Item
<1>2. PICK a \in RealText : a = Item("ask") /\ a.k = "ask"
  BY ItemsAreReal DEF Items, Item
<1>3. \A x, y : Range(<<x>>) = {x} /\ Range(<<x, y>>) = {x, y}
  BY DEF Range
<1>4. /\ \/ cli' = "asking" /\ items = <<a>> /\ Range(items) = {a} /\ items # <<>>
         \/ cli' = "prompt" /\ p \in Range(items) /\ items # <<>> /\ items[Len(items)] = p
      /\ Reply(items)
      /\ \A x \in Range(items) : /\ x.k \in {"ask", "prompt", "stop", "failed", "bpset"}
                                 /\ x.k = "ask" => cli' = "asking"
                                 /\ x.k \in {"prompt", "stop", "failed", "bpset"} => cli' = "prompt"
                                 /\ x.k = "stop" => IsFrame(x)
  <2>1. CASE cli' = "asking" /\ items = <<a>>
    <3>1. Range(items) = {a} /\ items # <<>>
      BY <1>3, <2>1
    <3>2. Reply(items)
      BY <1>2, <2>1 DEF Reply
    <3> QED BY <1>2, <2>1, <3>1, <3>2
  <2>2. CASE cli' = "prompt" /\ items = <<p>>
    <3>1. Range(items) = {p} /\ items # <<>> /\ items[Len(items)] = p
      BY <1>3, <2>2
    <3>2. Reply(items)
      BY <1>1, <2>2 DEF Reply
    <3> QED BY <1>1, <2>2, <3>1, <3>2
  <2>3. CASE cli' = "prompt" /\ \E x \in RealText : /\ x.k \in {"stop", "failed", "bpset"}
                                                    /\ x.k = "stop" => IsFrame(x)
                                                    /\ items = <<x, p>>
    <3>1. PICK x \in RealText : /\ x.k \in {"stop", "failed", "bpset"} /\ (x.k = "stop" => IsFrame(x))
                                /\ items = <<x, p>>
      BY <2>3
    <3>2. Range(items) = {x, p} /\ items # <<>> /\ items[Len(items)] = p
      BY <1>3, <3>1
    <3>3. Reply(items)
      BY <1>1, <3>1 DEF Reply
    <3> QED BY <1>1, <2>3, <3>1, <3>2, <3>3
  <2> QED BY <1>1, <1>2, <2>1, <2>2, <2>3
<1>5. /\ ~AtServer /\ ~AtServer' /\ job.pc = "none" /\ ui = "free" /\ ~refresh
      /\ \/ cliIn = <<"break", "continue">> /\ ~bound /\ lost
         \/ \E l \in Lines : cliIn = <<l>>
      /\ Stream # {} => cli = "asking" /\ cliIn = <<"continue">>
  BY DEF Patient, LinesWait, AtServer
<1>6. \A x \in Stream : x.k \notin {"stop", "exit", "failed", "bpset", "line", "prompt"}
  BY DEF Patient, TextSays, Coming
<1>7. Held = {} /\ Held' = {} /\ ~Coming({"prompt"}) /\ ~Coming({"bpset"})
  BY <1>5, <1>6, HeldNone DEF Coming
<1>8. TextFits' /\ Stream' = Stream \cup Range(Echo) \cup Range(items)
  BY <1>1, <1>2, <1>4, <1>7, CliText DEF Patient
<1>9. cli' = "prompt" => Stream = {}
  <2>1. cliIn = <<"continue">> => Head(cliIn) = "continue"
    OBVIOUS
  <2> QED BY <1>5, <2>1
<1>10. cliIn' # <<>> => cli' = "asking" /\ cliIn' = <<"continue">> /\ lost
  <2>1. \A l : Tail(<<l>>) = <<>>
    OBVIOUS
  <2>2. Tail(<<"break", "continue">>) = <<"continue">>
    OBVIOUS
  <2> QED BY <1>4, <1>5, <2>1, <2>2
<1>11. \A x \in Stream' : /\ x \in Stream \/ x.k \in {"echo", "nl"} \/ x \in Range(items)
                          /\ x.k \notin {"exit", "line"}
                          /\ x.k = "stop" => IsFrame(x)
  BY <1>4, <1>6, <1>8, EchoIs
<1>12. OneResume'
  BY <1>4, <1>5 DEF Patient, OneResume, AtServer
<1>13. LinesWait'
  <2>1. "continue" \in Lines
    BY DEF Lines
  <2> QED BY <1>5, <1>10, <2>1 DEF LinesWait
<1>14. TextSays'
  <2>1. Coming({"stop", "exit", "failed", "bpset", "line", "prompt"})' => cli' = "prompt" /\ cliIn' = <<>>
    <3> SUFFICES ASSUME NEW x \in Stream', x.k \in {"stop", "exit", "failed", "bpset", "line", "prompt"}
                 PROVE  cli' = "prompt" /\ cliIn' = <<>>
      BY DEF Coming
    <3>1. x \in Range(items) /\ x.k \in {"prompt", "stop", "failed", "bpset"}
      BY <1>6, <1>11
    <3> QED BY <1>4, <1>10, <3>1
  <2>2. Coming({"ask"})' => cli' = "asking"
    <3> SUFFICES ASSUME NEW x \in Stream', x.k = "ask" PROVE cli' = "asking"
      BY DEF Coming
    <3>1. CASE x \in Stream
      BY <1>4, <1>9, <3>1
    <3>2. CASE x \in Range(items)
      BY <1>4, <3>2
    <3> QED BY <1>11, <3>1, <3>2
  <2>3. \A x \in Stream' \cup Held' : x.k # "exit" /\ (x.k = "stop" => IsFrame(x))
    BY <1>7, <1>11
  <2> QED BY <1>5, <2>1, <2>2, <2>3 DEF TextSays, IsFrame
<1>15. ShownOrComing'
  BY <1>5, <1>7, <1>8 DEF Patient, ShownOrComing
<1>16. TokensSpent'
  <2> SUFFICES ASSUME ~lost, target # "exited"
               PROVE  suppress = 0 /\ (navs # 0 => navs = 1 /\ \E x \in Stream' : IsFrame(x))
    BY DEF TokensSpent
  <2>1. suppress = 0 /\ (navs # 0 => navs = 1 /\ cliIn = <<"up">> /\ cli = "prompt")
    BY <1>6 DEF Patient, TokensSpent, IsFrame
  <2>2. cliIn = <<"up">> => Head(cliIn) = "up"
    OBVIOUS
  <2> QED BY <1>8, <2>1, <2>2
<1>17. QuestionSeen'
  <2>1. cli' = "prompt" => Coming({"prompt"})'
    BY <1>1, <1>2, <1>4, <1>8 DEF Coming
  <2>2. cli' = "asking" => Coming({"ask"})'
    BY <1>1, <1>2, <1>4, <1>8 DEF Coming
  <2> QED BY <1>4, <2>1, <2>2 DEF QuestionSeen
<1>18. ListOwed'
  <2>1. cli' = "prompt" => Coming({"prompt"})'
    BY <1>1, <1>2, <1>4, <1>8 DEF Coming
  <2>2. CASE bps' = bps
    <3>1. list # bps => bpDeferred
      BY <1>5, <1>7 DEF Patient, ListOwed
    <3> QED BY <1>4, <2>1, <2>2, <3>1 DEF ListOwed
  <2>3. CASE \E x \in Range(items) : x.k = "bpset"
    <3>1. Coming({"bpset"})' /\ cli' = "prompt"
      BY <1>4, <1>8, <2>3 DEF Coming
    <3> QED BY <1>8, <3>1 DEF ListOwed
  <2> QED BY <2>2, <2>3
<1> QED BY <1>8, <1>12, <1>13, <1>14, <1>15, <1>16, <1>17, <1>18 DEF Patient

(* A resume is typed: the command line waits for the server.               *)
LEMMA CliResumesPatient ==
  ASSUME DlvTypes, Patient, cliIn # <<>>, cli = "prompt", Head(cliIn) \in {"continue", "repeat"},
         cliOut' = cliOut \o Echo \o <<>>, cliIn' = Tail(cliIn), cli' = "inServer",
         waiting' = Append(waiting, "cli"),
         UNCHANGED <<target, runner, bps, stops, job, halfTyped, uiq, lineBuf, ui, running,
                     suppress, navs, confirming, bpDeferred, refresh, afterStop, list, shown, lost, bound>>
  PROVE  Patient'
<1>1. /\ ~AtServer /\ job.pc = "none" /\ ui = "free" /\ ~refresh
      /\ \/ cliIn = <<"break", "continue">>
         \/ \E l \in Lines : cliIn = <<l>>
      /\ Stream = {}
  BY DEF Patient, LinesWait
<1>2. waiting' = <<"cli">> /\ target # "running" /\ AtServer'
  <2>1. waiting = <<>> /\ target # "running"
    BY <1>1 DEF AtServer
  <2>2. waiting' = <<"cli">> /\ <<"cli">> # <<>>
    BY <2>1
  <2> QED BY <2>1, <2>2 DEF AtServer
<1>3. cliIn' = <<>> /\ cliIn # <<"up">> /\ Head(cliIn) \notin {"break", "clear"}
  <2>1. \A l : Tail(<<l>>) = <<>> /\ Head(<<l>>) = l
    OBVIOUS
  <2>2. Head(<<"break", "continue">>) = "break"
    OBVIOUS
  <2>3. PICK l \in Lines : cliIn = <<l>>
    BY <1>1, <2>2
  <2> QED BY <2>1, <2>3
<1>4. Held = {} /\ Held' = {} /\ \A kinds : ~Coming(kinds)
  BY <1>1, HeldNone, NoComing
<1>5. ~confirming /\ list = bps
  BY <1>1, <1>3, <1>4 DEF Patient, QuestionSeen, ListOwed
<1>6. TextFits' /\ Stream' = Range(Echo)
  <2>1. Reply(<<>>)
    BY DEF Reply
  <2>2. TextFits' /\ Stream' = Stream \cup Range(Echo) \cup Range(<<>>)
    BY <1>4, <2>1, CliText DEF Patient
  <2> QED BY <1>1, <2>2, EmptyRange
<1>7. \A x \in Stream' \cup Held' : x.k \in {"echo", "nl"}
  BY <1>4, <1>6, EchoIs
<1>8. OneResume'
  <2>1. <<"cli">> # <<"job">> /\ "cli" # "job"
    <3>1. <<"cli">>[1] # <<"job">>[1]
      OBVIOUS
    <3> QED BY <3>1
  <2> QED BY <1>1, <1>2, <1>3, <1>5, <2>1 DEF OneResume
<1>9. LinesWait'
  BY <1>1, <1>3 DEF LinesWait
<1>10. TextSays'
  <2>1. ~Coming({"stop", "exit", "failed", "bpset", "line", "prompt"})' /\ ~Coming({"ask"})'
    BY <1>7 DEF Coming
  <2> QED BY <1>1, <1>7, <2>1 DEF TextSays, IsFrame
<1>11. ShownOrComing'
  BY <1>2 DEF ShownOrComing
<1>12. TokensSpent'
  BY <1>1, <1>3 DEF Patient, TokensSpent
<1>13. QuestionSeen' /\ ListOwed'
  BY <1>5 DEF QuestionSeen, ListOwed
<1> QED BY <1>6, <1>8, <1>9, <1>10, <1>11, <1>12, <1>13 DEF Patient

LEMMA CliReadsPatient ==
  ASSUME DlvTypes, Patient, CliReads
  PROVE  Patient'
<1>1. PICK line : line = Head(cliIn)
  OBVIOUS
<1>2. /\ cliIn # <<>> /\ cli \in {"prompt", "asking"} /\ cliIn' = Tail(cliIn)
      /\ UNCHANGED <<target, runner, stops, job, halfTyped, uiq, lineBuf, ui, running,
                     suppress, navs, confirming, bpDeferred, refresh, afterStop, list, shown, lost, bound>>
  BY DEF CliReads, client, gate, breaks, pane, rest
<1>3. /\ \/ cliIn = <<"break", "continue">> /\ ~bound /\ lost
         \/ \E l \in Lines : cliIn = <<l>>
      /\ cliIn = <<"continue">> /\ cli = "asking" => lost
      /\ target # "running"
  BY <1>2 DEF Patient, LinesWait, AtServer
<1>4. /\ line # "break" \/ bound => Tail(cliIn) = <<>>
      /\ line = "continue" => cliIn = <<"continue">>
      /\ line \in Lines
  <2>1. \A l : Tail(<<l>>) = <<>> /\ Head(<<l>>) = l
    OBVIOUS
  <2>2. Head(<<"break", "continue">>) = "break"
    OBVIOUS
  <2>3. "break" \in Lines
    BY DEF Lines
  <2> QED BY <1>1, <1>3, <2>1, <2>2, <2>3
<1>5. /\ \A kind \in Items : Item(kind) \in RealText /\ Item(kind).k = kind
      /\ \A x, y : Range(<<x>>) = {x} /\ Range(<<x, y>>) = {x, y}
  BY ItemsAreReal DEF Item, Range
<1>6. CASE cli = "asking"
  <2>1. /\ bps' = (bps \/ line \in {"y", "repeat"})
        /\ cli' = IF line \in Answers THEN "prompt" ELSE "asking"
        /\ cliOut' = cliOut \o Echo \o (IF line = "n" THEN <<Item("prompt")>>
                        ELSE IF line \in Answers THEN <<Item("bpset"), Item("prompt")>>
                        ELSE <<Item("ask")>>)
        /\ UNCHANGED waiting
    BY <1>1, <1>6 DEF CliReads, Echo
  <2>2. lost \/ line # "continue"
    BY <1>3, <1>4, <1>6
  <2>3. UNCHANGED waiting
    BY <2>1
  <2>4. CASE line = "n"
    <3>1. cli' = "prompt" /\ bps' = bps /\ cliOut' = cliOut \o Echo \o <<Item("prompt")>>
      BY <2>1, <2>4 DEF Answers, DlvTypes, ServerTypes
    <3> QED BY <1>1, <1>2, <1>4, <1>6, <2>1, <2>2, <2>4, <3>1, CliSaysPatient
  <2>5. CASE line \in {"y", "repeat"}
    <3>1. cli' = "prompt" /\ cliOut' = cliOut \o Echo \o <<Item("bpset"), Item("prompt")>>
      BY <2>1, <2>5 DEF Answers
    <3>2. Item("bpset") \in RealText /\ Item("bpset").k = "bpset"
          /\ Item("bpset") \in Range(<<Item("bpset"), Item("prompt")>>)
      BY <1>5 DEF Items
    <3>3. Tail(cliIn) = <<>> /\ Head(cliIn) # "continue" /\ ~(Head(cliIn) = "up" /\ cli = "prompt")
      BY <1>1, <1>4, <1>6, <2>5
    <3> QED BY <1>2, <2>3, <3>1, <3>2, <3>3, CliSaysPatient
  <2>6. CASE line \notin Answers
    <3>1. cli' = "asking" /\ bps' = bps /\ cliOut' = cliOut \o Echo \o <<Item("ask")>>
      BY <2>1, <2>6 DEF Answers, DlvTypes, ServerTypes
    <3>2. (lost \/ Head(cliIn) # "continue") /\ ~(Head(cliIn) = "up" /\ cli = "prompt")
      BY <1>1, <1>6, <2>2
    <3> QED BY <1>2, <2>3, <3>1, <3>2, CliSaysPatient
  <2> QED BY <2>4, <2>5, <2>6 DEF Answers
<1>7. CASE cli = "prompt" /\ line \in {"continue", "repeat"}
  <2>1. /\ waiting' = Append(waiting, "cli") /\ cli' = "inServer" /\ cliOut' = cliOut \o Echo \o <<>>
        /\ UNCHANGED bps
    BY <1>1, <1>7 DEF CliReads, Echo
  <2> QED BY <1>1, <1>2, <1>7, <2>1, CliResumesPatient
<1>8. CASE cli = "prompt" /\ line = "up" /\ target # "exited"
  <2>1. /\ cliOut' = cliOut \o Echo \o <<[k |-> "stop", n |-> Frame], Item("prompt")>>
        /\ UNCHANGED <<waiting, cli, bps>>
    BY <1>1, <1>8 DEF CliReads, Echo
  <2>2. PICK x \in RealText : x = [k |-> "stop", n |-> Frame] /\ x.k = "stop" /\ x.n = Frame
    BY ItemsAreReal
  <2>3. IsFrame(x) /\ x \in Range(<<x, Item("prompt")>>)
    BY <1>5, <2>2 DEF IsFrame
  <2> QED BY <1>1, <1>2, <1>4, <1>8, <2>1, <2>2, <2>3, CliSaysPatient
<1>9. CASE cli = "prompt" /\ line = "break" /\ bound
  <2>1. /\ cliOut' = cliOut \o Echo \o <<Item("bpset"), Item("prompt")>> /\ UNCHANGED <<waiting, cli>>
    BY <1>1, <1>9 DEF CliReads, Echo
  <2>2. Item("bpset") \in RealText /\ Item("bpset").k = "bpset"
        /\ Item("bpset") \in Range(<<Item("bpset"), Item("prompt")>>)
    BY <1>5 DEF Items
  <2> QED BY <1>1, <1>2, <1>4, <1>9, <2>1, <2>2, CliSaysPatient
<1>10. CASE cli = "prompt" /\ line = "break" /\ ~bound
  <2>1. /\ cliOut' = cliOut \o Echo \o <<Item("ask")>> /\ cli' = "asking" /\ UNCHANGED <<waiting, bps>>
    BY <1>1, <1>10 DEF CliReads, Echo
  <2> QED BY <1>1, <1>2, <1>10, <2>1, CliSaysPatient
<1>11. CASE cli = "prompt" /\ line \notin {"continue", "repeat", "break"} /\ ~(line = "up" /\ target # "exited")
  <2>1. /\ cliOut' = cliOut \o Echo \o <<Item("failed"), Item("prompt")>> /\ UNCHANGED <<waiting, cli, bps>>
    BY <1>1, <1>11 DEF CliReads, Echo
  <2>2. Item("failed") \in RealText /\ Item("failed").k = "failed"
    BY <1>5 DEF Items
  <2> QED BY <1>1, <1>2, <1>4, <1>11, <2>1, <2>2, CliSaysPatient
<1> QED BY <1>2, <1>6, <1>7, <1>8, <1>9, <1>10, <1>11
---------------------------------------------------------------------------
(* Delve: the UI thread takes a text                                       *)

(* What it reads, said of the items of the text: every stop, exit and      *)
(* breakpoint in it unless half a line of the user's was before it.        *)
LEMMA TextIsRead ==
  ASSUME DlvTypes, Patient, uiq # <<>>, NEW m, m = Head(uiq), NEW u, u = PushRaw(lineBuf, m)
  PROVE  /\ m # <<>> /\ m \in Seq(RealText) /\ m = uiq[1]
         /\ u.buf \in {"none", "text"} /\ (u.buf = "text" => Open(m))
         /\ u.prompt \in BOOLEAN /\ u.ask \in BOOLEAN /\ u.garbled \in BOOLEAN /\ u.bpset \in BOOLEAN
         /\ u.stop \in 0 .. MaxStops + 1 /\ u.exit \in 0 .. MaxStops + 1
         /\ u.stop # 0 => \E x \in Range(m) : x.k = "stop" /\ x.n = u.stop
         /\ u.exit # 0 => \E x \in Range(m) : x.k = "exit" /\ x.n = u.exit
         /\ u.prompt => \E x \in Range(m) : x.k \in {"line", "prompt"}
         /\ u.ask <=> \E x \in Range(m) : x.k = "ask"
         /\ u.bpset => \E x \in Range(m) : x.k = "bpset"
         /\ u.garbled => halfTyped
         /\ \A x \in Range(m) : /\ x.k = "stop" => u.garbled \/ u.stop # 0
                                /\ x.k = "exit" => u.garbled \/ u.exit # 0
                                /\ x.k = "bpset" => u.bpset
                                /\ x.k = "prompt" => u.prompt
<1>1. uiq \in Seq(Seq(RealText)) /\ lineBuf \in {"none", "text"}
  BY DEF DlvTypes, TextTypes
<1>2. 1 \in DOMAIN uiq /\ m = uiq[1] /\ m \in Seq(RealText)
  BY <1>1
<1>3. m # <<>> /\ WellMade(m) /\ Fits(lineBuf = "text", m)
  <2>1. uiq[1] # <<>> /\ WellMade(uiq[1]) /\ Fits(OpenAt(1 - 1), uiq[1])
    BY <1>2 DEF Patient, TextFits
  <2>2. OpenAt(1 - 1) = (lineBuf = "text")
    BY DEF OpenAt
  <2> QED BY <1>2, <2>1, <2>2
<1>4. Continues(lineBuf, m)
  BY <1>1, <1>3 DEF Continues, Fits
<1>5. m \in Seq(Text)
  BY <1>2, RealTextIsText
<1>6. \A x \in Range(m) : x \in Stream
  BY <1>2, StreamHas
<1>7. \A x \in Range(m) : x.k \in {"stop", "exit"} => x.n # 0
  <2>1. Frame # 0
    BY BoundsAreNat DEF Frame
  <2> QED BY <1>6, <2>1 DEF Patient, TextSays
<1>8. \A i \in DOMAIN m : m[i] \in Range(m)
  BY InRange
<1>9. \A i \in DOMAIN m : m[i].k \in {"stop", "exit"} => m[i].n # 0
  BY <1>7, <1>8
<1>10. /\ u.buf \in {"none", "text"} /\ u.stop \in 0 .. MaxStops + 1 /\ u.exit \in 0 .. MaxStops + 1
       /\ u.prompt \in BOOLEAN /\ u.ask \in BOOLEAN /\ u.garbled \in BOOLEAN /\ u.bpset \in BOOLEAN
       /\ u.stop # 0 => \E x \in DOMAIN m : m[x].k = "stop" /\ m[x].n = u.stop
       /\ u.exit # 0 => \E x \in DOMAIN m : m[x].k = "exit" /\ m[x].n = u.exit
       /\ u.prompt => \E x \in DOMAIN m : m[x].k \in {"line", "prompt"}
       /\ u.ask <=> \E x \in DOMAIN m : m[x].k = "ask"
       /\ u.bpset => \E x \in DOMAIN m : m[x].k = "bpset"
  <2>1. u.buf \in {"none", "text"} /\ u.stop \in 0 .. MaxStops + 1 /\ u.exit \in 0 .. MaxStops + 1
    BY <1>1, <1>5, PushRawSays
  <2>2. u.prompt \in BOOLEAN /\ u.ask \in BOOLEAN /\ u.garbled \in BOOLEAN /\ u.bpset \in BOOLEAN
    BY <1>1, <1>5, PushRawSays
  <2>3. u.stop # 0 => \E x \in DOMAIN m : m[x].k = "stop" /\ m[x].n = u.stop
    BY <1>1, <1>5, PushRawSays
  <2>4. u.exit # 0 => \E x \in DOMAIN m : m[x].k = "exit" /\ m[x].n = u.exit
    BY <1>1, <1>5, PushRawSays
  <2>5. u.prompt => \E x \in DOMAIN m : m[x].k \in {"line", "prompt"}
    BY <1>1, <1>5, PushRawSays
  <2>6. u.ask <=> \E x \in DOMAIN m : m[x].k = "ask"
    BY <1>1, <1>5, PushRawSays
  <2>7. u.bpset => \E x \in DOMAIN m : m[x].k = "bpset"
    BY <1>1, <1>5, PushRawSays
  <2> QED BY <2>1, <2>2, <2>3, <2>4, <2>5, <2>6, <2>7
<1>11. /\ u.buf = "text" => m[Len(m)].k = "echo"
       /\ u.garbled => lineBuf = "text" /\ m[1].k \in {"stop", "exit"}
       /\ \A x \in DOMAIN m :
            /\ m[x].k = "stop" => u.garbled \/ u.stop # 0
            /\ m[x].k = "exit" => u.garbled \/ u.exit # 0
            /\ m[x].k = "bpset" => u.bpset
            /\ m[x].k = "prompt" => u.prompt
  BY <1>1, <1>3, <1>4, <1>5, <1>9, PushRawReads
<1>12. u.garbled => halfTyped
  BY <1>3, <1>11 DEF Fits
<1>13. /\ u.stop # 0 => \E x \in Range(m) : x.k = "stop" /\ x.n = u.stop
       /\ u.exit # 0 => \E x \in Range(m) : x.k = "exit" /\ x.n = u.exit
       /\ u.prompt => \E x \in Range(m) : x.k \in {"line", "prompt"}
       /\ u.bpset => \E x \in Range(m) : x.k = "bpset"
  BY <1>8, <1>10
<1>14. u.ask <=> \E x \in Range(m) : x.k = "ask"
  BY <1>10, InRange
<1>15. \A x \in Range(m) : /\ x.k = "stop" => u.garbled \/ u.stop # 0
                           /\ x.k = "exit" => u.garbled \/ u.exit # 0
                           /\ x.k = "bpset" => u.bpset
                           /\ x.k = "prompt" => u.prompt
  BY <1>11, InRange
<1> QED BY <1>2, <1>3, <1>10, <1>11, <1>12, <1>13, <1>14, <1>15 DEF Open

(* The next message was well placed behind this one.                       *)
LEMMA TextFitsTaken ==
  ASSUME DlvTypes, TextFits, uiq # <<>>, uiq' = Tail(uiq), lineBuf' = "text" => Open(uiq[1]),
         UNCHANGED <<cliOut, halfTyped, cliIn, cli>>
  PROVE  TextFits'
<1>1. uiq \in Seq(Seq(RealText))
  BY DEF DlvTypes, TextTypes
<1>2. /\ Len(uiq) \in Nat \ {0} /\ Len(uiq') = Len(uiq) - 1
      /\ DOMAIN uiq = 1 .. Len(uiq) /\ DOMAIN uiq' = 1 .. Len(uiq) - 1
      /\ \A j \in DOMAIN uiq' : uiq'[j] = uiq[j + 1]
  BY <1>1
<1>3. \A j \in 0 .. Len(uiq) - 1 : (OpenAt(j))' => OpenAt(j + 1)
  <2>1. (OpenAt(0))' => OpenAt(0 + 1)
    BY DEF OpenAt
  <2>2. ASSUME NEW j \in 1 .. Len(uiq) - 1
        PROVE  (OpenAt(j))' = OpenAt(j + 1)
    BY <1>2 DEF OpenAt, Open
  <2> QED BY <1>2, <2>1, <2>2
<1>4. \A p, q, t : Fits(q, t) /\ (p => q) => (Fits(p, t))'
  BY DEF Fits
<1>5. \A j \in DOMAIN uiq' : uiq'[j] # <<>> /\ WellMade(uiq'[j]) /\ (Fits(OpenAt(j - 1), uiq[j]))'
  <2>1. SUFFICES ASSUME NEW j \in DOMAIN uiq'
                 PROVE  uiq'[j] # <<>> /\ WellMade(uiq'[j]) /\ (Fits(OpenAt(j - 1), uiq[j]))'
    OBVIOUS
  <2>2. j + 1 \in DOMAIN uiq /\ uiq'[j] = uiq[j + 1] /\ j - 1 \in 0 .. Len(uiq) - 1
        /\ (j + 1) - 1 = j /\ (j - 1) + 1 = j
    BY <1>2
  <2>3. uiq[j + 1] # <<>> /\ WellMade(uiq[j + 1]) /\ Fits(OpenAt(j), uiq[j + 1])
    BY <2>2 DEF TextFits
  <2>4. (OpenAt(j - 1))' => OpenAt(j)
    BY <1>3, <2>2
  <2> QED BY <1>4, <2>2, <2>3, <2>4
<1>6. (OpenAt(Len(uiq)))' => OpenAt(Len(uiq))
  <2>1. Len(uiq') \in 0 .. Len(uiq) - 1 /\ Len(uiq') + 1 = Len(uiq)
    BY <1>2
  <2>2. \A j : Len(uiq') = j => ((OpenAt(Len(uiq)))' <=> (OpenAt(j))')
    BY DEF OpenAt, Open
  <2>3. PICK j \in 0 .. Len(uiq) - 1 : j = Len(uiq') /\ j + 1 = Len(uiq)
    BY <2>1
  <2>4. (OpenAt(j))' => OpenAt(j + 1)
    BY <1>3, <2>3
  <2> QED BY <2>2, <2>3, <2>4
<1>7. (EndsOpen)' => EndsOpen
  BY <1>6 DEF EndsOpen
<1>8. cliOut' # <<>> => (Fits(OpenAt(Len(uiq)), cliOut))'
  BY <1>4, <1>6 DEF TextFits
<1> QED BY <1>5, <1>7, <1>8 DEF TextFits

(* The console, the flag, the tokens and the panes after a text: the last  *)
(* stop is shown, the question is seen, and the list is refreshed or a     *)
(* refresh stays owed.                                                     *)
LEMMA HandleOutputPatient == ASSUME DlvTypes, Patient, HandleOutput PROVE Patient'
<1> USE DEF server, client, term, rest
<1>1. PICK m : m = Head(uiq)
  OBVIOUS
<1>2. PICK u : u = PushRaw(lineBuf, m)
  OBVIOUS
<1> DEFINE asks   == ~u.prompt /\ (u.ask \/ confirming)
           halted == u.stop # 0 /\ u.exit = 0
           shows  == halted /\ suppress = 0 /\ navs = 0
<1>3. ui = "free" /\ uiq # <<>> /\ uiq' = Tail(uiq)
      /\ UNCHANGED <<target, runner, waiting, stops, bps, job, cli, cliIn, halfTyped, cliOut,
                     ui, list, bound>>
  BY DEF HandleOutput
<1>4. /\ lineBuf' = u.buf
      /\ confirming' = asks
      /\ refresh' = (refresh \/ (u.bpset /\ ~asks) \/ (u.prompt /\ bpDeferred))
      /\ bpDeferred' = (~u.prompt /\ (bpDeferred \/ (u.bpset /\ asks)))
  BY <1>1, <1>2 DEF HandleOutput
<1>5. /\ suppress' = IF halted /\ suppress > 0 THEN suppress - 1 ELSE suppress
      /\ navs' = IF halted /\ suppress = 0 /\ navs > 0 THEN navs - 1
                 ELSE IF u.prompt /\ u.stop = 0 /\ u.exit = 0 THEN 0 ELSE navs
      /\ shown' = IF u.exit # 0 THEN u.exit
                  ELSE IF shows /\ u.stop # Frame THEN u.stop ELSE shown
      /\ running' = (running /\ u.stop = 0 /\ u.exit = 0)
      /\ lost' = IF u.garbled /\ halfTyped THEN TRUE
                 ELSE IF shown' # shown /\ shown' = stops THEN FALSE ELSE lost
  BY <1>1, <1>2 DEF HandleOutput
<1>6. /\ m # <<>> /\ m \in Seq(RealText) /\ m = uiq[1]
      /\ u.buf \in {"none", "text"} /\ (u.buf = "text" => Open(m))
      /\ u.prompt \in BOOLEAN /\ u.ask \in BOOLEAN /\ u.garbled \in BOOLEAN /\ u.bpset \in BOOLEAN
      /\ u.stop \in 0 .. MaxStops + 1 /\ u.exit \in 0 .. MaxStops + 1
      /\ u.garbled => halfTyped
  BY <1>1, <1>2, <1>3, TextIsRead
<1>7. /\ u.stop # 0 => \E x \in Range(m) : x.k = "stop" /\ x.n = u.stop
      /\ u.exit # 0 => \E x \in Range(m) : x.k = "exit" /\ x.n = u.exit
      /\ u.prompt => \E x \in Range(m) : x.k \in {"line", "prompt"}
      /\ u.ask <=> \E x \in Range(m) : x.k = "ask"
      /\ u.bpset => \E x \in Range(m) : x.k = "bpset"
  BY <1>1, <1>2, <1>3, TextIsRead
<1>8. \A x \in Range(m) : /\ x.k = "stop" => u.garbled \/ u.stop # 0
                          /\ x.k = "exit" => u.garbled \/ u.exit # 0
                          /\ x.k = "bpset" => u.bpset
                          /\ x.k = "prompt" => u.prompt
  BY <1>1, <1>2, <1>3, TextIsRead
<1>9. running \in BOOLEAN /\ confirming \in BOOLEAN /\ refresh \in BOOLEAN /\ bpDeferred \in BOOLEAN
      /\ lost \in BOOLEAN /\ suppress \in Nat /\ navs \in Nat
  BY DEF DlvTypes, FlagTypes, CountTypes
<1>10. Stream = Stream' \cup Range(m) /\ Held' = Held
  BY <1>1, <1>3, StreamTakes, HeldSame
<1>11. /\ \A x : x \in Stream <=> x \in Stream' \/ x \in Range(m)
       /\ \A kinds : (Coming(kinds))' <=> \E x \in Stream' : x.k \in kinds
       /\ AtServer' = AtServer
  BY <1>3, <1>10 DEF Coming, AtServer
<1>12. \A kinds : (Coming(kinds))' => Coming(kinds)
  BY <1>11 DEF Coming
<1>13. /\ u.ask => cli = "asking"
       /\ u.stop # 0 \/ u.exit # 0 \/ u.bpset \/ u.prompt =>
            ~AtServer /\ cliIn = <<>> /\ cli = "prompt"
  BY <1>7, <1>11 DEF Coming, Patient, TextSays
<1>14. /\ u.stop # 0 /\ u.stop # Frame => u.stop = stops
       /\ u.exit # 0 => u.exit = stops /\ target = "exited"
  BY <1>7, <1>11 DEF Patient, TextSays
<1>15. TextFits'
  BY <1>3, <1>4, <1>6, TextFitsTaken DEF Patient
<1>16. OneResume'
  <2>1. job.pc # "none" \/ AtServer => ~asks
    <3>1. job.pc # "none" => cli # "asking" /\ ~confirming
      BY DEF Patient, OneResume
    <3>2. AtServer => job.pc = "sent" \/ cli = "inServer"
      BY DEF Patient, OneResume, AtServer, DlvTypes, ServerTypes
    <3>3. AtServer => ~confirming
      BY DEF Patient, OneResume
    <3> QED BY <1>13, <3>1, <3>2, <3>3
  <2> QED BY <1>3, <1>4, <1>11, <2>1 DEF Patient, OneResume
<1>17. LinesWait'
  <2>1. cliIn # <<>> => ~u.prompt /\ ~u.bpset /\ u.stop = 0 /\ u.exit = 0
    BY <1>13
  <2>2. cliIn # <<>> => refresh' = refresh /\ (lost => lost')
    BY <1>4, <1>5, <1>9, <2>1
  <2>3. Stream' # {} => Stream # {}
    BY <1>10
  <2> QED BY <1>3, <1>11, <2>2, <2>3 DEF Patient, LinesWait
<1>18. TextSays'
  BY <1>3, <1>10, <1>11, <1>12 DEF Patient, TextSays, Outcome, IsFrame
<1>19. ShownOrComing'
  <2> SUFFICES ASSUME ~AtServer, ~lost', ~(cliIn # <<>> /\ Head(cliIn) = "continue")
               PROVE  (shown' = stops /\ ~running') \/ \E x \in Stream' \cup Held : Outcome(x)
    BY <1>3, <1>10, <1>11 DEF ShownOrComing, Outcome
  <2>1. CASE shown' # shown /\ shown' = stops
    BY <1>5, <2>1
  <2>2. CASE ~(shown' # shown /\ shown' = stops)
    <3>1. ~lost /\ ~u.garbled
      BY <1>5, <1>6, <2>2
    <3>2. CASE shown = stops /\ ~running
      BY <1>5, <1>14, <3>2
    <3>3. ASSUME NEW x \in Stream \cup Held, Outcome(x), x \in Range(m)
          PROVE  shown' = stops /\ ~running'
      <4>1. CASE x.k = "exit"
        <5>1. u.exit # 0
          BY <1>8, <3>1, <3>3, <4>1
        <5> QED BY <1>5, <1>14, <5>1
      <4>2. CASE x.k = "stop"
        <5>1. u.stop # 0 /\ target = "stopped"
          BY <1>8, <3>1, <3>3, <4>2 DEF Patient, TextSays, Outcome
        <5>2. u.exit = 0
          BY <1>14, <5>1
        <5>3. \A y \in Stream : ~IsFrame(y)
          BY <3>3 DEF Patient, TextSays, Outcome, IsFrame
        <5>4. u.stop # Frame
          BY <1>7, <1>11, <5>1, <5>3 DEF IsFrame
        <5>5. suppress = 0 /\ navs = 0
          <6>1. cliIn = <<>>
            BY <1>13, <5>1
          <6>2. cliIn # <<"up">>
            BY <6>1
          <6> QED BY <3>1, <5>1, <5>3, <6>2 DEF Patient, TokensSpent
        <5> QED BY <1>5, <1>14, <5>1, <5>2, <5>4, <5>5
      <4> QED BY <3>3, <4>1, <4>2 DEF Outcome
    <3> QED BY <1>11, <3>1, <3>2, <3>3 DEF Patient, ShownOrComing
  <2> QED BY <2>1, <2>2
<1>20. TokensSpent'
  <2> SUFFICES ASSUME ~lost', target # "exited"
               PROVE  /\ suppress' = 0
                      /\ navs' # 0 => /\ navs' = 1
                                      /\ \/ cliIn = <<"up">> /\ cli = "prompt"
                                         \/ \E x \in Stream' : IsFrame(x)
    BY <1>3 DEF TokensSpent, IsFrame
  <2>1. u.exit = 0 /\ ~u.garbled
    BY <1>5, <1>6, <1>14
  <2>2. CASE lost
    <3>1. shows
      BY <1>5, <2>1, <2>2
    <3> QED BY <1>5, <3>1
  <2>3. CASE ~lost
    <3>1. /\ suppress = 0
          /\ navs # 0 => navs = 1 /\ ((cliIn = <<"up">> /\ cli = "prompt") \/ \E x \in Stream : IsFrame(x))
      BY <2>3 DEF Patient, TokensSpent
    <3>2. suppress' = 0
      BY <1>5, <3>1
    <3>3. ASSUME navs' # 0 PROVE navs # 0 /\ navs' = navs /\ u.stop = 0
      <4>1. CASE navs = 0
        BY <1>5, <3>1, <3>3, <4>1
      <4>2. CASE navs = 1
        BY <1>5, <2>1, <3>1, <3>3, <4>2
      <4> QED BY <3>1, <4>1, <4>2
    <3>4. ASSUME NEW x \in Stream, IsFrame(x), u.stop = 0 PROVE x \in Stream'
      BY <1>8, <1>11, <2>1, <3>4 DEF IsFrame
    <3> QED BY <3>1, <3>2, <3>3, <3>4
  <2> QED BY <1>9, <2>2, <2>3
<1>21. QuestionSeen'
  <2>1. ASSUME asks, cli # "asking" PROVE \E x \in Stream' : x.k \in {"prompt"}
    <3>1. confirming /\ ~u.prompt
      BY <1>13, <2>1
    <3>2. PICK x \in Stream : x.k = "prompt"
      BY <2>1, <3>1 DEF Patient, QuestionSeen, Coming
    <3> QED BY <1>8, <1>11, <3>1, <3>2
  <2>2. ASSUME ~asks, cli = "asking" PROVE \E x \in Stream' : x.k \in {"ask"}
    <3>1. ~u.prompt /\ ~u.ask /\ ~confirming
      BY <1>13, <2>2
    <3>2. PICK x \in Stream : x.k = "ask"
      BY <2>2, <3>1 DEF Patient, QuestionSeen, Coming
    <3> QED BY <1>7, <1>11, <3>1, <3>2
  <2> QED BY <1>3, <1>4, <1>11, <2>1, <2>2 DEF QuestionSeen
<1>22. ListOwed'
  <2> SUFFICES ASSUME list # bps
               PROVE  \/ refresh'
                      \/ (Coming({"bpset"}))'
                      \/ /\ bpDeferred'
                         /\ \/ cli = "asking" \/ (Coming({"prompt"}))'
                            \/ cliIn # <<>> /\ Head(cliIn) \in {"break", "clear"}
    BY <1>3 DEF ListOwed
  <2>1. Coming({"prompt"}) => u.prompt \/ (Coming({"prompt"}))'
    BY <1>8, <1>11 DEF Coming
  <2>2. CASE refresh
    BY <1>4, <2>2
  <2>3. CASE Coming({"bpset"})
    <3>1. PICK x \in Stream : x.k = "bpset"
      BY <2>3 DEF Coming
    <3>2. CASE x \in Range(m) /\ ~asks
      BY <1>4, <1>8, <3>1, <3>2
    <3>3. CASE x \in Range(m) /\ asks
      <4>1. u.bpset /\ cli = "prompt" /\ bpDeferred' /\ ~u.prompt /\ confirming
        BY <1>4, <1>8, <1>13, <3>1, <3>3
      <4>2. Coming({"prompt"})
        BY <4>1 DEF Patient, QuestionSeen
      <4> QED BY <2>1, <4>1, <4>2
    <3>4. CASE x \in Stream'
      BY <1>11, <3>1, <3>4
    <3> QED BY <1>11, <3>1, <3>2, <3>3, <3>4
  <2>4. CASE /\ bpDeferred
             /\ \/ cli = "asking" \/ Coming({"prompt"})
                \/ cliIn # <<>> /\ Head(cliIn) \in {"break", "clear"}
    <3>1. CASE u.prompt
      BY <1>4, <2>4, <3>1
    <3>2. CASE ~u.prompt
      BY <1>4, <2>1, <2>4, <3>2
    <3> QED BY <3>1, <3>2
  <2> QED BY <1>3, <2>2, <2>3, <2>4 DEF Patient, ListOwed
<1> QED BY <1>15, <1>16, <1>17, <1>18, <1>19, <1>20, <1>21, <1>22 DEF Patient
---------------------------------------------------------------------------
(* Delve: every step of a patient user                                     *)

(* Haste is never taken back.                                              *)
LEMMA HasteStays == ASSUME DlvTypes, [DlvNext]_dlvVars, hasty' = 0 PROVE hasty = 0
<1>1. ASSUME NEW w, Acts(w) PROVE hasty = 0
  BY <1>1 DEF DlvTypes, CountTypes, Acts
<1>2. \/ UNCHANGED hasty
      \/ \E w : Acts(w)
  <2>1. CASE \E cmd \in Commands : Exec(cmd)
    BY <2>1 DEF Exec, Resumes
  <2>2. CASE \E line \in {"continue", "recalled", "break", "up", "y", "n"} : TypeLine(line)
    BY <2>2 DEF TypeLine
  <2>3. CASE TypeHalf \/ Enter \/ CtrlC \/ Toggle
    BY <2>3 DEF TypeHalf, Enter, CtrlC, Toggle, User, AtRest
  <2>4. CASE NoteStop \/ Done \/ ServeResume \/ ProgramStops \/ Halt
    BY <2>4 DEF NoteStop, Done, ServeResume, ProgramStops, Halt, Stops, rest
  <2>5. CASE CliReads \/ Flush \/ ServeBreak \/ RunRefresh \/ RefreshAfterStop \/ HandleOutput
    BY <2>5 DEF CliReads, Flush, ServeBreak, RunRefresh, RefreshAfterStop, HandleOutput, rest
  <2>6. CASE UNCHANGED dlvVars
    BY <2>6 DEF dlvVars, rest
  <2> QED BY <2>1, <2>2, <2>3, <2>4, <2>5, <2>6, DlvSteps
<1> QED BY <1>1, <1>2

LEMMA PatientNext ==
  ASSUME DlvTypes, Patient, [DlvNext]_dlvVars, hasty' = 0
  PROVE  Patient'
<1>1. CASE UNCHANGED dlvVars
  BY <1>1, PatientSame DEF dlvVars, server, client, term, texts, gate, breaks, pane, rest
<1>2. CASE ProgramStops
  BY <1>2, StopsPatient DEF ProgramStops
<1>3. CASE NoteStop \/ Done \/ ServeResume \/ Halt
  BY <1>3, NoteStopPatient, DonePatient, ServeResumePatient, HaltPatient
<1>4. CASE CliReads \/ Flush \/ ServeBreak \/ RunRefresh \/ RefreshAfterStop \/ HandleOutput
  BY <1>4, CliReadsPatient, FlushPatient, ServeBreakPatient, RefreshesPatient, HandleOutputPatient
<1>5. CASE TypeHalf \/ Enter \/ CtrlC \/ Toggle
  BY <1>5, TypeHalfPatient, EnterPatient, CtrlCPatient, TogglePatient
<1> QED BY <1>1, <1>2, <1>3, <1>4, <1>5, DlvSteps, ExecPatient, TypeLinePatient

LEMMA PatientAlways == DlvSpec => [](hasty = 0 => Patient)
<1>1. DlvInit => (hasty = 0 => Patient)
  BY InitPatient
<1>2. DlvTypes /\ (hasty = 0 => Patient) /\ [DlvNext]_dlvVars => (hasty = 0 => Patient)'
  BY HasteStays, PatientNext
<1> QED BY <1>1, <1>2, DlvTypesAlways, PTL DEF DlvSpec

(* A user who waits for the screen sees the last stop, and the flag down,  *)
(* once the program has stopped: whatever of the two clients' texts comes  *)
(* in whatever cut, however the resumes of keys, of typed lines and of     *)
(* refused breakpoints follow each other (Observe, applyConsoleUpdate,     *)
(* onGdbStopped, runRPCExec).                                              *)
THEOREM PatientUserSeesStop == DlvSpec => []StopIsShown
<1>1. DlvTypes /\ (hasty = 0 => Patient) => StopIsShown
  BY AtScreen DEF StopIsShown
<1> QED BY <1>1, DlvTypesAlways, PatientAlways, PTL

(* For such a user the panes show the breakpoint exactly if the server has *)
(* it, once all is read and no question is open: set at once or by the     *)
(* command line, refused, asked about or answered                          *)
(* (app/breakpoints.go, gdb_console.go).                                   *)
THEOREM BreaksAlwaysSettle == DlvSpec => []BreaksSettle
<1>1. DlvTypes /\ (hasty = 0 => Patient) => BreaksSettle
  BY AtScreen DEF BreaksSettle
<1> QED BY <1>1, DlvTypesAlways, PatientAlways, PTL
==============================================================================
