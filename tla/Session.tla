------------------------------ MODULE Session ------------------------------
(***************************************************************************)
(* A session from start to quit, and the next one: app/debug_session.go,   *)
(* the restoring and saving half of app/breakpoints.go with                *)
(* gdbforge/persist/, the quit gate of gdb/quit.go, and the sessions that  *)
(* InferiorTerminal starts.                                                *)
(*                                                                         *)
(* A breakpoint is a row at a location; the debugger holds rows, the panes *)
(* show those of a list that a refresh merges with them, and quitting      *)
(* writes the list to a file that the next start inserts.  A row the user  *)
(* disabled is deleted in the debugger and kept in the list                *)
(* (BreakpointList has the list in full; a refresh is one goroutine here,  *)
(* Breakpoints has them all).                                              *)
(***************************************************************************)
EXTENDS InferiorTerminal, Functions

CONSTANTS
    Loc,      \* locations of breakpoints
    Main,     \* where break main goes
    MaxActs,  \* bound: what the user does
    MaxRuns   \* bound: runs of gdbforge

ASSUME SessionAssumption == Main \in Loc /\ {MaxActs, MaxRuns} \subseteq Nat

VARIABLES
    phase,      \* "off", "up", "saving", "saved" (before the rename) or "ended"
    bound,      \* the locations the debugger takes
    dbg,        \* its rows
    list,       \* breakCtl.list
    snapshot,   \* breakCtl.snapshot, whole if snapshotSet
    dirty,      \* a change was announced and its refresh not begun
    fetched,    \* the goroutine of a refresh: what it read, or NotFetching
    confirming, \* QuitGate.confirming
    alive,      \* QuitGate.alive, and there is a program
    file,       \* .gdbforge/breakpoints.yaml
    tmp,        \* breakpoints.yaml.tmp
    behind,     \* auxiliary: the rows changed and no refresh is to come
    wanted,     \* auxiliary: where the list had rows when its session was torn down
    raced,      \* auxiliary: a refresh ran across a new session
    runs,
    acts

disk == <<file, tmp>>
gate == <<confirming, alive>>
rows == <<bound, dbg, list, snapshot, dirty, fetched>>
aux  == <<behind, wanted, raced>>
vars == <<terminal, phase, rows, gate, disk, aux, runs, acts>>

Row  == [en: BOOLEAN, cond: BOOLEAN]
Rows == UNION {[D -> Row] : D \in SUBSET Loc}
None == [l \in {} |-> [en |-> TRUE, cond |-> FALSE]]
Plain == [en |-> TRUE, cond |-> FALSE]

Doc         == [whole: BOOLEAN, rows: Rows]
Torn(rs)    == [whole |-> FALSE, rows |-> rs]
Whole(rs)   == [whole |-> TRUE, rows |-> rs]
NotFetching == [busy |-> FALSE, rows |-> None]

With(rs, l, r) == [k \in DOMAIN rs \cup {l} |-> IF k = l THEN r ELSE rs[k]]
Without(rs, l) == Restrict(rs, DOMAIN rs \ {l})

TypeOK ==
    /\ TerminalTypes
    /\ phase \in {"off", "up", "saving", "saved", "ended"}
    /\ bound \subseteq Loc /\ {dbg, list} \subseteq Rows /\ wanted \subseteq Loc
    /\ {dirty, confirming, alive, behind, raced} \subseteq BOOLEAN
    /\ fetched \in [busy: BOOLEAN, rows: Rows]
    /\ {snapshot, file, tmp} \subseteq Doc
    /\ runs \in 0 .. MaxRuns /\ acts \in 0 .. MaxActs
---------------------------------------------------------------------------
(* The debugger's breakpoints, MergeFromGDB and restoreSaved *)

Taken(rs, places) == [l \in DOMAIN rs \cup places |-> IF l \in DOMAIN rs THEN rs[l] ELSE Plain]

Merge(ls, live) ==
    [l \in DOMAIN live \cup {k \in DOMAIN ls : ~ls[k].en} |->
        IF l \in DOMAIN live THEN [live[l] EXCEPT !.en = TRUE] ELSE ls[l]]

(* A mutation: the flags are applied before the rows are inserted.         *)
Restored_FlagsFirst(saved, there, places, answered) ==
    LET inserted == Taken(there, DOMAIN saved \cap places)
        live     == [l \in DOMAIN inserted |->
                        IF l \in DOMAIN saved
                        THEN [en   |-> inserted[l].en /\ (l \in DOMAIN there => saved[l].en),
                              cond |-> inserted[l].cond \/ saved[l].cond]
                        ELSE inserted[l]]
    IN  [dbg |-> IF answered THEN live ELSE inserted,
         list |-> Merge(None, IF answered THEN inserted ELSE saved)]

(* The saved rows are inserted, and once a query has brought their numbers *)
(* disabled and given their condition.  Without an answer the list shows   *)
(* the saved rows.                                                         *)
Restored(saved, there, places, answered) ==
    LET inserted == Taken(there, DOMAIN saved \cap places)
        live     == [l \in DOMAIN inserted |->
                        IF l \in DOMAIN saved
                        THEN [en   |-> inserted[l].en /\ saved[l].en,
                              cond |-> inserted[l].cond \/ saved[l].cond]
                        ELSE inserted[l]]
    IN  [dbg |-> IF answered THEN live ELSE inserted,
         list |-> Merge(None, IF answered THEN inserted ELSE saved)]

(* DebugSession.init: break main, unless there are saved rows or an init   *)
(* script.  A file that cannot be read is as good as none.                 *)
Start ==
    /\ phase = "off" /\ runs < MaxRuns /\ runs' = runs + 1 /\ phase' = "up"
    /\ UNCHANGED <<terminal, disk, fetched, gate, wanted, raced, acts>>
    /\ bound' \in SUBSET Loc
    /\ \E script \in SUBSET bound', scripted, answered \in BOOLEAN :
         LET saved == IF file.whole THEN file.rows ELSE None
             there == Taken(None, script)
             main  == IF scripted THEN {} ELSE {Main} \cap bound'
             r     == Restored(saved, there, bound', answered)
         IN  /\ script # {} => scripted /\ kind = "gdb"
             /\ IF DOMAIN saved = {}
                THEN /\ dbg' = Taken(there, main) /\ list' = None /\ snapshot' = Torn(None)
                     /\ dirty' = (kind = "gdb" /\ main # {}) /\ behind' = ~dirty'
                ELSE /\ dbg' = r.dbg /\ list' = r.list /\ snapshot' = Whole(r.list)
                     /\ dirty' = answered /\ behind' = ~answered
---------------------------------------------------------------------------
(* The user's breakpoints *)

Up   == phase = "up" /\ Responsive
Acts == Up /\ acts < MaxActs /\ acts' = acts + 1 /\ UNCHANGED <<phase, disk, runs>>

(* onChangedMsg: while the gate is open nothing is refreshed, and nothing  *)
(* takes GDB's deferred refresh up again.                                  *)
Announce ==
    IF confirming THEN behind' = TRUE /\ UNCHANGED dirty
                  ELSE dirty' = TRUE /\ UNCHANGED behind

Edited(ls) ==
    /\ list' = ls /\ snapshot' = Whole(ls)
    /\ UNCHANGED <<terminal, bound, fetched, gate>> /\ wanted' = {} /\ UNCHANGED raced

(* Space, or one typed at the prompt.                                      *)
Toggle(l) ==
    /\ Acts /\ Announce
    /\ IF l \in DOMAIN list /\ list[l].en
       THEN dbg' = Without(dbg, l) /\ Edited(Without(list, l))
       ELSE /\ dbg' = IF session = "none" THEN dbg ELSE Taken(dbg, {l} \cap bound)
            /\ Edited(With(list, l, Plain))

(* e: a row with no number does not get its condition back.                *)
ToggleEnable(l) ==
    /\ Acts /\ Announce /\ l \in DOMAIN list
    /\ IF list[l].en
       THEN dbg' = Without(dbg, l) /\ Edited(With(list, l, [list[l] EXCEPT !.en = FALSE]))
       ELSE /\ dbg' = IF session = "none" THEN dbg ELSE Taken(dbg, {l} \cap bound)
            /\ Edited(With(list, l, [list[l] EXCEPT !.en = TRUE]))

(* `condition' typed at the prompt: of GDB's announcements those of a      *)
(* modified breakpoint are not listened to, and Delve makes none.          *)
Condition(l) ==
    /\ Acts /\ l \in DOMAIN dbg /\ dbg' = [dbg EXCEPT ![l].cond = TRUE]
    /\ behind' = TRUE
    /\ UNCHANGED dirty /\ UNCHANGED <<terminal, bound, list, snapshot, fetched, gate>>
    /\ wanted' = {} /\ UNCHANGED raced

(* runRefresh in its goroutine.                                            *)
Fetch ==
    /\ phase = "up" /\ dirty /\ ~fetched.busy /\ dirty' = FALSE
    /\ \/ /\ session \in {"local", "connect", "attached"}
          /\ fetched' = [busy |-> TRUE, rows |-> dbg] /\ UNCHANGED behind
       \/ behind' = TRUE /\ UNCHANGED fetched
    /\ UNCHANGED <<terminal, phase, bound, dbg, list, snapshot, gate, disk>>
    /\ UNCHANGED <<wanted, raced, runs, acts>>

MergeFetched ==
    /\ phase = "up" /\ fetched.busy /\ fetched' = NotFetching
    /\ list' = Merge(list, fetched.rows) /\ snapshot' = Whole(list')
    /\ behind' = (behind /\ fetched.rows # dbg)
    /\ UNCHANGED <<terminal, phase, bound, dbg, dirty, gate, disk>>
    /\ UNCHANGED <<wanted, raced, runs, acts>>
---------------------------------------------------------------------------
(* The program, and the quit gate *)

Program ==
    /\ UNCHANGED <<terminal, bound, dbg, snapshot, fetched, wanted, raced>>

Run == Acts /\ ~alive /\ alive' = TRUE /\ Program /\ UNCHANGED <<confirming, list, dirty, behind>>

(* A stop refreshes whatever the gate says.                                *)
Stop == Acts /\ alive /\ dirty' = TRUE /\ Program /\ UNCHANGED <<gate, list, behind>>

(* The panes and the list are emptied, the snapshot is not.                *)
Exit ==
    /\ Acts /\ alive /\ alive' = FALSE /\ confirming' = FALSE /\ list' = None
    /\ Program /\ UNCHANGED <<dirty, behind>>

(* Close: the windows, then the list, or the snapshot of a list that was   *)
(* emptied.                                                                *)
AllClosed == [w \in Windows |->
    IF w = hold.pid THEN Killed(wins, w)[w] ELSE TermKilled(wins, w)[w]]

(* A mutation: the snapshot is not used.                                   *)
saveOnQuit_ListOnly ==
    IF snapshot.whole THEN tmp' = Torn(list) /\ phase' = "saving"
                      ELSE phase' = "ended" /\ UNCHANGED tmp

saveOnQuit ==
    IF snapshot.whole
    THEN tmp' = Torn(IF list = None THEN snapshot.rows ELSE list) /\ phase' = "saving"
    ELSE phase' = "ended" /\ UNCHANGED tmp

(* The process is gone, and the debugger with it.                          *)
Gone ==
    /\ phase' = "off" /\ TerminalEnds /\ UNCHANGED <<kind, detached, runs, acts>>
    /\ bound' = {} /\ dbg' = None /\ list' = None /\ snapshot' = Torn(None)
    /\ dirty' = FALSE /\ fetched' = NotFetching /\ confirming' = FALSE /\ alive' = FALSE
    /\ behind' = FALSE /\ wanted' = {} /\ raced' = FALSE

Close ==
    /\ saveOnQuit /\ wins' = AllClosed /\ hold' = NoHold /\ opening' = NoOpening
    /\ UNCHANGED <<kind, detached, files, gaveUp, io, dlvSide, rows, alive, file, aux, runs>>

Quit == Up /\ Close /\ UNCHANGED <<confirming, acts>>

(* Ctrl-D under GDB: the gate opens if there is a program, and GDB asks.   *)
(* Nothing reads the answer: n leaves the gate open.                       *)
CtrlD ==
    /\ Up /\ kind = "gdb" /\ acts < MaxActs /\ acts' = acts + 1
    /\ confirming' = (confirming \/ alive)
    /\ \/ Close
       \/ alive /\ UNCHANGED <<terminal, phase, rows, alive, disk, aux, runs>>

(* writeYAMLAtomic, and the end.                                           *)
Write ==
    /\ phase = "saving" /\ phase' = "saved" /\ tmp' = Whole(tmp.rows)
    /\ UNCHANGED <<terminal, rows, gate, file, aux, runs, acts>>

Rename == phase = "saved" /\ file' = tmp /\ tmp' = Torn(None) /\ Gone

End == phase = "ended" /\ Gone /\ UNCHANGED disk

(* Of a temporary file left behind nothing is read.                        *)
Crash == phase # "off" /\ Gone /\ UNCHANGED file /\ tmp' = Torn(None)
---------------------------------------------------------------------------
(* The terminal and the sessions, with what they do to the breakpoints *)

Steady == UNCHANGED <<rows, gate, behind, wanted, raced>>

Helpers ==
    /\ phase = "up" /\ Steady /\ UNCHANGED <<phase, disk, runs, acts>>
    /\ \E w \in Windows : LetGo(w) \/ WritePid(w) \/ WritePath(w) \/ HelperFails(w)

Opens ==
    /\ phase = "up" /\ Steady /\ UNCHANGED <<phase, disk, runs, acts>>
    /\ PollPath \/ PollPid \/ Deadline

SetsTTY ==
    /\ Acts /\ Steady
    /\ \/ OpenExternalTTY \/ SetInternal \/ SetPath \/ startDlvExternal
       \/ wireSerialConsole \/ restoreInferiorIO
       \/ \E w \in Windows : UserClosesWindow(w)

PortIsSilent == Up /\ NotListening /\ Steady /\ UNCHANGED <<phase, disk, runs, acts>>

(* A session is torn down with its breakpoints.                            *)
TornDown ==
    /\ dbg' = None /\ wanted' = DOMAIN list /\ raced' = (dirty \/ fetched.busy)
    /\ behind' = TRUE /\ UNCHANGED <<bound, list, snapshot, dirty, fetched, gate>>

Connects == Up /\ ConnectDlv /\ TornDown /\ UNCHANGED <<phase, disk, runs, acts>>
Restarts == Acts /\ setDlvInferiorTTY /\ IF session = "connect" THEN TornDown ELSE Steady

Attaches ==
    /\ phase = "up" /\ \E to \in {"attached", "local", "none"} : Attach(to)
    /\ Steady /\ UNCHANGED <<phase, disk, runs, acts>>

(* A mutation: the rows of the list are forgotten.                         *)
reapplyAfterDlvConnect_MainOnly ==
    /\ dbg' = Taken(dbg, {Main} \cap bound) /\ dirty' = TRUE

(* break main and a plain breakpoint for every row, disabled or not.       *)
reapplyAfterDlvConnect ==
    /\ dbg' = Taken(dbg, ({Main} \cup DOMAIN list) \cap bound) /\ dirty' = TRUE

Reapplies ==
    /\ phase = "up" /\ session = "attached" /\ session' = "connect"
    /\ reapplyAfterDlvConnect
    /\ UNCHANGED <<kind, detached, window, io, ports, phase, bound, list, snapshot>>
    /\ UNCHANGED <<fetched, gate, disk, aux, runs, acts>>

Init ==
    /\ kind \in {"gdb", "dlv"} /\ detached \in BOOLEAN /\ TerminalStarts
    /\ phase = "off" /\ bound = {} /\ dbg = None /\ list = None /\ snapshot = Torn(None)
    /\ dirty = FALSE /\ fetched = NotFetching /\ confirming = FALSE /\ alive = FALSE
    /\ file = Whole(None) /\ tmp = Torn(None)
    /\ behind = FALSE /\ wanted = {} /\ raced = FALSE /\ runs = 0 /\ acts = 0

Next ==
    \/ Start \/ Fetch \/ MergeFetched \/ Run \/ Stop \/ Exit
    \/ \E l \in Loc : Toggle(l) \/ ToggleEnable(l) \/ Condition(l)
    \/ Quit \/ CtrlD \/ Write \/ Rename \/ End \/ Crash
    \/ Helpers \/ Opens \/ SetsTTY \/ PortIsSilent
    \/ Connects \/ Restarts \/ Attaches \/ Reapplies

Spec == Init /\ [][Next]_vars
---------------------------------------------------------------------------
(* A quit that finds nothing pending writes the breakpoints the debugger   *)
(* has, with their conditions, and beside them only rows the user had      *)
(* disabled -- also after the program's exit has emptied the list          *)
(* (breakpoints.go:37, :616).                                              *)
FileFollowsDebugger ==
    phase = "saved" /\ ~dirty /\ ~fetched.busy /\ ~behind =>
        \A l \in Loc : \/ /\ l \in DOMAIN dbg /\ l \in DOMAIN tmp.rows
                          /\ tmp.rows[l].cond = dbg[l].cond
                       \/ l \notin DOMAIN dbg /\ (l \in DOMAIN tmp.rows => ~tmp.rows[l].en)

(* A start whose queries are answered gives the debugger every saved       *)
(* breakpoint it takes, disabled if it was and with its condition          *)
(* (breakpoints.go:131).                                                   *)
SavedIsRestored ==
    [][phase = "off" /\ phase' = "up" /\ file.whole /\ ~behind' =>
         \A l \in DOMAIN file.rows \cap bound' :
            /\ l \in DOMAIN dbg'
            /\ dbg'[l].en => file.rows[l].en
            /\ file.rows[l].cond => dbg'[l].cond]_vars

(* The file is never half written, whenever gdbforge dies                  *)
(* (yaml_atomic.go:11).                                                    *)
FileIsWhole == file.whole

(* Connecting to another Delve server keeps the breakpoints of the list,   *)
(* where the server takes them, unless a refresh ran across the change     *)
(* (breakpoints.go:593).                                                   *)
ConnectKeepsBreakpoints ==
    session = "connect" /\ ~raced => wanted \cap bound \subseteq DOMAIN dbg
===========================================================================
