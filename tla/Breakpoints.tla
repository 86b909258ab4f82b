---------------------------- MODULE Breakpoints ----------------------------
(***************************************************************************)
(* breakCtl, internal/app/breakpoints.go: the shared breakpoint list, the  *)
(* user interface thread that edits it and sends commands to GDB, and the  *)
(* background goroutines that query -break-list and merge the reply.       *)
(*                                                                         *)
(* Threads: the UI thread (ui), the coalesced refresh (the goroutine of    *)
(* coalesce.Schedule, refresher Coalesced), and one goroutine per *stopped *)
(* (refreshers Stoppers, app/stopped.go).  Nothing locks the list: a merge *)
(* reads it in one step and writes it back in another.                     *)
(*                                                                         *)
(* GDB is the breakpoint table its console and its MI channel act on.      *)
(* MI commands and -break-list queries share one locked, ordered channel,  *)
(* so a command takes effect at its send and a query is one snapshot.      *)
(*                                                                         *)
(* Backend: GDB (BreakRefreshImmediate is true).                           *)
(***************************************************************************)
EXTENDS BreakpointList

CONSTANTS
    Coalesced,  \* the goroutine of the coalesced refresh
    Stoppers,   \* the goroutines started by *stopped
    MaxOps,     \* bound: operations of the user, in the panes and the console
    MaxStops,   \* bound: *stopped records handled
    MaxExits,   \* bound: exits of the inferior handled
    MaxFails    \* bound: queries that time out

ASSUME BreakpointsAssumption ==
    /\ Coalesced \notin Stoppers
    /\ {MaxOps, MaxStops, MaxExits, MaxFails} \subseteq Nat

Refreshers == {Coalesced} \cup Stoppers
Tries      == 6             \* refreshAfterStop: attempts

VARIABLES
    list,       \* breakCtl.list
    shown,      \* the rows the panes and gutters paint
    snapshot,   \* breakCtl.snapshot, what quit saves if the list is empty
    ui,         \* the UI thread: what is left of the handler it runs
    job,        \* job[r]: the refresh goroutine r
    again,      \* CoalesceRunner: a trailing run is asked for
    notes,      \* =breakpoint-created/deleted not yet handled by the UI
    gdb,        \* the breakpoints GDB has
    lastNum,    \* the last number GDB gave
    spent       \* how much of each bound is used

vars == <<list, shown, snapshot, ui, job, again, notes, gdb, lastNum, spent>>

views == <<list, shown, snapshot>>
table == <<gdb, lastNum>>
---------------------------------------------------------------------------
idle    == [pc |-> "idle", op |-> "none", cmd |-> Nothing, cond |-> FALSE]
off     == [pc |-> "off", tries |-> 0, items |-> {}, seen |-> <<>>]

Job == [pc: {"off", "fetch", "got", "merge", "sync", "over"},
        tries: 0 .. Tries, items: SUBSET Row, seen: Seq(Row)]

TypeOK ==
    /\ list \in Seq(Row) /\ shown \in Seq(Row) /\ snapshot \in Seq(Row)
    /\ ui \in [pc: {"idle", "send", "cond"}, cmd: Intent, cond: BOOLEAN,
               op: {"none", "toggle", "delete", "space"}]
    /\ job \in [Refreshers -> Job]
    /\ again \in BOOLEAN /\ notes \in BOOLEAN
    /\ gdb \subseteq Row /\ lastNum \in Nat
    /\ spent \in [{"op", "stop", "exit", "fail"} -> Nat]
    /\ \A g \in gdb : g.num \in 1 .. lastNum
    /\ \A i \in DOMAIN list : ~list[i].en => list[i].num = 0

Init ==
    /\ list = <<>> /\ shown = <<>> /\ snapshot = <<>>
    /\ ui = idle
    /\ job = [r \in Refreshers |-> off]
    /\ again = FALSE /\ notes = FALSE
    /\ gdb = {} /\ lastNum = 0
    /\ spent = [op |-> 0, stop |-> 0, exit |-> 0, fail |-> 0]

Spend(k, bound) == spent[k] < bound /\ spent' = [spent EXCEPT ![k] = @ + 1]
---------------------------------------------------------------------------
(* GDB's table under the commands of backend/break_cmds.go *)

LocAt(a) == IF \E l \in Loc : AddrOf[l] = a
            THEN CHOOSE l \in Loc : AddrOf[l] = a ELSE NoLoc

Insert(l, a) ==
    /\ gdb' = gdb \cup {[loc |-> l, addr |-> a, num |-> lastNum + 1,
                         en |-> TRUE, cond |-> FALSE]}
    /\ lastNum' = lastNum + 1

Drop(rows) == gdb' = gdb \ rows /\ UNCHANGED lastNum

(* "break ?" is what BreakInsertAt makes of no location: GDB rejects it. *)
Execute(cmd) ==
    CASE cmd.kind = "insert" /\ cmd.addr # NoAddr -> Insert(LocAt(cmd.addr), cmd.addr)
      [] cmd.kind = "insert" /\ cmd.addr = NoAddr /\ cmd.loc # NoLoc ->
            Insert(cmd.loc, AddrOf[cmd.loc])
      [] cmd.kind = "delete" -> Drop({g \in gdb : g.num = cmd.num})
      [] cmd.kind = "clear" /\ cmd.addr # NoAddr -> Drop({g \in gdb : g.addr = cmd.addr})
      [] cmd.kind = "clear" /\ cmd.addr = NoAddr -> Drop({g \in gdb : g.loc = cmd.loc})
      [] OTHER -> UNCHANGED table

SetCondition(n) ==
    gdb' = {IF g.num = n THEN [g EXCEPT !.cond = TRUE] ELSE g : g \in gdb}
---------------------------------------------------------------------------
(* The coalesced refresh *)

(* Schedule: run if idle, else ask the running one for a trailing run. *)
Schedule ==
    IF job[Coalesced].pc = "off"
    THEN job' = [job EXCEPT ![Coalesced].pc = "fetch"] /\ UNCHANGED again
    ELSE again' = TRUE /\ UNCHANGED job

(* The end of a refresh goroutine: one of a stop is over, the coalesced one *)
(* may have to run again.                                                    *)
(* The last reply it got stays in items.                                     *)
Finish(r) ==
    /\ job' = [job EXCEPT ![r].pc = IF r # Coalesced THEN "over"
                                    ELSE IF again THEN "fetch" ELSE "off",
                          ![r].tries = 0]
    /\ again' = (again /\ r # Coalesced)

Fetch(r) ==
    /\ job[r].pc = "fetch"
    /\ job' = [job EXCEPT ![r].pc = "got", ![r].items = gdb]
    /\ UNCHANGED <<views, ui, again, notes, table, spent>>

(* The query times out: refresh gives up, refreshAfterStop retries. *)
FetchFail(r) ==
    /\ job[r].pc = "fetch"
    /\ Spend("fail", MaxFails)
    /\ IF r \in Stoppers /\ job[r].tries + 1 < Tries
       THEN job' = [job EXCEPT ![r].tries = @ + 1] /\ UNCHANGED again
       ELSE Finish(r)
    /\ UNCHANGED <<views, ui, notes, table>>

(* MergeFromGDB reads the rows ... *)
MergeRead(r) ==
    /\ job[r].pc = "got"
    /\ job' = [job EXCEPT ![r].pc = "merge", ![r].seen = list]
    /\ UNCHANGED <<views, ui, again, notes, table, spent>>

(* ... and writes the merged ones back. *)
MergeWrite(r) ==
    /\ job[r].pc = "merge"
    /\ list' = MergeFromGDB(job[r].seen, job[r].items)
    /\ job' = [job EXCEPT ![r].pc = "sync", ![r].seen = <<>>]
    /\ UNCHANGED <<shown, snapshot, ui, again, notes, table, spent>>

syncViews(rows) == shown' = rows /\ snapshot' = rows

SyncViews(r) ==
    /\ job[r].pc = "sync"
    /\ syncViews(list)
    /\ Finish(r)
    /\ UNCHANGED <<list, ui, notes, table, spent>>
---------------------------------------------------------------------------
(* The UI thread *)

(* A handler edits the list, paints it, and goes on to send the intent. *)
Edit(op, done, cond) ==
    /\ ui.pc = "idle"
    /\ done.intent # Nothing
    /\ Spend("op", MaxOps)
    /\ list' = done.items
    /\ syncViews(done.items)
    /\ ui' = [pc |-> "send", op |-> op, cmd |-> done.intent, cond |-> cond]
    /\ UNCHANGED <<job, again, notes, table>>

(* 'e' in the Breakpoints pane *)
Toggle(i) == Edit("toggle", ToggleEnableAt(list, i), ~list[i].en /\ list[i].cond)

(* 'e' in a Code pane *)
ToggleCode(l) ==
    LET i == IndexOfFileLine(list, l)
    IN  Edit("toggle", ToggleEnableAtFileLine(list, l, HasEnabledAt(shown, l)),
             i > 0 /\ ~list[i].en /\ list[i].cond)

(* 'e' in the Assembly pane *)
ToggleAsmEnable(a) ==
    LET i == IndexOfAddr(list, a)
    IN  Edit("toggle",
             ToggleEnableAtAddr(list, a, \E j \in DOMAIN shown : shown[j].en /\ shown[j].addr = a),
             i > 0 /\ ~list[i].en /\ list[i].cond)

(* 'd' in the Breakpoints pane *)
Delete(i) == Edit("delete", DeleteAt(list, i), FALSE)

(* Space in a Code pane, and in the Assembly pane *)
CodeBreakToggle(l) == Edit("space", ToggleInsertClear(list, l), FALSE)
ToggleAsm(a)       == Edit("space", ToggleInsertClearAddr(list, a), FALSE)

(* applyBreakIntent: send, then publish BreakpointsChangedMsg.  GDB reports *)
(* what CLI commands (break, clear) change, not what -break-delete does.   *)
UISend ==
    /\ ui.pc = "send"
    /\ Execute(ui.cmd)
    /\ Schedule
    /\ notes' = (notes \/ (gdb' # gdb /\ ui.cmd.kind # "delete"))
    /\ ui' = IF ui.cond /\ ui.cmd.kind = "insert"
             THEN [ui EXCEPT !.pc = "cond"] ELSE idle
    /\ UNCHANGED <<views, spent>>

(* reapplyConditionAfterEnable: only once the row has a number. *)
ReapplyCondition ==
    LET i == IF ui.cmd.loc # NoLoc THEN IndexOfFileLine(list, ui.cmd.loc)
             ELSE IndexOfAddr(list, ui.cmd.addr)
    IN  /\ ui.pc = "cond"
        /\ IF i > 0 /\ list[i].num > 0 THEN SetCondition(list[i].num) ELSE UNCHANGED gdb
        /\ ui' = idle
        /\ UNCHANGED <<views, job, again, notes, lastNum, spent>>

(* A mutation: a change is not published while a refresh runs. *)
BreakpointsChanged_DroppedIfBusy ==
    /\ ui.pc = "idle" /\ notes
    /\ notes' = FALSE
    /\ IF job[Coalesced].pc = "off" THEN Schedule ELSE UNCHANGED <<job, again>>
    /\ UNCHANGED <<views, ui, table, spent>>

(* The UI handles =breakpoint-created/deleted: publish. *)
BreakpointsChanged ==
    /\ ui.pc = "idle" /\ notes
    /\ notes' = FALSE
    /\ Schedule
    /\ UNCHANGED <<views, ui, table, spent>>

(* onGdbStopped starts a goroutine that re-queries the breakpoints. *)
OnGdbStopped(r) ==
    /\ ui.pc = "idle" /\ job[r].pc \in {"off", "over"}
    /\ Spend("stop", MaxStops)
    /\ job' = [job EXCEPT ![r].pc = "fetch"]
    /\ UNCHANGED <<views, ui, again, notes, table>>

(* clearDebugInfoPanes on exit: the model and the views, not the snapshot. *)
ClearModel ==
    /\ ui.pc = "idle"
    /\ Spend("exit", MaxExits)
    /\ list' = <<>> /\ shown' = <<>>
    /\ UNCHANGED <<snapshot, ui, job, again, notes, table>>
---------------------------------------------------------------------------
(* The user's commands in the GDB console, a channel of its own *)

ConsoleBreak(l) ==
    /\ Spend("op", MaxOps)
    /\ Insert(l, AddrOf[l])
    /\ notes' = TRUE
    /\ UNCHANGED <<views, ui, job, again>>

ConsoleDelete(n) ==
    /\ Spend("op", MaxOps)
    /\ Drop({g \in gdb : g.num = n})
    /\ notes' = TRUE
    /\ UNCHANGED <<views, ui, job, again>>

(* =breakpoint-modified does not trigger a refresh. *)
ConsoleCondition(n) ==
    /\ Spend("op", MaxOps)
    /\ SetCondition(n)
    /\ UNCHANGED <<views, ui, job, again, notes, lastNum>>
---------------------------------------------------------------------------
Refresh(r) == Fetch(r) \/ FetchFail(r) \/ MergeRead(r) \/ MergeWrite(r) \/ SyncViews(r)

Handler == UISend \/ ReapplyCondition \/ BreakpointsChanged

User ==
    \/ \E i \in DOMAIN list : Toggle(i) \/ Delete(i)
    \/ \E l \in Loc : ToggleCode(l) \/ CodeBreakToggle(l)
    \/ \E a \in Addr : ToggleAsmEnable(a) \/ ToggleAsm(a)

Console ==
    \/ \E l \in Loc : ConsoleBreak(l)
    \/ \E g \in gdb : ConsoleDelete(g.num) \/ ConsoleCondition(g.num)

Inferior == (\E r \in Stoppers : OnGdbStopped(r)) \/ ClearModel

Next == User \/ Handler \/ Console \/ Inferior \/ \E r \in Refreshers : Refresh(r)

Spec == Init /\ [][Next]_vars

(* The goroutines run, and the event loop takes what is posted to it. *)
FairSpec == Spec /\ WF_vars(Handler) /\ \A r \in Refreshers : WF_vars(Refresh(r))
---------------------------------------------------------------------------
(* Properties *)

Ids(rows)    == {<<g.num, g.loc, g.addr>> : g \in rows}
GdbKeys      == {breakKey(g) : g \in gdb}
Marked(rows) == {breakKey(rows[i]) : i \in {j \in DOMAIN rows : rows[j].en}}

Quiet == ui.pc = "idle" /\ ~notes /\ \A r \in Refreshers : job[r].pc \in {"off", "over"}

(* The reply a stop's goroutine merged is older than GDB's table. *)
Overtaken(r) == job[r].pc = "over" /\ Ids(job[r].items) # Ids(gdb)

Undisturbed == spent.exit = 0 /\ spent.fail = 0 /\ \A r \in Stoppers : ~Overtaken(r)

(* Once every command was sent and every refresh is over, the panes show   *)
(* as enabled exactly the locations where GDB has a breakpoint, whatever   *)
(* the panes and the console did meanwhile, unless the inferior's exit     *)
(* emptied the panes, a query timed out, or GDB's table changed after a    *)
(* stop's goroutine had its reply (which it may then have merged last).    *)
(* stopped.go:109: "gutters must follow live -break-list".                 *)
GuttersFollowGdb ==
    Quiet /\ Undisturbed => /\ Marked(shown) = GdbKeys
                            /\ shown = list

(* Whatever changes GDB's table is followed by a query: unless a run of    *)
(* the coalesced refresh is still to query, or about to be asked for, its  *)
(* last reply names the breakpoints GDB has now.                           *)
RefreshIsCurrent ==
    /\ spent.fail = 0
    /\ ~again /\ ~notes /\ job[Coalesced].pc # "fetch"
    => Ids(job[Coalesced].items) = Ids(gdb)

(* A breakpoint GDB has, from the pane or the console, is eventually       *)
(* painted: the trailing run of the coalesced refresh is never lost.       *)
BreakIsPainted ==
    \A k \in {breakKey(NewRow(l, NoAddr)) : l \in Loc} :
        k \in GdbKeys ~> (k \in Marked(shown) \/ k \notin GdbKeys \/ ~Undisturbed)

===========================================================================
