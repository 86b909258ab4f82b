--------------------------- MODULE StopNavigation ---------------------------
(***************************************************************************)
(* From a stop to the Code and Call Stack panes (app/stopped.go,           *)
(* app/dlv_ctl.go, app/debug_info.go), for GDB outside kgdb mode.          *)
(*                                                                         *)
(* A stop starts a goroutine that later posts "show this stop", and a      *)
(* coalesced refresh of threads and stack; a selection of a thread or a    *)
(* frame starts a goroutine that asks GDB for its frame and posts "show    *)
(* this frame".  The user goes on browsing meanwhile.  codeNavGen is to    *)
(* keep a late "show this stop" from undoing what the user did since.      *)
(*                                                                         *)
(* The program has two threads: thread 1 stops and has two frames, thread  *)
(* 2 has one.  The frame at which it stops may have no source file.        *)
(***************************************************************************)
EXTENDS Naturals, Sequences, SequencesExt

CONSTANTS
    MaxStops, MaxUser,  \* bounds: stops, acts of the user
    SourceSets          \* which stops may have a source file at frame 0

ASSUME StopNavigationAssumption ==
    {MaxStops, MaxUser} \subseteq Nat /\ SourceSets \subseteq SUBSET (1 .. MaxStops)

VARIABLES
    status, sel,    \* GDB: of the program, and the selected frame
    sourced,        \* the stops whose frame 0 has a source file
    updates,        \* GDB's updates the UI thread has not handled
    events,         \* what goroutines posted to the UI thread
    stopJobs,       \* onGdbStopped's goroutines
    asking, got,    \* frame syncs: about to ask, and with GDB's answer
    runner,         \* the coalesced refresh of threads and stack
    timers,         \* armDebugInfoRefresh: asleep, and past their check
    pendingDebugInfo, pendingFrameSync, codeNavGen,
    model,          \* the shared CallStack and ThreadList
    shown,          \* the panes: their stack and threads, the selected row
    stopFile,       \* StopFile() # ""
    code,           \* the frame Code is at
    owed,           \* auxiliary: the stop that has Code, the user being still
    browsed,        \* auxiliary: the row the user chose after the last stop
    clean,          \* auxiliary: no stop or selection overtook another
    spent           \* acts of the user so far

target  == <<status, sel, sourced>>
syncs   == <<asking, got>>
jobs    == <<stopJobs, syncs, runner, timers>>
pending == <<pendingDebugInfo, pendingFrameSync>>
panes   == <<codeNavGen, shown, stopFile, code>>
aux     == <<owed, browsed, clean>>
vars    == <<target, updates, events, jobs, pending, model, panes, aux, spent>>

(* A stack is its frame 0. *)
Frames   == [stop : 0 .. MaxStops, thread : 1 .. 2, level : 0 .. 1]
NoFrame  == [stop |-> 0, thread |-> 1, level |-> 0]
StackOf(f) == [f EXCEPT !.level = 0]
Levels(stack) == IF stack = NoFrame THEN {} ELSE IF stack.thread = 1 THEN 0 .. 1 ELSE {0}

HasFile(f) == f.level = 1 \/ f.thread = 2 \/ f.stop \in sourced
FirstWithFile(stack) == IF HasFile(stack) THEN stack ELSE [stack EXCEPT !.level = 1]

Updates  == [kind : {"stop", "exit", "frame", "done"}, frame : Frames, prompt : BOOLEAN, error : BOOLEAN]
Messages == [kind : {"stop", "frame", "info"}, gen : Nat, frame : Frames]
Runners  == [pc : {"idle", "asking", "got"}, again : BOOLEAN, ok : BOOLEAN, stack : Frames]

(* The selected row is one of the call stack's. *)
Panes == {v \in [stack : Frames, threads : 0 .. MaxStops, row : 0 .. 1] :
            v.row \in Levels(v.stack) \cup {0}}

TargetType ==
    /\ status \in {"running", "stopped", "dead"} /\ sel \in Frames
    /\ sourced \subseteq 1 .. MaxStops

QueueType == updates \in Seq(Updates) /\ events \in Seq(Messages)

JobType ==
    /\ stopJobs \subseteq [gen : Nat, frame : Frames]
    /\ asking \in Nat /\ got \in Seq(Frames)
    /\ runner \in Runners /\ timers \in [asleep : Nat, due : Nat]
    /\ pendingDebugInfo \in BOOLEAN /\ pendingFrameSync \in BOOLEAN

PaneType ==
    /\ codeNavGen \in Nat /\ stopFile \in BOOLEAN /\ code \in Frames
    /\ model \in [stack : Frames, threads : 0 .. MaxStops] /\ shown \in Panes

AuxType ==
    /\ owed \in Frames /\ browsed \in Frames
    /\ clean \in BOOLEAN /\ spent \in 0 .. MaxUser

TypeOK == TargetType /\ QueueType /\ JobType /\ PaneType /\ AuxType

Init ==
    /\ status = "running" /\ sel = NoFrame /\ sourced \in SourceSets
    /\ updates = <<>> /\ events = <<>> /\ stopJobs = {} /\ asking = 0 /\ got = <<>>
    /\ runner = [pc |-> "idle", again |-> FALSE, ok |-> FALSE, stack |-> NoFrame]
    /\ timers = [asleep |-> 0, due |-> 0]
    /\ pendingDebugInfo = FALSE /\ pendingFrameSync = FALSE /\ codeNavGen = 0
    /\ model = [stack |-> NoFrame, threads |-> 0]
    /\ shown = [stack |-> NoFrame, threads |-> 0, row |-> 0]
    /\ stopFile = FALSE /\ code = NoFrame
    /\ owed = NoFrame /\ browsed = NoFrame /\ clean = TRUE /\ spent = 0

SyncInFlight ==
    \/ asking > 0 \/ got # <<>> \/ pendingFrameSync
    \/ \E i \in DOMAIN events : events[i].kind = "frame"
    \/ \E i \in DOMAIN updates : updates[i].kind = "frame"

InFlight ==
    \/ asking > 0 \/ got # <<>> \/ pendingFrameSync
    \/ events # <<>> \/ stopJobs # {} \/ runner.pc # "idle" \/ timers.due > 0

Settled == updates = <<>> /\ ~InFlight /\ (pendingDebugInfo => timers.asleep = 0)
---------------------------------------------------------------------------
(* GDB and the program *)

Update(kind, frame, prompt, error) ==
    [kind |-> kind, frame |-> frame, prompt |-> prompt, error |-> error]
Prompt == Update("done", NoFrame, TRUE, FALSE)

(* The prompt comes with the stop, with a later update, or not at all. *)
GdbStops ==
    /\ status = "running" /\ sel.stop < MaxStops
    /\ status' = "stopped"
    /\ sel' = [stop |-> sel.stop + 1, thread |-> 1, level |-> 0]
    /\ \E prompt \in BOOLEAN : updates' = Append(updates, Update("stop", sel', prompt, FALSE))
    /\ UNCHANGED <<sourced, events, jobs, pending, model, panes, aux, spent>>

ProgramExits ==
    /\ status = "running" /\ status' = "dead"
    /\ updates' = Append(updates, Update("exit", NoFrame, TRUE, FALSE))
    /\ UNCHANGED <<sel, sourced, events, jobs, pending, model, panes, aux, spent>>
---------------------------------------------------------------------------
(* The user.  He browses a stopped program: a running one is interrupted   *)
(* for it (RunControl).                                                    *)

User == spent < MaxUser /\ spent' = spent + 1

Resume ==
    /\ User /\ status # "running" /\ status' = "running"
    /\ updates' = Append(updates, Prompt)
    /\ UNCHANGED <<sel, sourced, events, jobs, pending, model, panes, aux>>

bumpCodeNav == codeNavGen' = codeNavGen + 1

(* activateCallStack: Code goes to the row at once, then GDB selects it,   *)
(* if the stack it is at has such a frame.                                 *)
activateCallStack(level) ==
    /\ User /\ status = "stopped" /\ level \in Levels(shown.stack)
    /\ bumpCodeNav
    /\ shown' = [shown EXCEPT !.row = level]
    /\ code' = [shown.stack EXCEPT !.level = level]
    /\ LET ok == level \in Levels(StackOf(sel)) IN
         /\ sel' = IF ok THEN [sel EXCEPT !.level = level] ELSE sel
         /\ updates' = Append(updates, Update("done", NoFrame, TRUE, ~ok))
    /\ owed' = NoFrame
    /\ browsed' = IF stopFile /\ ~SyncInFlight THEN code' ELSE NoFrame
    /\ clean' = (clean /\ shown.stack = StackOf(sel) /\ ~SyncInFlight)
    /\ UNCHANGED <<status, sourced, events, jobs, pending, model, stopFile>>

(* activateThread: Code goes to the thread's row, until GDB has confirmed. *)
activateThread(t) ==
    /\ User /\ status = "stopped" /\ shown.threads # 0
    /\ bumpCodeNav /\ pendingFrameSync' = TRUE
    /\ sel' = [sel EXCEPT !.thread = t, !.level = 0]
    /\ \E u \in {Prompt, Update("frame", sel', TRUE, FALSE)} : updates' = Append(updates, u)
    /\ LET f == [stop |-> shown.threads, thread |-> t, level |-> 0]
       IN  code' = IF HasFile(f) THEN f ELSE code
    /\ owed' = NoFrame /\ browsed' = NoFrame /\ clean' = (clean /\ Settled)
    /\ UNCHANGED <<status, sourced, events, jobs, pendingDebugInfo, model, shown, stopFile>>

(* frame, up, down, thread typed at GDB's prompt: =thread-selected tells.  *)
ConsoleSelects(f) ==
    /\ User /\ status = "stopped"
    /\ f.stop = sel.stop /\ f.level \in Levels(StackOf(f)) /\ f # sel
    /\ sel' = f
    /\ updates' = Append(updates, Update("frame", f, FALSE, FALSE))
    /\ owed' = NoFrame /\ browsed' = NoFrame /\ clean' = (clean /\ Settled)
    /\ UNCHANGED <<status, sourced, events, jobs, pending, model, panes>>
---------------------------------------------------------------------------
(* The UI thread handles an update *)

Scheduled(r) == IF r.pc = "idle" THEN [r EXCEPT !.pc = "asking"] ELSE [r EXCEPT !.again = TRUE]

SelectLevel(v, level) == IF level \in Levels(v.stack) THEN [v EXCEPT !.row = level] ELSE v

SetItems(v, stack) ==
    [v EXCEPT !.stack = stack, !.row = IF v.row \in Levels(stack) THEN v.row ELSE 0]

(* A mutation: no fallback timer. *)
armDebugInfoRefresh_NoTimer == UNCHANGED timers

(* The flag is set in Pending below. *)
armDebugInfoRefresh == timers' = [timers EXCEPT !.asleep = @ + 1]

onGdbStopped(f) ==
    /\ stopFile' = (stopFile \/ HasFile(f))
    /\ armDebugInfoRefresh
    /\ stopJobs' = stopJobs \cup {[gen |-> codeNavGen, frame |-> f]}
    /\ owed' = IF InFlight THEN NoFrame ELSE f
    /\ browsed' = NoFrame /\ clean' = (sel = f /\ ~InFlight /\ ~SyncInFlight)
    /\ UNCHANGED <<model, shown, code>>

clearDebugInfoPanes ==
    /\ model' = [stack |-> NoFrame, threads |-> 0]
    /\ shown' = [stack |-> NoFrame, threads |-> 0, row |-> 0]
    /\ stopFile' = FALSE /\ code' = NoFrame
    /\ owed' = NoFrame /\ browsed' = NoFrame /\ clean' = ~InFlight
    /\ UNCHANGED <<stopJobs, timers>>

onGdbFrameSelected(f) ==
    /\ shown' = SelectLevel(shown, f.level) /\ code' = f
    /\ UNCHANGED <<stopJobs, timers, model, stopFile, aux>>

(* triggerPendingDebugInfo and applyPendingFrameSync, once the update is   *)
(* applied; a frame in it starts a sync in any case.                       *)
Pending(u) ==
    LET armed == pendingDebugInfo \/ u.kind = "stop" IN
    /\ runner' = IF armed /\ u.prompt THEN Scheduled(runner) ELSE runner
    /\ pendingDebugInfo' = (armed /\ ~u.prompt)
    /\ pendingFrameSync' = (pendingFrameSync /\ ~u.prompt)
    /\ asking' = IF u.kind = "frame" \/ (pendingFrameSync /\ u.prompt /\ ~u.error)
                 THEN asking + 1 ELSE asking

HandleUpdate ==
    /\ updates # <<>> /\ updates' = Tail(updates)
    /\ LET u == Head(updates) IN
         /\ \/ u.kind = "stop" /\ onGdbStopped(u.frame)
            \/ u.kind = "exit" /\ clearDebugInfoPanes
            \/ u.kind = "frame" /\ onGdbFrameSelected(u.frame)
            \/ u.kind = "done" /\ UNCHANGED <<stopJobs, timers, model, shown, stopFile, code, aux>>
         /\ Pending(u)
    /\ UNCHANGED <<target, events, got, codeNavGen, spent>>
---------------------------------------------------------------------------
(* Goroutines *)

Post(kind, gen, f) == events' = Append(events, [kind |-> kind, gen |-> gen, frame |-> f])

(* The breakpoint list has been refreshed: the stop may be shown. *)
StopJobPosts ==
    /\ \E j \in stopJobs : stopJobs' = stopJobs \ {j} /\ Post("stop", j.gen, j.frame)
    /\ UNCHANGED <<target, updates, syncs, runner, timers, pending, model, panes, aux, spent>>

(* fetchCurrentFrameFromGDB: GDB answers while the program is stopped. *)
SyncAsks ==
    /\ asking > 0 /\ asking' = asking - 1
    /\ got' = IF status = "stopped" THEN Append(got, sel) ELSE got
    /\ UNCHANGED <<target, updates, events, stopJobs, runner, timers, pending, model, panes, aux, spent>>

SyncPosts ==
    /\ \E i \in DOMAIN got :
         /\ model' = [model EXCEPT !.stack = StackOf(got[i])]
         /\ Post("frame", 0, got[i])
         /\ got' = RemoveAt(got, i)
    /\ UNCHANGED <<target, updates, stopJobs, asking, runner, timers, pending, panes, aux, spent>>

(* refreshThreadsAndStack: of a dead program GDB reports no threads. *)
RefreshAsks ==
    /\ runner.pc = "asking"
    /\ runner' = [runner EXCEPT !.pc = "got", !.ok = status # "running",
                                !.stack = IF status = "stopped" THEN StackOf(sel) ELSE NoFrame]
    /\ UNCHANGED <<target, updates, events, stopJobs, syncs, timers, pending, model, panes, aux, spent>>

RefreshPosts ==
    /\ runner.pc = "got"
    /\ runner' = [pc |-> IF runner.again THEN "asking" ELSE "idle", again |-> FALSE, ok |-> FALSE, stack |-> NoFrame]
    /\ model' = IF runner.ok THEN [stack |-> runner.stack, threads |-> runner.stack.stop] ELSE model
    /\ Post("info", 0, NoFrame)
    /\ UNCHANGED <<target, updates, stopJobs, syncs, timers, pending, panes, aux, spent>>

(* The timer reads the flag, and then clears it, unlike the UI thread. *)
TimerChecks ==
    /\ timers.asleep > 0
    /\ timers' = [asleep |-> timers.asleep - 1,
                  due |-> IF pendingDebugInfo THEN timers.due + 1 ELSE timers.due]
    /\ UNCHANGED <<target, updates, events, stopJobs, syncs, runner, pending, model, panes, aux, spent>>

TimerTriggers ==
    /\ timers.due > 0 /\ timers' = [timers EXCEPT !.due = @ - 1]
    /\ pendingDebugInfo' = FALSE /\ runner' = Scheduled(runner)
    /\ UNCHANGED <<target, updates, events, stopJobs, syncs, pendingFrameSync, model, panes, aux, spent>>
---------------------------------------------------------------------------
(* The UI thread handles what a goroutine posted *)

(* A mutation: no look at the generation. *)
StopIsCurrent_Always(m) == TRUE

StopIsCurrent(m) == m.gen = codeNavGen

(* updateCodeAfterStop: without a file, GDB is asked for its frame. *)
ShowStop(f) ==
    LET top == SelectLevel(shown, 0)
    IN  CASE HasFile(f) -> code' = f /\ shown' = top /\ UNCHANGED model
          [] ~HasFile(f) /\ status = "stopped" ->
               /\ code' = sel
               /\ model' = [model EXCEPT !.stack = StackOf(sel)]
               /\ shown' = SelectLevel(SetItems(top, StackOf(sel)), sel.level)
          [] OTHER -> code' = (IF code = NoFrame THEN f ELSE code) /\ shown' = top /\ UNCHANGED model

(* A mutation: the row is left where it was. *)
ShowFrame_SameRow(f) ==
    /\ shown' = SetItems(shown, model.stack)
    /\ code' = f /\ UNCHANGED model

ShowFrame(f) ==
    /\ shown' = SelectLevel(SetItems(shown, model.stack), f.level)
    /\ code' = f /\ UNCHANGED model

(* ApplyDebugInfoUI; syncCodeFromCallstack leaves Code alone if a stop     *)
(* gave a file.                                                            *)
ShowInfo ==
    LET moves == ~stopFile /\ model.stack # NoFrame IN
    /\ shown' = [SetItems(shown, model.stack) EXCEPT !.threads = model.threads]
    /\ code' = IF moves THEN FirstWithFile(model.stack) ELSE code
    /\ stopFile' = (stopFile \/ moves)
    /\ UNCHANGED model

HandleEvent ==
    /\ events # <<>> /\ events' = Tail(events)
    /\ LET m == Head(events) IN
         \/ m.kind = "stop" /\ StopIsCurrent(m) /\ ShowStop(m.frame) /\ UNCHANGED stopFile
         \/ m.kind = "stop" /\ ~StopIsCurrent(m) /\ UNCHANGED <<shown, model, code, stopFile>>
         \/ m.kind = "frame" /\ ShowFrame(m.frame) /\ UNCHANGED stopFile
         \/ m.kind = "info" /\ ShowInfo
    /\ UNCHANGED <<target, updates, jobs, pending, codeNavGen, aux, spent>>
---------------------------------------------------------------------------
UIThread == HandleUpdate \/ HandleEvent

Keys ==
    \/ Resume
    \/ \E level \in 0 .. 1 : activateCallStack(level)
    \/ \E t \in 1 .. 2 : activateThread(t)
    \/ \E f \in Frames : ConsoleSelects(f)

Next ==
    \/ Keys \/ GdbStops \/ ProgramExits \/ UIThread
    \/ StopJobPosts \/ SyncAsks \/ SyncPosts \/ RefreshAsks \/ RefreshPosts
    \/ TimerChecks \/ TimerTriggers

(* The event loop runs, and a stop's goroutine ends: its queries time out. *)
Spec == Init /\ [][Next]_vars /\ WF_vars(HandleUpdate) /\ WF_vars(HandleEvent) /\ WF_vars(StopJobPosts)
---------------------------------------------------------------------------
(* Properties *)

(* Code stays at the row of the call stack that the user chose, whatever   *)
(* stop and refresh goroutines are still to report, until the next stop or *)
(* selection.  (A selection in flight, and a session in which no stop has  *)
(* had a source file yet, are left out: both move Code.)                   *)
RowSticks == browsed # NoFrame => code = browsed

(* "follows the selected frame (f/up/down, call stack), like GDB"          *)
(* (stopped.go:259): if no stop or selection came while an earlier one was *)
(* still being shown, Code and the row of the call stack end at the frame  *)
(* GDB has selected.                                                       *)
CodeFollowsGdb ==
    clean /\ Settled /\ status = "stopped" =>
        /\ HasFile(sel) => code = sel
        /\ shown.row = sel.level

(* ... the call stack pane ends with the stack of GDB's thread, even if    *)
(* the prompt after the stop is missed, and Code and pane end empty when   *)
(* the program has exited.                                                 *)
PanesFollowGdb ==
    clean /\ Settled =>
        /\ status = "stopped" => shown.stack = StackOf(sel)
        /\ status = "dead" => shown.stack = NoFrame /\ code = NoFrame

===========================================================================
