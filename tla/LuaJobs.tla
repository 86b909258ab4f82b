------------------------------- MODULE LuaJobs -------------------------------
(***************************************************************************)
(* Lua jobs (app/lua.go, luahost/runtime.go): scripts run on a goroutine   *)
(* so that the UI thread stays free, one at a time; Ctrl-C cancels them.   *)
(*                                                                         *)
(* A runtime is a Lua VM behind a lock.  A job holds it while its script   *)
(* runs, and hands work to the UI thread, for which it waits.  The UI      *)
(* thread takes the same lock for help, completion and pane hooks.         *)
(***************************************************************************)
EXTENDS Naturals, Sequences

CONSTANTS
    Scripts,  \* the runtimes of the scripts
    Repl,     \* the runtime of the console
    Queue,    \* how many functions the screen's event queue takes
    MaxJobs   \* bound: jobs started

ASSUME LuaJobsAssumption == Repl \notin Scripts /\ Queue \in Nat /\ MaxJobs \in Nat

Runtimes == Scripts \cup {Repl}
Jobs     == 1 .. MaxJobs
Free     == 0             \* of a lock; also: no job, and context.Background
UI       == MaxJobs + 1   \* the UI thread, as the holder of a lock

VARIABLES
    mu,         \* Runtime.mu: who holds it
    jobCtx,     \* Runtime.jobCtx: the job whose context it is
    jobCancel,  \* luaCtl.jobCancel: the job it cancels
    jobRT,      \* luaCtl.jobRT, where jobCancel is not Free
    jobBusy,
    onWorker,
    cancelled,  \* the jobs whose context is cancelled
    job,        \* the goroutines
    started,    \* how many there are
    ui,         \* the UI thread
    events,     \* the functions posted to the UI thread: who waits for them
    strayed,    \* auxiliary: one of them ran on a goroutine
    calm        \* auxiliary: no job started before the last one ended, the UI
                \* thread did not wait for one, no function was refused

ctl  == <<jobCancel, jobRT, jobBusy>>
aux  == <<strayed, calm>>
vars == <<mu, jobCtx, ctl, onWorker, cancelled, job, started, ui, events, aux>>

InLua   == {"runs", "calls", "waits", "sleeps", "system"}
JobPcs  == InLua \cup {"none", "start", "locks", "leaves", "clears", "unsets", "reports", "ended"}
UIPcs   == {"loop", "locks", "lua", "waits", "closing"}

TypeOK ==
    /\ mu \in [Runtimes -> {Free, UI} \cup Jobs]
    /\ jobCtx \in [Runtimes -> {Free} \cup Jobs]
    /\ jobCancel \in {Free} \cup Jobs /\ jobRT \in Runtimes
    /\ jobBusy \in BOOLEAN /\ onWorker \in BOOLEAN
    /\ cancelled \subseteq Jobs /\ started \in {0} \cup Jobs
    /\ job \in [Jobs -> [pc : JobPcs, rt : Runtimes, vm : {Free} \cup Jobs, ctx : {Free} \cup Jobs]]
    /\ ui \in [pc : UIPcs, rt : Runtimes, ctx : {Free} \cup Jobs, open : SUBSET Runtimes]
    /\ events \in Seq({UI} \cup Jobs) /\ Len(events) <= Queue
    /\ strayed \in BOOLEAN /\ calm \in BOOLEAN

Init ==
    /\ mu = [rt \in Runtimes |-> Free] /\ jobCtx = [rt \in Runtimes |-> Free]
    /\ jobCancel = Free /\ jobRT = Repl /\ jobBusy = FALSE /\ onWorker = FALSE
    /\ cancelled = {} /\ started = 0
    /\ job = [j \in Jobs |-> [pc |-> "none", rt |-> Repl, vm |-> Free, ctx |-> Free]]
    /\ ui = [pc |-> "loop", rt |-> Repl, ctx |-> Free, open |-> Runtimes]
    /\ events = <<>> /\ strayed = FALSE /\ calm = TRUE

HasLock(j) == mu[job[j].rt] = j
Posted(w)  == \E i \in DOMAIN events : events[i] = w
Aborted(j) == job[j].vm \in cancelled
---------------------------------------------------------------------------
(* The goroutine of a job *)

Becomes(j, pc, vm, ctx) == job' = [job EXCEPT ![j] = [pc |-> pc, rt |-> @.rt, vm |-> vm, ctx |-> ctx]]

Goes(j, pc) == Becomes(j, pc, job[j].vm, job[j].ctx)

(* A mutation: the goroutine forgets that it is one. *)
Starts_NoFlag(j) == job[j].pc = "start" /\ Goes(j, "locks") /\ UNCHANGED onWorker

Starts(j) == job[j].pc = "start" /\ Goes(j, "locks") /\ onWorker' = TRUE

Begins(j) == Starts(j) /\ UNCHANGED <<mu, jobCtx, ctl, cancelled, started, ui, events, aux>>

(* A console job tells the UI before it clears onWorker, a script after.   *)
AfterLua(j) == IF job[j].rt = Repl THEN "clears" ELSE "leaves"

(* CallNamed, EvalLine: the VM gets the runtime's context.                 *)
Locks(j) ==
    LET rt == job[j].rt IN
    /\ job[j].pc = "locks" /\ mu[rt] = Free
    /\ \/ rt \in ui.open /\ mu' = [mu EXCEPT ![rt] = j]
          /\ Becomes(j, "runs", jobCtx[rt], Free)
       \/ rt \notin ui.open /\ Goes(j, AfterLua(j)) /\ UNCHANGED mu
    /\ UNCHANGED <<jobCtx, ctl, onWorker, cancelled, started, ui, events, aux>>

Finishes(j) ==
    /\ job[j].pc = "runs" /\ Becomes(j, AfterLua(j), Free, Free)
    /\ mu' = [mu EXCEPT ![job[j].rt] = Free]
    /\ UNCHANGED <<jobCtx, ctl, onWorker, cancelled, started, ui, events, aux>>

CanPost == Len(events) < Queue

(* callOnUI: off a worker, as it believes, and when the queue is full, the *)
(* function runs at once.                                                  *)
CallsUI(j, back) ==
    /\ IF onWorker /\ CanPost
       THEN Goes(j, "calls") /\ events' = Append(events, j) /\ UNCHANGED strayed
       ELSE Goes(j, back) /\ strayed' = TRUE /\ UNCHANGED events
    /\ calm' = (calm /\ CanPost)

LuaCallsUI(j) ==
    /\ job[j].pc = "runs" /\ ~Aborted(j) /\ CallsUI(j, "runs")
    /\ UNCHANGED <<mu, jobCtx, ctl, onWorker, cancelled, started, ui>>

ContextOfJob == IF jobCancel = Free THEN Free ELSE jobCtx[jobRT]

ReadsContext(j) ==
    /\ job[j].pc = "calls"
    /\ Becomes(j, "waits", job[j].vm, ContextOfJob)
    /\ UNCHANGED <<mu, jobCtx, ctl, onWorker, cancelled, started, ui, events, aux>>

(* A mutation: only the answer ends the wait. *)
CallEnds_AnswerOnly(j) == ~Posted(j)

CallEnds(j) == ~Posted(j) \/ job[j].ctx \in cancelled

Returns(j) ==
    /\ job[j].pc = "waits" /\ CallEnds(j)
    /\ Becomes(j, IF HasLock(j) THEN "runs" ELSE "leaves", job[j].vm, Free)
    /\ UNCHANGED <<mu, jobCtx, ctl, onWorker, cancelled, started, ui, events, aux>>

(* sleep, wait_port; system *)
Blocks(j) ==
    /\ job[j].pc = "runs" /\ ~Aborted(j)
    /\ \E pc \in {"sleeps", "system"} : Becomes(j, pc, job[j].vm, jobCtx[job[j].rt])
    /\ UNCHANGED <<mu, jobCtx, ctl, onWorker, cancelled, started, ui, events, aux>>

Blocked(j) == job[j].pc \in {"sleeps", "system"}

Unblocks(j) ==
    /\ Blocked(j) /\ Becomes(j, "runs", job[j].vm, Free)
    /\ UNCHANGED <<mu, jobCtx, ctl, onWorker, cancelled, started, ui, events, aux>>

Leaves(j) ==
    /\ job[j].pc = "leaves" /\ onWorker' = FALSE
    /\ Goes(j, IF job[j].rt = Repl THEN "ended" ELSE "clears")
    /\ UNCHANGED <<mu, jobCtx, ctl, cancelled, started, ui, events, aux>>

Clears(j) ==
    /\ job[j].pc = "clears" /\ Goes(j, "unsets")
    /\ jobCancel' = Free /\ jobBusy' = FALSE
    /\ UNCHANGED <<mu, jobCtx, jobRT, onWorker, cancelled, started, ui, events, aux>>

Unsets(j) ==
    /\ job[j].pc = "unsets" /\ Goes(j, "reports")
    /\ jobCtx' = [jobCtx EXCEPT ![job[j].rt] = Free]
    /\ UNCHANGED <<mu, ctl, onWorker, cancelled, started, ui, events, aux>>

(* A script's last message only repaints. *)
Reports(j) ==
    /\ job[j].pc = "reports"
    /\ IF job[j].rt = Repl THEN CallsUI(j, "leaves") ELSE Goes(j, "ended") /\ UNCHANGED <<events, aux>>
    /\ UNCHANGED <<mu, jobCtx, ctl, onWorker, cancelled, started, ui>>

Job(j) ==
    \/ Begins(j) \/ Locks(j) \/ Finishes(j) \/ LuaCallsUI(j) \/ ReadsContext(j) \/ Returns(j)
    \/ Blocks(j) \/ Unblocks(j) \/ Leaves(j) \/ Clears(j) \/ Unsets(j) \/ Reports(j)
---------------------------------------------------------------------------
(* The UI thread *)

Turns(pc, rt, ctx) == ui' = [pc |-> pc, rt |-> rt, ctx |-> ctx, open |-> ui.open]

Loops == ui.pc = "loop"

(* A mutation: no look at jobBusy. *)
MayStart_Always == TRUE

MayStart == ~jobBusy

(* A mutation: the runtime gets no context. *)
SetJobContext_Never(rt, j) == UNCHANGED jobCtx

SetJobContext(rt, j) == jobCtx' = [jobCtx EXCEPT ![rt] = j]

(* startJob, startReplEval *)
StartJob(rt) ==
    LET j == started + 1 IN
    /\ Loops /\ MayStart /\ j \in Jobs
    /\ started' = j /\ jobCancel' = j /\ jobRT' = rt /\ jobBusy' = TRUE
    /\ SetJobContext(rt, j)
    /\ job' = [job EXCEPT ![j] = [pc |-> "start", rt |-> rt, vm |-> Free, ctx |-> Free]]
    /\ calm' = (calm /\ \A k \in 1 .. started : job[k].pc = "ended")
    /\ UNCHANGED <<mu, onWorker, cancelled, ui, events, strayed>>

(* cancelJob, with KillSystem *)
cancelJob ==
    /\ cancelled' = cancelled \cup ({jobCancel} \ {Free})
    /\ job' = [j \in Jobs |-> IF jobCancel # Free /\ job[j].pc = "system" /\ job[j].rt = jobRT
                              THEN [pc |-> "runs", rt |-> jobRT, vm |-> job[j].vm, ctx |-> Free]
                              ELSE job[j]]

CtrlC ==
    /\ Loops /\ jobBusy /\ cancelJob
    /\ UNCHANGED <<mu, jobCtx, ctl, onWorker, started, ui, events, aux>>

(* Help, completion, the main() of a pane: the UI thread waits its turn.   *)
(* The hooks of a pane (callGlobal) are the case where it need not.        *)
AskRuntime(rt) ==
    /\ Loops
    /\ \/ mu[rt] = Free /\ mu' = [mu EXCEPT ![rt] = UI]
          /\ Turns("lua", rt, Free) /\ UNCHANGED calm
       \/ mu[rt] # Free /\ Turns("locks", rt, Free)
          /\ calm' = FALSE /\ UNCHANGED mu
    /\ UNCHANGED <<jobCtx, ctl, onWorker, cancelled, job, started, events, strayed>>

GetsLock ==
    /\ ui.pc = "locks" /\ mu[ui.rt] = Free
    /\ mu' = [mu EXCEPT ![ui.rt] = UI] /\ Turns("lua", ui.rt, Free)
    /\ UNCHANGED <<jobCtx, ctl, onWorker, cancelled, job, started, events, aux>>

(* callOnUI on the UI thread: while a job runs, it posts to itself.        *)
PaneCallsUI ==
    /\ ui.pc = "lua" /\ ui.rt # Repl /\ onWorker /\ CanPost
    /\ Turns("waits", ui.rt, ContextOfJob)
    /\ events' = Append(events, UI) /\ calm' = FALSE
    /\ UNCHANGED <<mu, jobCtx, ctl, onWorker, cancelled, job, started, strayed>>

PaneCallReturns ==
    /\ ui.pc = "waits" /\ ui.ctx \in cancelled
    /\ Turns("lua", ui.rt, Free)
    /\ UNCHANGED <<mu, jobCtx, ctl, onWorker, cancelled, job, started, events, aux>>

PaneEnds ==
    /\ ui.pc = "lua" /\ Turns("loop", Repl, Free)
    /\ mu' = [mu EXCEPT ![ui.rt] = Free]
    /\ UNCHANGED <<jobCtx, ctl, onWorker, cancelled, job, started, events, aux>>

onUIMsg ==
    /\ Loops /\ events # <<>> /\ events' = Tail(events)
    /\ UNCHANGED <<mu, jobCtx, ctl, onWorker, cancelled, job, started, ui, aux>>

(* closeAll: the job is cancelled, then each runtime is waited for.        *)
Quit ==
    /\ Loops /\ cancelJob /\ Turns("closing", Repl, Free)
    /\ UNCHANGED <<mu, jobCtx, ctl, onWorker, started, events, aux>>

Close(rt) ==
    /\ ui.pc = "closing" /\ rt \in ui.open /\ mu[rt] = Free
    /\ ui' = [ui EXCEPT !.open = @ \ {rt}]
    /\ UNCHANGED <<mu, jobCtx, ctl, onWorker, cancelled, job, started, events, aux>>

Keys == CtrlC \/ Quit \/ \E rt \in Runtimes : StartJob(rt) \/ AskRuntime(rt)

Next ==
    \/ Keys \/ onUIMsg \/ GetsLock \/ PaneCallsUI \/ PaneCallReturns \/ PaneEnds
    \/ \E rt \in Runtimes : Close(rt)
    \/ \E j \in Jobs : Job(j)

(* Goroutines run, Go's locks are handed on in turn, and a script that is  *)
(* cancelled gets to its end.  Nothing makes another end, or wake, of      *)
(* itself, and the UI thread may never come to its events.                 *)
Goroutine(j) ==
    \/ Begins(j) \/ ReadsContext(j) \/ Returns(j) \/ Leaves(j) \/ Clears(j) \/ Unsets(j) \/ Reports(j)
    \/ Aborted(j) /\ Finishes(j)
    \/ job[j].ctx \in cancelled /\ Unblocks(j)

Fairness ==
    /\ \A j \in Jobs : WF_vars(Goroutine(j)) /\ SF_vars(Locks(j))
    /\ WF_vars(PaneEnds) /\ \A rt \in Runtimes : WF_vars(Close(rt))

Spec == Init /\ [][Next]_vars /\ Fairness
---------------------------------------------------------------------------
(* Properties *)

(* A job whose script has not ended. *)
Active(j) == job[j].pc \in {"start", "locks"} \/ HasLock(j)

(* Only one job at a time, and Ctrl-C finds it: until its script has       *)
(* ended, jobBusy is set and jobCancel and jobRT are the job's own         *)
(* (startJob, startReplEval, cancelJob).                                   *)
CtrlCFindsTheJob ==
    \A j \in Jobs : Active(j) => jobBusy /\ jobCancel = j /\ jobRT = job[j].rt

(* callOnUI "runs fn on the UI thread when invoked from the Lua worker"    *)
(* (lua.go:461), if jobs do not follow each other too fast.                *)
UIWorkOnUI == calm => ~strayed

(* What a job waits in is what Ctrl-C cancels, under the same condition.   *)
CtrlCReachesTheJob ==
    calm => \A j \in Jobs : job[j].pc \in InLua /\ HasLock(j) =>
        job[j].vm = j /\ (job[j].pc \in {"waits", "sleeps", "system"} => job[j].ctx = j)

(* The job that Ctrl-C cancelled ends, whatever it waits for (cancelJob).  *)
CancelledJobEnds == \A j \in Jobs : j \in cancelled /\ Active(j) /\ calm ~> ~Active(j) \/ ~calm

(* Quitting comes to its end: closeAll waits for every runtime, and a job  *)
(* in one of them may wait for the UI thread that is closing it.           *)
QuitEnds == ui.pc = "closing" /\ calm ~> ui.open = {}

===========================================================================
