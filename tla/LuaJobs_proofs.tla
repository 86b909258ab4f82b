--------------------------- MODULE LuaJobs_proofs ---------------------------
(***************************************************************************)
(* Proofs about LuaJobs, for any scripts, any queue and any number of      *)
(* jobs: the types hold, Ctrl-C finds the running job, and, as long as     *)
(* jobs follow each other, the UI's work is done on the UI thread and      *)
(* Ctrl-C reaches what the job waits in.                                   *)
(***************************************************************************)
EXTENDS LuaJobs, TLAPS

(* A job that is between startJob and the clearing of jobBusy. *)
Current(j) ==
    \/ job[j].pc \in {"start", "locks", "clears"} \/ HasLock(j)
    \/ job[j].pc = "leaves" /\ job[j].rt # Repl

Found(j) == jobBusy /\ jobCancel = j /\ jobRT = job[j].rt

(* Whoever holds a lock is in Lua, and the other way round. *)
HoldersAreIn == \A rt \in Runtimes : mu[rt] \in Jobs =>
    job[mu[rt]].rt = rt /\ job[mu[rt]].pc \in InLua

InAreHolders == \A j \in Jobs :
    /\ job[j].pc \in {"runs", "sleeps", "system"} => HasLock(j)
    /\ job[j].pc \in {"calls", "waits"} => HasLock(j) \/ job[j].rt = Repl

UIHolds == ui.pc \in {"lua", "waits"} => mu[ui.rt] = UI

NotStarted == \A j \in Jobs : j > started => job[j].pc = "none"

CurrentIsFound == \A j \in Jobs : Current(j) => Found(j)

LockInv == HoldersAreIn /\ InAreHolders /\ UIHolds /\ NotStarted /\ CurrentIsFound
---------------------------------------------------------------------------
(* Types *)

Refs == {Free} \cup Jobs

JobRecord == [pc : JobPcs, rt : Runtimes, vm : Refs, ctx : Refs]

(* A job that moves on keeps its runtime, and the others do not move. *)
LEMMA Moves ==
    ASSUME TypeOK, NEW j \in Jobs, NEW pc \in JobPcs, NEW vm \in Refs, NEW ctx \in Refs,
           Becomes(j, pc, vm, ctx)
    PROVE  /\ job' \in [Jobs -> JobRecord]
           /\ job'[j].pc = pc /\ job'[j].rt = job[j].rt
           /\ job'[j].vm = vm /\ job'[j].ctx = ctx
           /\ \A k \in Jobs \ {j} : job'[k] = job[k]
<1>1. job' \in [Jobs -> JobRecord] /\ \A k \in Jobs \ {j} : job'[k] = job[k]
  BY DEF TypeOK, Becomes, JobRecord, Refs
<1>2. job'[j] = [pc |-> pc, rt |-> job[j].rt, vm |-> vm, ctx |-> ctx]
  BY DEF TypeOK, Becomes
<1>3. QED
  BY <1>1, <1>2

(* The same for a job that only changes its place. *)
LEMMA Going ==
    ASSUME TypeOK, NEW j \in Jobs, NEW pc \in JobPcs, Goes(j, pc)
    PROVE  /\ job' \in [Jobs -> JobRecord]
           /\ job'[j].pc = pc /\ job'[j].rt = job[j].rt
           /\ job'[j].vm = job[j].vm /\ job'[j].ctx = job[j].ctx
           /\ \A k \in Jobs \ {j} : job'[k] = job[k]
<1>1. job[j].vm \in Refs /\ job[j].ctx \in Refs
  BY DEF TypeOK, Refs
<1>2. QED
  BY <1>1, Moves DEF Goes

(* Ctrl-C wakes a job from system, and leaves the others where they are. *)
LEMMA Cancels ==
    ASSUME TypeOK, cancelJob
    PROVE  /\ job' \in [Jobs -> JobRecord]
           /\ cancelled' \subseteq Jobs
           /\ \A k \in Jobs : /\ job'[k].rt = job[k].rt /\ job'[k].vm = job[k].vm
                              /\ \/ job'[k].pc = job[k].pc /\ job'[k].ctx = job[k].ctx
                                 \/ job[k].pc = "system" /\ job'[k].pc = "runs"
<1>1. \A k \in Jobs : job[k] \in JobRecord
  BY DEF TypeOK, JobRecord, Refs
<1>2. job' \in [Jobs -> JobRecord]
  BY <1>1 DEF TypeOK, cancelJob, JobRecord, JobPcs, InLua, Refs
<1>3. cancelled' \subseteq Jobs
  BY DEF TypeOK, cancelJob
<1>4. ASSUME NEW k \in Jobs
      PROVE  /\ job'[k].rt = job[k].rt /\ job'[k].vm = job[k].vm
             /\ \/ job'[k].pc = job[k].pc /\ job'[k].ctx = job[k].ctx
                \/ job[k].pc = "system" /\ job'[k].pc = "runs"
  <2>1. CASE jobCancel # Free /\ job[k].pc = "system" /\ job[k].rt = jobRT
    <3>1. job'[k] = [pc |-> "runs", rt |-> jobRT, vm |-> job[k].vm, ctx |-> Free]
      BY <2>1 DEF cancelJob
    <3>2. QED
      BY <2>1, <3>1
  <2>2. CASE ~(jobCancel # Free /\ job[k].pc = "system" /\ job[k].rt = jobRT)
    <3>1. job'[k] = job[k]
      BY <2>2 DEF cancelJob
    <3>2. QED
      BY <3>1
  <2>3. QED
    BY <2>1, <2>2
<1>5. QED
  BY <1>2, <1>3, <1>4

(* What callOnUI does to the queue and to the job. *)
LEMMA CallTypes ==
    ASSUME TypeOK, NEW j \in Jobs, NEW back \in JobPcs, CallsUI(j, back)
    PROVE  /\ job' \in [Jobs -> JobRecord]
           /\ events' \in Seq({UI} \cup Jobs) /\ Len(events') <= Queue
           /\ strayed' \in BOOLEAN /\ calm' \in BOOLEAN
           /\ job'[j].pc \in {"calls", back} /\ job'[j].rt = job[j].rt
           /\ \A k \in Jobs \ {j} : job'[k] = job[k]
<1>1. "calls" \in JobPcs
  BY DEF JobPcs, InLua
<1>2. calm' \in BOOLEAN
  BY Zenon DEF CallsUI, TypeOK, CanPost
<1>3. CASE onWorker /\ CanPost
  <2>1. Goes(j, "calls") /\ events' = Append(events, j) /\ strayed' = strayed
    BY <1>3 DEF CallsUI
  <2>2. Len(events) \in Nat /\ Len(events) < Queue /\ Queue \in Nat
    BY <1>3, LuaJobsAssumption DEF CanPost, TypeOK
  <2>3. events' \in Seq({UI} \cup Jobs) /\ Len(events') = Len(events) + 1
    BY <2>1 DEF TypeOK
  <2>4. Len(events') <= Queue
    BY <2>2, <2>3
  <2>5. strayed' \in BOOLEAN
    BY <2>1 DEF TypeOK
  <2>6. /\ job' \in [Jobs -> JobRecord] /\ \A k \in Jobs \ {j} : job'[k] = job[k]
        /\ job'[j].pc = "calls" /\ job'[j].rt = job[j].rt
    BY <1>1, <2>1, Going
  <2>7. QED
    BY <1>2, <2>3, <2>4, <2>5, <2>6
<1>4. CASE ~(onWorker /\ CanPost)
  <2>1. Goes(j, back) /\ strayed' = TRUE /\ events' = events
    BY <1>4 DEF CallsUI
  <2>2. events' \in Seq({UI} \cup Jobs) /\ Len(events') <= Queue /\ strayed' \in BOOLEAN
    BY <2>1 DEF TypeOK
  <2>3. /\ job' \in [Jobs -> JobRecord] /\ \A k \in Jobs \ {j} : job'[k] = job[k]
        /\ job'[j].pc = back /\ job'[j].rt = job[j].rt
    BY <2>1, Going
  <2>4. QED
    BY <1>2, <2>2, <2>3
<1>5. QED
  BY <1>3, <1>4
---------------------------------------------------------------------------
(* Every step keeps the types. *)

LEMMA JobTypes == ASSUME TypeOK, NEW j \in Jobs, Job(j) PROVE TypeOK'
<1> USE DEF JobPcs, InLua
<1>0. /\ job[j] \in JobRecord
      /\ ContextOfJob \in Refs /\ jobCtx[job[j].rt] \in Refs
      /\ AfterLua(j) \in JobPcs /\ j \in {Free, UI} \cup Jobs
  <2>1. job[j] \in JobRecord
    BY DEF TypeOK, JobRecord, Refs
  <2>2. jobCtx[job[j].rt] \in Refs
    BY <2>1 DEF TypeOK, JobRecord, Refs
  <2>3. ContextOfJob \in Refs
    BY DEF TypeOK, ContextOfJob, Refs
  <2>4. AfterLua(j) \in JobPcs
    BY DEF AfterLua
  <2>5. QED
    BY <2>1, <2>2, <2>3, <2>4
<1>k. job[j].rt \in Runtimes /\ job[j].vm \in Refs /\ job[j].ctx \in Refs /\ Free \in Refs
  BY <1>0 DEF JobRecord, Refs
<1>1. CASE Begins(j)
  <2>1. job' \in [Jobs -> JobRecord]
    BY <1>1, Going DEF Begins, Starts
  <2>2. QED
    BY <1>1, <2>1 DEF Begins, Starts, TypeOK, JobRecord, Refs, ctl, aux
<1>2. CASE Locks(j)
  <2>1. job' \in [Jobs -> JobRecord]
    BY <1>0, <1>k, <1>2, Going, Moves DEF Locks
  <2>2. mu' \in [Runtimes -> {Free, UI} \cup Jobs]
    BY <1>0, <1>k, <1>2 DEF Locks, TypeOK
  <2>3. QED
    BY <1>2, <2>1, <2>2 DEF Locks, TypeOK, JobRecord, Refs, ctl, aux
<1>3. CASE Finishes(j)
  <2>1. job' \in [Jobs -> JobRecord]
    BY <1>0, <1>k, <1>3, Moves DEF Finishes
  <2>2. mu' \in [Runtimes -> {Free, UI} \cup Jobs]
    BY <1>3 DEF Finishes, TypeOK
  <2>3. QED
    BY <1>3, <2>1, <2>2 DEF Finishes, TypeOK, JobRecord, Refs, ctl, aux
<1>4. CASE LuaCallsUI(j)
  <2>1. /\ job' \in [Jobs -> JobRecord] /\ strayed' \in BOOLEAN /\ calm' \in BOOLEAN
        /\ events' \in Seq({UI} \cup Jobs) /\ Len(events') <= Queue
    BY <1>4, CallTypes DEF LuaCallsUI
  <2>2. QED
    BY <1>4, <2>1 DEF LuaCallsUI, TypeOK, JobRecord, Refs, ctl
<1>5. CASE ReadsContext(j)
  <2>1. job' \in [Jobs -> JobRecord]
    BY <1>0, <1>k, <1>5, Moves DEF ReadsContext
  <2>2. QED
    BY <1>5, <2>1 DEF ReadsContext, TypeOK, JobRecord, Refs, ctl, aux
<1>6. CASE Returns(j)
  <2>1. job' \in [Jobs -> JobRecord]
    BY <1>k, <1>6, Moves DEF Returns
  <2>2. QED
    BY <1>6, <2>1 DEF Returns, TypeOK, JobRecord, Refs, ctl, aux
<1>7. CASE Blocks(j)
  <2>1. job' \in [Jobs -> JobRecord]
    BY <1>0, <1>k, <1>7, Moves DEF Blocks
  <2>2. QED
    BY <1>7, <2>1 DEF Blocks, TypeOK, JobRecord, Refs, ctl, aux
<1>8. CASE Unblocks(j)
  <2>1. job' \in [Jobs -> JobRecord]
    BY <1>k, <1>8, Moves DEF Unblocks
  <2>2. QED
    BY <1>8, <2>1 DEF Unblocks, TypeOK, JobRecord, Refs, ctl, aux
<1>9. CASE Leaves(j)
  <2>1. job' \in [Jobs -> JobRecord]
    BY <1>9, Going DEF Leaves
  <2>2. QED
    BY <1>9, <2>1 DEF Leaves, TypeOK, JobRecord, Refs, ctl, aux
<1>10. CASE Clears(j)
  <2>1. job' \in [Jobs -> JobRecord]
    BY <1>10, Going DEF Clears
  <2>2. QED
    BY <1>10, <2>1 DEF Clears, TypeOK, JobRecord, Refs, ctl, aux
<1>11. CASE Unsets(j)
  <2>1. job' \in [Jobs -> JobRecord]
    BY <1>11, Going DEF Unsets
  <2>2. jobCtx' \in [Runtimes -> {Free} \cup Jobs]
    BY <1>11 DEF Unsets, TypeOK
  <2>3. QED
    BY <1>11, <2>1, <2>2 DEF Unsets, TypeOK, JobRecord, Refs, ctl, aux
<1>12. CASE Reports(j)
  <2>1. /\ job' \in [Jobs -> JobRecord] /\ strayed' \in BOOLEAN /\ calm' \in BOOLEAN
        /\ events' \in Seq({UI} \cup Jobs) /\ Len(events') <= Queue
    <3>1. CASE job[j].rt = Repl
      BY <1>12, <3>1, CallTypes DEF Reports
    <3>2. CASE job[j].rt # Repl
      <4>1. Goes(j, "ended") /\ events' = events /\ strayed' = strayed /\ calm' = calm
        BY <1>12, <3>2 DEF Reports, aux
      <4>2. job' \in [Jobs -> JobRecord]
        BY <4>1, Going
      <4>3. QED
        BY <4>1, <4>2 DEF TypeOK
    <3>3. QED
      BY <3>1, <3>2
  <2>2. QED
    BY <1>12, <2>1 DEF Reports, TypeOK, JobRecord, Refs, ctl
<1>13. QED
  BY <1>1, <1>2, <1>3, <1>4, <1>5, <1>6, <1>7, <1>8, <1>9, <1>10, <1>11, <1>12 DEF Job

LEMMA TurnTypes ==
    ASSUME TypeOK, NEW pc \in UIPcs, NEW rt \in Runtimes, NEW ctx \in Refs, Turns(pc, rt, ctx)
    PROVE  /\ ui' \in [pc : UIPcs, rt : Runtimes, ctx : {Free} \cup Jobs, open : SUBSET Runtimes]
           /\ ui'.pc = pc /\ ui'.rt = rt
BY DEF TypeOK, Turns, Refs

LEMMA UITypes ==
    ASSUME TypeOK, [Keys \/ onUIMsg \/ GetsLock \/ PaneCallsUI \/ PaneCallReturns \/ PaneEnds
                    \/ \E rt \in Runtimes : Close(rt)]_vars
    PROVE  TypeOK'
<1>0. /\ Repl \in Runtimes /\ ContextOfJob \in Refs /\ Free \in Refs /\ UI \in {Free, UI} \cup Jobs
      /\ ui.rt \in Runtimes /\ ui.open \in SUBSET Runtimes
  BY DEF TypeOK, ContextOfJob, Refs, Runtimes
<1>p. {"loop", "locks", "lua", "waits", "closing"} \subseteq UIPcs /\ "start" \in JobPcs
  BY DEF UIPcs, JobPcs
<1>1. ASSUME NEW rt \in Runtimes, StartJob(rt) PROVE TypeOK'
  <2> DEFINE j == started + 1
  <2>1. j \in Jobs /\ job' = [job EXCEPT ![j] = [pc |-> "start", rt |-> rt, vm |-> Free, ctx |-> Free]]
    BY <1>1 DEF StartJob
  <2> HIDE DEF j
  <2>2. job' \in [Jobs -> JobRecord]
    BY <1>0, <1>p, <2>1 DEF TypeOK, JobRecord, Refs
  <2>3. jobCtx' \in [Runtimes -> {Free} \cup Jobs]
    BY <1>1, <2>1 DEF StartJob, SetJobContext, TypeOK, j
  <2>4. calm' \in BOOLEAN
    BY <1>1, Zenon DEF StartJob, TypeOK
  <2>5. started' \in {0} \cup Jobs /\ jobCancel' \in {Free} \cup Jobs /\ jobRT' \in Runtimes /\ jobBusy' \in BOOLEAN
    BY <1>1, <2>1 DEF StartJob, j
  <2>6. QED
    BY <1>1, <2>2, <2>3, <2>4, <2>5 DEF StartJob, TypeOK, JobRecord, Refs
<1>2. CASE CtrlC
  BY <1>2, Cancels DEF CtrlC, TypeOK, JobRecord, Refs, ctl, aux
<1>3. ASSUME NEW rt \in Runtimes, AskRuntime(rt) PROVE TypeOK'
  <2>1. ui' \in [pc : UIPcs, rt : Runtimes, ctx : {Free} \cup Jobs, open : SUBSET Runtimes]
    BY <1>0, <1>p, <1>3, TurnTypes DEF AskRuntime
  <2>2. mu' \in [Runtimes -> {Free, UI} \cup Jobs] /\ calm' \in BOOLEAN
    BY <1>0, <1>3 DEF AskRuntime, TypeOK
  <2>3. QED
    BY <1>3, <2>1, <2>2 DEF AskRuntime, TypeOK, ctl
<1>4. CASE Quit
  <2>1. ui' \in [pc : UIPcs, rt : Runtimes, ctx : {Free} \cup Jobs, open : SUBSET Runtimes]
    BY <1>0, <1>p, <1>4, TurnTypes DEF Quit
  <2>2. job' \in [Jobs -> JobRecord] /\ cancelled' \subseteq Jobs
    BY <1>4, Cancels DEF Quit
  <2>3. QED
    BY <1>4, <2>1, <2>2 DEF Quit, TypeOK, JobRecord, Refs, ctl, aux
<1>5. CASE onUIMsg
  <2>1. events' \in Seq({UI} \cup Jobs) /\ Len(events') = Len(events) - 1
    BY <1>5 DEF onUIMsg, TypeOK
  <2>2. Len(events') <= Queue
    BY <2>1, LuaJobsAssumption DEF TypeOK
  <2>3. QED
    BY <1>5, <2>1, <2>2 DEF onUIMsg, TypeOK, ctl, aux
<1>6. CASE GetsLock
  <2>1. ui' \in [pc : UIPcs, rt : Runtimes, ctx : {Free} \cup Jobs, open : SUBSET Runtimes]
    BY <1>0, <1>p, <1>6, TurnTypes DEF GetsLock
  <2>2. mu' \in [Runtimes -> {Free, UI} \cup Jobs]
    BY <1>0, <1>6 DEF GetsLock, TypeOK
  <2>3. QED
    BY <1>6, <2>1, <2>2 DEF GetsLock, TypeOK, ctl, aux
<1>7. CASE PaneCallsUI
  <2>1. ui' \in [pc : UIPcs, rt : Runtimes, ctx : {Free} \cup Jobs, open : SUBSET Runtimes]
    BY <1>0, <1>p, <1>7, TurnTypes DEF PaneCallsUI
  <2>2. Len(events) \in Nat /\ Len(events) < Queue /\ Queue \in Nat
    BY <1>7, LuaJobsAssumption DEF PaneCallsUI, CanPost, TypeOK
  <2>3. events' \in Seq({UI} \cup Jobs) /\ Len(events') = Len(events) + 1
    BY <1>7 DEF PaneCallsUI, TypeOK
  <2>4. Len(events') <= Queue
    BY <2>2, <2>3
  <2>5. QED
    BY <1>7, <2>1, <2>3, <2>4 DEF PaneCallsUI, TypeOK, ctl
<1>8. CASE PaneCallReturns
  <2>1. ui' \in [pc : UIPcs, rt : Runtimes, ctx : {Free} \cup Jobs, open : SUBSET Runtimes]
    BY <1>0, <1>p, <1>8, TurnTypes DEF PaneCallReturns
  <2>2. QED
    BY <1>8, <2>1 DEF PaneCallReturns, TypeOK, ctl, aux
<1>9. CASE PaneEnds
  <2>1. ui' \in [pc : UIPcs, rt : Runtimes, ctx : {Free} \cup Jobs, open : SUBSET Runtimes]
    BY <1>0, <1>p, <1>9, TurnTypes DEF PaneEnds
  <2>2. mu' \in [Runtimes -> {Free, UI} \cup Jobs]
    BY <1>0, <1>9 DEF PaneEnds, TypeOK
  <2>3. QED
    BY <1>9, <2>1, <2>2 DEF PaneEnds, TypeOK, ctl, aux
<1>10. ASSUME NEW rt \in Runtimes, Close(rt) PROVE TypeOK'
  BY <1>10 DEF Close, TypeOK, ctl, aux
<1>11. CASE UNCHANGED vars
  BY <1>11 DEF vars, ctl, aux, TypeOK
<1>12. QED
  BY <1>1, <1>2, <1>3, <1>4, <1>5, <1>6, <1>7, <1>8, <1>9, <1>10, <1>11 DEF Keys

LEMMA InitTypes == ASSUME Init PROVE TypeOK
<1>1. Repl \in Runtimes /\ 0 <= Queue
  BY LuaJobsAssumption DEF Runtimes
<1>2. ui \in [pc : UIPcs, rt : Runtimes, ctx : {Free} \cup Jobs, open : SUBSET Runtimes]
  BY <1>1 DEF Init, UIPcs
<1>3. job \in [Jobs -> [pc : JobPcs, rt : Runtimes, vm : {Free} \cup Jobs, ctx : {Free} \cup Jobs]]
  BY <1>1 DEF Init, JobPcs
<1>4. events \in Seq({UI} \cup Jobs) /\ Len(events) <= Queue
  BY <1>1 DEF Init
<1>5. QED
  BY <1>1, <1>2, <1>3, <1>4 DEF Init, TypeOK

(* The types hold in every behaviour, whatever the script and the UI       *)
(* thread do.                                                              *)
THEOREM TypesHold == Spec => []TypeOK
<1>1. TypeOK /\ [Next]_vars => TypeOK'
  BY JobTypes, UITypes DEF Next
<1>2. QED
  BY InitTypes, <1>1, PTL DEF Spec
---------------------------------------------------------------------------
(* Ctrl-C finds the running job. *)

(* The UI thread is none of the jobs, and neither is a free lock. *)
LEMMA Holders == Free \notin Jobs /\ UI \notin Jobs /\ UI # Free
BY LuaJobsAssumption DEF Free, UI, Jobs

(* A job that goes on, whose lock is as its new place wants it, and that is *)
(* not found by Ctrl-C any more only if it need not be.                     *)
LEMMA JobGoesOn ==
    ASSUME TypeOK, LockInv, NEW j \in Jobs,
           \A k \in Jobs \ {j} : job'[k] = job[k],
           job'[j].rt = job[j].rt, job[j].pc # "none",
           UNCHANGED <<mu, started, ui, ctl>>,
           HasLock(j) => job'[j].pc \in InLua,
           job'[j].pc \in {"runs", "sleeps", "system"} => HasLock(j),
           job'[j].pc \in {"calls", "waits"} => HasLock(j) \/ job[j].rt = Repl,
           job'[j].pc \in {"start", "locks", "clears"} => Current(j),
           job'[j].pc = "leaves" /\ job[j].rt # Repl => Current(j)
    PROVE  LockInv'
<1>1. HoldersAreIn'
  <2> SUFFICES ASSUME NEW rt \in Runtimes, mu[rt] \in Jobs
               PROVE  job'[mu[rt]].rt = rt /\ job'[mu[rt]].pc \in InLua
    BY DEF HoldersAreIn
  <2>1. job[mu[rt]].rt = rt /\ job[mu[rt]].pc \in InLua
    BY DEF LockInv, HoldersAreIn
  <2>2. QED
    BY <2>1 DEF HasLock
<1>2. InAreHolders'
  BY DEF LockInv, InAreHolders, HasLock
<1>3. UIHolds'
  BY DEF LockInv, UIHolds
<1>4. NotStarted'
  <2>1. ~(j > started)
    BY DEF LockInv, NotStarted
  <2>2. QED
    BY <2>1 DEF LockInv, NotStarted
<1>5. CurrentIsFound'
  <2> SUFFICES ASSUME NEW k \in Jobs, Current(k)' PROVE Found(k)'
    BY DEF CurrentIsFound
  <2>1. Current(k)
    <3>1. CASE k = j
      BY <3>1 DEF Current, HasLock
    <3>2. CASE k # j
      BY <3>2 DEF Current, HasLock
    <3>3. QED
      BY <3>1, <3>2
  <2>2. job'[k].rt = job[k].rt
    BY <2>1
  <2>3. QED
    BY <2>1, <2>2 DEF LockInv, CurrentIsFound, Found, ctl
<1>6. QED
  BY <1>1, <1>2, <1>3, <1>4, <1>5 DEF LockInv

(* The steps of a job that neither take nor give back a lock. *)
LEMMA JobSteps ==
    ASSUME TypeOK, LockInv, NEW j \in Jobs,
           \/ Begins(j) \/ LuaCallsUI(j) \/ ReadsContext(j) \/ Returns(j) \/ Blocks(j)
           \/ Unblocks(j) \/ Leaves(j) \/ Unsets(j) \/ Reports(j)
    PROVE  LockInv'
<1> USE DEF InLua, JobPcs
<1>0. /\ job[j].vm \in Refs /\ job[j].ctx \in Refs /\ Free \in Refs
      /\ ContextOfJob \in Refs /\ jobCtx[job[j].rt] \in Refs
  BY DEF TypeOK, ContextOfJob, Refs
<1>i. /\ job[j].pc \in {"runs", "sleeps", "system"} => HasLock(j)
      /\ job[j].pc \in {"calls", "waits"} => HasLock(j) \/ job[j].rt = Repl
  BY DEF LockInv, InAreHolders
<1>l. HasLock(j) => job[j].pc \in InLua
  BY DEF LockInv, HoldersAreIn, HasLock, TypeOK
<1>1. CASE Begins(j)
  <2>1. /\ job'[j].rt = job[j].rt /\ job'[j].pc = "locks" /\ \A k \in Jobs \ {j} : job'[k] = job[k]
    BY <1>1, Going DEF Begins, Starts
  <2>2. job[j].pc = "start" /\ UNCHANGED <<mu, started, ui, ctl>>
    BY <1>1 DEF Begins, Starts, ctl
  <2>3. QED
    BY <1>l, <2>1, <2>2, JobGoesOn DEF Current
<1>2. CASE LuaCallsUI(j)
  <2>1. /\ job'[j].rt = job[j].rt /\ job'[j].pc \in {"calls", "runs"}
        /\ \A k \in Jobs \ {j} : job'[k] = job[k]
    BY <1>2, CallTypes DEF LuaCallsUI
  <2>2. job[j].pc = "runs" /\ UNCHANGED <<mu, started, ui, ctl>>
    BY <1>2 DEF LuaCallsUI, ctl
  <2>3. QED
    BY <1>i, <2>1, <2>2, JobGoesOn DEF Current
<1>3. CASE ReadsContext(j)
  <2>1. /\ job'[j].rt = job[j].rt /\ job'[j].pc = "waits" /\ \A k \in Jobs \ {j} : job'[k] = job[k]
    BY <1>0, <1>3, Moves DEF ReadsContext
  <2>2. job[j].pc = "calls" /\ UNCHANGED <<mu, started, ui, ctl>>
    BY <1>3 DEF ReadsContext, ctl
  <2>3. QED
    BY <1>i, <2>1, <2>2, JobGoesOn DEF Current
<1>4. CASE Returns(j)
  <2>1. /\ job'[j].rt = job[j].rt /\ job'[j].pc = (IF HasLock(j) THEN "runs" ELSE "leaves")
        /\ \A k \in Jobs \ {j} : job'[k] = job[k]
    BY <1>0, <1>4, Moves DEF Returns
  <2>2. job[j].pc = "waits" /\ UNCHANGED <<mu, started, ui, ctl>>
    BY <1>4 DEF Returns, ctl
  <2>3. QED
    BY <1>i, <2>1, <2>2, JobGoesOn DEF Current
<1>5. CASE Blocks(j)
  <2>1. /\ job'[j].rt = job[j].rt /\ job'[j].pc \in {"sleeps", "system"}
        /\ \A k \in Jobs \ {j} : job'[k] = job[k]
    BY <1>0, <1>5, Moves DEF Blocks
  <2>2. job[j].pc = "runs" /\ UNCHANGED <<mu, started, ui, ctl>>
    BY <1>5 DEF Blocks, ctl
  <2>3. QED
    BY <1>i, <2>1, <2>2, JobGoesOn DEF Current
<1>6. CASE Unblocks(j)
  <2>1. /\ job'[j].rt = job[j].rt /\ job'[j].pc = "runs" /\ \A k \in Jobs \ {j} : job'[k] = job[k]
    BY <1>0, <1>6, Moves DEF Unblocks
  <2>2. job[j].pc \in {"sleeps", "system"} /\ UNCHANGED <<mu, started, ui, ctl>>
    BY <1>6 DEF Unblocks, Blocked, ctl
  <2>3. QED
    BY <1>i, <2>1, <2>2, JobGoesOn DEF Current
<1>7. CASE Leaves(j)
  <2>1. /\ job'[j].rt = job[j].rt /\ job'[j].pc = (IF job[j].rt = Repl THEN "ended" ELSE "clears")
        /\ \A k \in Jobs \ {j} : job'[k] = job[k]
    BY <1>7, Going DEF Leaves
  <2>2. job[j].pc = "leaves" /\ UNCHANGED <<mu, started, ui, ctl>>
    BY <1>7 DEF Leaves, ctl
  <2>3. QED
    BY <1>l, <2>1, <2>2, JobGoesOn DEF Current
<1>8. CASE Unsets(j)
  <2>1. /\ job'[j].rt = job[j].rt /\ job'[j].pc = "reports" /\ \A k \in Jobs \ {j} : job'[k] = job[k]
    BY <1>8, Going DEF Unsets
  <2>2. job[j].pc = "unsets" /\ UNCHANGED <<mu, started, ui, ctl>>
    BY <1>8 DEF Unsets, ctl
  <2>3. QED
    BY <1>l, <2>1, <2>2, JobGoesOn DEF Current
<1>9. CASE Reports(j)
  <2>1. job[j].pc = "reports" /\ UNCHANGED <<mu, started, ui, ctl>>
    BY <1>9 DEF Reports, ctl
  <2>2. CASE job[j].rt = Repl
    <3>1. /\ job'[j].rt = job[j].rt /\ job'[j].pc \in {"calls", "leaves"}
          /\ \A k \in Jobs \ {j} : job'[k] = job[k]
      BY <1>9, <2>2, CallTypes DEF Reports
    <3>2. QED
      BY <1>l, <2>1, <2>2, <3>1, JobGoesOn DEF Current
  <2>3. CASE job[j].rt # Repl
    <3>1. /\ job'[j].rt = job[j].rt /\ job'[j].pc = "ended" /\ \A k \in Jobs \ {j} : job'[k] = job[k]
      BY <1>9, <2>3, Going DEF Reports
    <3>2. QED
      BY <1>l, <2>1, <3>1, JobGoesOn DEF Current
  <2>4. QED
    BY <2>2, <2>3
<1>10. QED
  BY <1>1, <1>2, <1>3, <1>4, <1>5, <1>6, <1>7, <1>8, <1>9

(* Two current jobs are one. *)
LEMMA OneIsCurrent ==
    ASSUME LockInv, NEW j \in Jobs, NEW k \in Jobs, Current(j), Current(k) PROVE j = k
BY DEF LockInv, CurrentIsFound, Found

LEMMA TakesLock == ASSUME TypeOK, LockInv, NEW j \in Jobs, Locks(j) PROVE LockInv'
<1> USE DEF InLua, JobPcs
<1> DEFINE rt == job[j].rt
<1>1. /\ rt \in Runtimes /\ job[j].pc = "locks" /\ mu[rt] = Free /\ ~HasLock(j)
      /\ UNCHANGED <<started, ui, ctl>>
  BY Holders DEF Locks, TypeOK, HasLock, ctl
<1>2. CASE rt \notin ui.open
  <2>1. Goes(j, AfterLua(j)) /\ mu' = mu /\ AfterLua(j) \in {"clears", "leaves"}
    BY <1>2 DEF Locks, AfterLua
  <2>2. /\ job'[j].rt = job[j].rt /\ job'[j].pc \in {"clears", "leaves"}
        /\ \A k \in Jobs \ {j} : job'[k] = job[k]
    BY <2>1, Going
  <2>3. QED
    BY <1>1, <2>1, <2>2, JobGoesOn DEF Current
<1>3. CASE rt \in ui.open
  <2>1. Becomes(j, "runs", jobCtx[rt], Free) /\ mu' = [mu EXCEPT ![rt] = j]
    BY <1>3 DEF Locks
  <2>2. jobCtx[rt] \in Refs /\ Free \in Refs
    BY <1>1 DEF TypeOK, Refs
  <2>3. job'[j].rt = rt /\ job'[j].pc = "runs" /\ \A k \in Jobs \ {j} : job'[k] = job[k]
    BY <2>1, <2>2, Moves
  <2> HIDE DEF rt
  <2>4. mu'[rt] = j /\ \A r \in Runtimes \ {rt} : mu'[r] = mu[r]
    BY <1>1, <2>1 DEF TypeOK
  <2>5. \A r \in Runtimes : mu[r] # j
    BY <1>1 DEF LockInv, HoldersAreIn, HasLock, rt
  <2>6. HoldersAreIn'
    BY <2>3, <2>4, <2>5 DEF LockInv, HoldersAreIn
  <2>7. \A k \in Jobs : HasLock(k) => HasLock(k)'
    <3> SUFFICES ASSUME NEW k \in Jobs, HasLock(k) PROVE HasLock(k)'
      OBVIOUS
    <3>1. k # j /\ job'[k] = job[k] /\ job[k].rt # rt /\ job[k].rt \in Runtimes
      BY <1>1, <2>3, Holders DEF HasLock, TypeOK
    <3>2. QED
      BY <2>4, <3>1 DEF HasLock
  <2>8. InAreHolders'
    BY <2>3, <2>4, <2>7 DEF LockInv, InAreHolders, HasLock
  <2>9. UIHolds'
    BY <1>1, <2>4, Holders DEF LockInv, UIHolds, TypeOK
  <2>10. NotStarted'
    BY <1>1, <2>3 DEF LockInv, NotStarted
  <2>11. CurrentIsFound'
    <3> SUFFICES ASSUME NEW k \in Jobs, Current(k)' PROVE Found(k)'
      BY DEF CurrentIsFound
    <3>1. job'[k].rt = job[k].rt
      BY <2>3 DEF rt
    <3>2. Current(k)
      <4>1. CASE k = j
        BY <1>1, <4>1 DEF Current
      <4>2. CASE k # j
        <5>1. HasLock(k)' => HasLock(k)
          BY <2>3, <2>4, <4>2 DEF HasLock, TypeOK
        <5>2. QED
          BY <2>3, <4>2, <5>1 DEF Current
      <4>3. QED
        BY <4>1, <4>2
    <3>3. QED
      BY <1>1, <3>1, <3>2 DEF LockInv, CurrentIsFound, Found, ctl
  <2>12. QED
    BY <2>6, <2>8, <2>9, <2>10, <2>11 DEF LockInv
<1>4. QED
  BY <1>2, <1>3

LEMMA GivesLockBack == ASSUME TypeOK, LockInv, NEW j \in Jobs, Finishes(j) PROVE LockInv'
<1> USE DEF InLua, JobPcs
<1> DEFINE rt == job[j].rt
<1>1. /\ rt \in Runtimes /\ job[j].pc = "runs" /\ mu[rt] = j
      /\ UNCHANGED <<started, ui, ctl>>
  BY DEF Finishes, TypeOK, LockInv, InAreHolders, HasLock, ctl
<1>2. /\ job'[j].rt = rt /\ job'[j].pc = AfterLua(j) /\ \A k \in Jobs \ {j} : job'[k] = job[k]
  <2>1. Free \in Refs /\ AfterLua(j) \in JobPcs
    BY DEF Refs, AfterLua
  <2>2. QED
    BY <2>1, Moves DEF Finishes
<1>3. mu' = [mu EXCEPT ![rt] = Free]
  BY DEF Finishes
<1> HIDE DEF rt
<1>4. mu'[rt] = Free /\ \A r \in Runtimes \ {rt} : mu'[r] = mu[r]
  BY <1>1, <1>3 DEF TypeOK
<1>5. \A r \in Runtimes : mu[r] = j => r = rt
  BY DEF LockInv, HoldersAreIn, rt
<1>6. HoldersAreIn'
  BY <1>2, <1>4, <1>5, Holders DEF LockInv, HoldersAreIn
<1>7. \A k \in Jobs \ {j} : HasLock(k) <=> HasLock(k)'
  <2> SUFFICES ASSUME NEW k \in Jobs \ {j} PROVE HasLock(k) <=> HasLock(k)'
    OBVIOUS
  <2>1. job'[k] = job[k] /\ job[k].rt \in Runtimes /\ k # Free
    BY <1>2, Holders DEF TypeOK
  <2>2. QED
    BY <1>1, <1>4, <2>1 DEF HasLock
<1>8. AfterLua(j) \in {"clears", "leaves"} /\ (AfterLua(j) = "leaves" => rt # Repl)
  BY DEF AfterLua, rt
<1>9. InAreHolders'
  BY <1>2, <1>7, <1>8 DEF LockInv, InAreHolders
<1>10. UIHolds'
  BY <1>1, <1>4, Holders DEF LockInv, UIHolds, TypeOK
<1>11. NotStarted'
  BY <1>1, <1>2 DEF LockInv, NotStarted
<1>12. CurrentIsFound'
  <2> SUFFICES ASSUME NEW k \in Jobs, Current(k)' PROVE Found(k)'
    BY DEF CurrentIsFound
  <2>1. job'[k].rt = job[k].rt
    BY <1>2 DEF rt
  <2>2. Current(k)
    <3>1. CASE k = j
      BY <1>1, <3>1 DEF Current, HasLock, rt
    <3>2. CASE k # j
      BY <1>2, <1>7, <3>2 DEF Current
    <3>3. QED
      BY <3>1, <3>2
  <2>3. QED
    BY <1>1, <2>1, <2>2 DEF LockInv, CurrentIsFound, Found, ctl
<1>13. QED
  BY <1>6, <1>9, <1>10, <1>11, <1>12 DEF LockInv

LEMMA ClearsBusy == ASSUME TypeOK, LockInv, NEW j \in Jobs, Clears(j) PROVE LockInv'
<1> USE DEF InLua, JobPcs
<1>1. /\ job[j].pc = "clears" /\ UNCHANGED <<mu, started, ui>>
      /\ job'[j].rt = job[j].rt /\ job'[j].pc = "unsets" /\ \A k \in Jobs \ {j} : job'[k] = job[k]
  BY Going DEF Clears
<1>2. ~HasLock(j)
  BY <1>1 DEF LockInv, HoldersAreIn, HasLock, TypeOK
<1>3. HoldersAreIn'
  <2>1. \A r \in Runtimes : mu[r] # j
    BY <1>1 DEF LockInv, HoldersAreIn
  <2>2. QED
    BY <1>1, <2>1 DEF LockInv, HoldersAreIn
<1>4. InAreHolders'
  BY <1>1 DEF LockInv, InAreHolders, HasLock
<1>5. UIHolds'
  BY <1>1 DEF LockInv, UIHolds
<1>6. NotStarted'
  BY <1>1 DEF LockInv, NotStarted
<1>7. CurrentIsFound'
  <2> SUFFICES ASSUME NEW k \in Jobs, Current(k)' PROVE FALSE
    BY DEF CurrentIsFound
  <2>1. k # j
    BY <1>1, <1>2 DEF Current, HasLock
  <2>2. Current(k)
    BY <1>1, <2>1 DEF Current, HasLock
  <2>3. Current(j)
    BY <1>1 DEF Current
  <2>4. QED
    BY <2>1, <2>2, <2>3, OneIsCurrent
<1>8. QED
  BY <1>3, <1>4, <1>5, <1>6, <1>7 DEF LockInv

(* A step of the UI thread that leaves the jobs where they are, up to a    *)
(* system call that was killed, and the locks the jobs hold with them.     *)
LEMMA UIGoesOn ==
    ASSUME TypeOK, LockInv,
           \A k \in Jobs : /\ job'[k].rt = job[k].rt
                           /\ \/ job'[k].pc = job[k].pc
                              \/ job[k].pc = "system" /\ job'[k].pc = "runs",
           \A rt \in Runtimes, k \in Jobs : mu[rt] = k <=> mu'[rt] = k,
           UNCHANGED <<started, ctl>>,
           UIHolds'
    PROVE  LockInv'
<1> USE DEF InLua
<1>1. \A k \in Jobs : HasLock(k) <=> HasLock(k)'
  BY DEF HasLock, TypeOK
<1>2. HoldersAreIn'
  BY DEF LockInv, HoldersAreIn
<1>3. InAreHolders'
  BY <1>1 DEF LockInv, InAreHolders
<1>4. NotStarted'
  BY DEF LockInv, NotStarted
<1>5. CurrentIsFound'
  <2> SUFFICES ASSUME NEW k \in Jobs, Current(k)' PROVE Found(k)'
    BY DEF CurrentIsFound
  <2>1. Current(k)
    BY <1>1 DEF Current
  <2>2. QED
    BY <2>1 DEF LockInv, CurrentIsFound, Found, ctl
<1>6. QED
  BY <1>2, <1>3, <1>4, <1>5 DEF LockInv

(* A job starts only when no other is current. *)
LEMMA JobStarts == ASSUME TypeOK, LockInv, NEW rt \in Runtimes, StartJob(rt) PROVE LockInv'
<1> USE DEF InLua, JobPcs
<1> DEFINE j == started + 1
<1>1. /\ j \in Jobs /\ j > started /\ started' = j /\ ~jobBusy /\ UNCHANGED <<mu, ui>>
      /\ jobBusy' /\ jobCancel' = j /\ jobRT' = rt
      /\ job' = [job EXCEPT ![j] = [pc |-> "start", rt |-> rt, vm |-> Free, ctx |-> Free]]
  BY DEF StartJob, MayStart, TypeOK, Jobs
<1>2. \A k \in Jobs : k > j => k > started
  BY DEF TypeOK, Jobs
<1> HIDE DEF j
<1>3. job[j].pc = "none"
  BY <1>1 DEF LockInv, NotStarted
<1>4. job'[j].pc = "start" /\ job'[j].rt = rt /\ \A k \in Jobs \ {j} : job'[k] = job[k]
  BY <1>1 DEF TypeOK
<1>5. \A r \in Runtimes : mu[r] # j
  BY <1>1, <1>3 DEF LockInv, HoldersAreIn
<1>6. HoldersAreIn'
  BY <1>1, <1>4, <1>5 DEF LockInv, HoldersAreIn
<1>7. InAreHolders'
  BY <1>1, <1>4 DEF LockInv, InAreHolders, HasLock
<1>8. UIHolds'
  BY <1>1 DEF LockInv, UIHolds
<1>9. NotStarted'
  <2> SUFFICES ASSUME NEW k \in Jobs, k > j PROVE job'[k].pc = "none"
    BY <1>1 DEF NotStarted
  <2>1. k > started /\ k # j
    BY <1>1, <1>2 DEF Jobs
  <2>2. QED
    BY <1>4, <2>1 DEF LockInv, NotStarted
<1>10. CurrentIsFound'
  <2> SUFFICES ASSUME NEW k \in Jobs, Current(k)' PROVE Found(k)'
    BY DEF CurrentIsFound
  <2>1. CASE k = j
    BY <1>1, <1>4, <2>1 DEF Found
  <2>2. CASE k # j
    <3>1. Current(k)
      BY <1>1, <1>4, <2>2 DEF Current, HasLock
    <3>2. QED
      BY <1>1, <3>1 DEF LockInv, CurrentIsFound, Found
  <2>3. QED
    BY <2>1, <2>2
<1>11. QED
  BY <1>6, <1>7, <1>8, <1>9, <1>10 DEF LockInv

LEMMA UISteps ==
    ASSUME TypeOK, LockInv,
           [Keys \/ onUIMsg \/ GetsLock \/ PaneCallsUI \/ PaneCallReturns \/ PaneEnds
            \/ \E rt \in Runtimes : Close(rt)]_vars
    PROVE  LockInv'
<1>0. Repl \in Runtimes /\ ui.rt \in Runtimes /\ ContextOfJob \in Refs /\ Free \in Refs
  BY DEF TypeOK, Runtimes, ContextOfJob, Refs
<1>p. {"loop", "locks", "lua", "waits", "closing"} \subseteq UIPcs
  BY DEF UIPcs
<1>1. ASSUME NEW rt \in Runtimes, StartJob(rt) PROVE LockInv'
  BY <1>1, JobStarts
<1>2. CASE CtrlC
  <2>1. UIHolds'
    BY <1>2 DEF CtrlC, LockInv, UIHolds
  <2>2. QED
    BY <1>2, <2>1, Cancels, UIGoesOn DEF CtrlC, ctl
<1>3. CASE Quit
  <2>1. UIHolds'
    <3>1. ui'.pc = "closing"
      BY <1>0, <1>p, <1>3, TurnTypes DEF Quit
    <3>2. QED
      BY <3>1 DEF UIHolds
  <2>2. QED
    BY <1>3, <2>1, Cancels, UIGoesOn DEF Quit, ctl
<1>4. ASSUME NEW rt \in Runtimes, mu[rt] = Free, mu' = [mu EXCEPT ![rt] = UI], Turns("lua", rt, Free),
             UNCHANGED <<job, started, ctl>>
      PROVE  LockInv'
  <2>1. ui'.pc = "lua" /\ ui'.rt = rt
    BY <1>0, <1>p, <1>4, TurnTypes
  <2>2. mu'[rt] = UI /\ \A r \in Runtimes \ {rt} : mu'[r] = mu[r]
    BY <1>4 DEF TypeOK
  <2>3. UIHolds'
    BY <2>1, <2>2 DEF UIHolds
  <2>4. QED
    BY <1>4, <2>2, <2>3, Holders, UIGoesOn DEF ctl
<1>5. ASSUME NEW rt \in Runtimes, AskRuntime(rt) PROVE LockInv'
  <2>1. CASE mu[rt] = Free
    BY <1>4, <1>5, <2>1 DEF AskRuntime, ctl
  <2>2. CASE mu[rt] # Free
    <3>1. Turns("locks", rt, Free) /\ mu' = mu /\ job' = job /\ UNCHANGED <<started, ctl>>
      BY <1>5, <2>2 DEF AskRuntime, ctl
    <3>2. ui'.pc = "locks"
      BY <1>0, <1>p, <3>1, TurnTypes
    <3>3. QED
      BY <3>1, <3>2, UIGoesOn DEF UIHolds, ctl
  <2>3. QED
    BY <2>1, <2>2
<1>6. CASE GetsLock
  BY <1>0, <1>4, <1>6 DEF GetsLock, ctl
<1>7. CASE PaneCallsUI
  <2>1. Turns("waits", ui.rt, ContextOfJob) /\ ui.pc = "lua" /\ UNCHANGED <<mu, job, started, ctl>>
    BY <1>7 DEF PaneCallsUI, ctl
  <2>2. ui'.rt = ui.rt /\ mu[ui.rt] = UI
    BY <1>0, <1>p, <2>1, TurnTypes DEF LockInv, UIHolds
  <2>3. UIHolds'
    BY <2>1, <2>2 DEF UIHolds
  <2>4. QED
    BY <2>1, <2>3, UIGoesOn DEF ctl
<1>8. CASE PaneCallReturns
  <2>1. Turns("lua", ui.rt, Free) /\ ui.pc = "waits" /\ UNCHANGED <<mu, job, started, ctl>>
    BY <1>8 DEF PaneCallReturns, ctl
  <2>2. ui'.rt = ui.rt /\ mu[ui.rt] = UI
    BY <1>0, <1>p, <2>1, TurnTypes DEF LockInv, UIHolds
  <2>3. UIHolds'
    BY <2>1, <2>2 DEF UIHolds
  <2>4. QED
    BY <2>1, <2>3, UIGoesOn DEF ctl
<1>9. CASE PaneEnds
  <2>1. /\ Turns("loop", Repl, Free) /\ mu[ui.rt] = UI /\ mu' = [mu EXCEPT ![ui.rt] = Free]
        /\ UNCHANGED <<job, started, ctl>>
    BY <1>9 DEF PaneEnds, LockInv, UIHolds, ctl
  <2>2. mu'[ui.rt] = Free /\ \A r \in Runtimes \ {ui.rt} : mu'[r] = mu[r]
    BY <1>0, <2>1 DEF TypeOK
  <2>3. ui'.pc = "loop"
    BY <1>0, <1>p, <2>1, TurnTypes
  <2>4. UIHolds'
    BY <2>3 DEF UIHolds
  <2>5. QED
    BY <2>1, <2>2, <2>4, Holders, UIGoesOn DEF ctl
<1>10. ASSUME NEW rt \in Runtimes, Close(rt) PROVE LockInv'
  <2>1. ui'.pc = "closing" /\ UNCHANGED <<mu, job, started, ctl>>
    BY <1>10 DEF Close, TypeOK, ctl
  <2>2. QED
    BY <2>1, UIGoesOn DEF UIHolds, ctl
<1>11. CASE onUIMsg
  <2>1. UNCHANGED <<mu, job, started, ctl, ui>>
    BY <1>11 DEF onUIMsg, ctl
  <2>2. QED
    BY <2>1, UIGoesOn DEF UIHolds, LockInv, ctl
<1>12. CASE UNCHANGED vars
  <2>1. UNCHANGED <<mu, job, started, ctl, ui>>
    BY <1>12 DEF vars, ctl
  <2>2. QED
    BY <2>1, UIGoesOn DEF UIHolds, LockInv, ctl
<1>13. QED
  BY <1>1, <1>2, <1>3, <1>5, <1>6, <1>7, <1>8, <1>9, <1>10, <1>11, <1>12 DEF Keys

LEMMA InitLocks == ASSUME Init PROVE LockInv
<1>1. \A k \in Jobs : job[k].pc = "none" /\ job[k].rt = Repl
  BY DEF Init
<1>2. \A rt \in Runtimes : mu[rt] \notin Jobs
  BY Holders DEF Init
<1>3. \A k \in Jobs : ~HasLock(k)
  BY <1>1, <1>2 DEF HasLock, Runtimes
<1>4. ui.pc = "loop"
  BY DEF Init
<1>5. QED
  BY <1>1, <1>2, <1>3, <1>4
  DEF LockInv, HoldersAreIn, InAreHolders, UIHolds, NotStarted, CurrentIsFound, Current

LEMMA LocksKept == TypeOK /\ LockInv /\ [Next]_vars => LockInv'
<1> SUFFICES ASSUME TypeOK, LockInv, [Next]_vars PROVE LockInv'
  OBVIOUS
<1>1. ASSUME NEW j \in Jobs, Job(j) PROVE LockInv'
  BY <1>1, JobSteps, TakesLock, GivesLockBack, ClearsBusy DEF Job
<1>2. QED
  BY <1>1, UISteps DEF Next

(* While a script runs or is about to, Ctrl-C finds its job: no goroutine  *)
(* that ends late, no UI thread that waits for the VM and no job that was  *)
(* started meanwhile gets in the way.                                      *)
THEOREM JobIsFound == Spec => []CtrlCFindsTheJob
<1>1. CurrentIsFound => CtrlCFindsTheJob
  BY DEF CurrentIsFound, Current, Found, CtrlCFindsTheJob, Active
<1>2. LockInv => CtrlCFindsTheJob
  BY <1>1 DEF LockInv
<1>3. Spec => []LockInv
  BY InitLocks, LocksKept, TypesHold, PTL DEF Spec
<1>4. QED
  BY <1>2, <1>3, PTL
---------------------------------------------------------------------------
(* Work goes to the UI thread, and Ctrl-C reaches what a job waits in. *)

(* The goroutine is where onWorker should be set. *)
Works(j) ==
    \/ job[j].pc \in InLua \cup {"locks", "leaves"}
    \/ job[j].rt = Repl /\ job[j].pc \in {"clears", "unsets", "reports"}

OwnContext(j) ==
    /\ Active(j) => jobCtx[job[j].rt] = j
    /\ HasLock(j) => job[j].vm = j /\ (job[j].pc \in {"waits", "sleeps", "system"} => job[j].ctx = j)

(* Jobs follow each other, so that the last one started is the only one    *)
(* that may set, clear or read what they share.                            *)
OthersEnded == \A k \in Jobs : k < started => job[k].pc = "ended"

LastWorks ==
    /\ started = 0 => ~onWorker
    /\ \A j \in Jobs : j = started => (onWorker <=> Works(j)) /\ OwnContext(j)

Calm == ~strayed /\ OthersEnded /\ LastWorks

CalmInv == calm => Calm

(* A job that takes a step is the last one. *)
LEMMA LastSteps ==
    ASSUME TypeOK, LockInv, Calm, NEW j \in Jobs, job[j].pc \notin {"none", "ended"}
    PROVE  j = started
<1>1. ~(j > started)
  BY DEF LockInv, NotStarted
<1>2. ~(j < started)
  BY DEF Calm, OthersEnded
<1>3. j \in Nat /\ started \in Nat
  BY DEF TypeOK, Jobs
<1>4. QED
  BY <1>1, <1>2, <1>3

(* What a step of the last job has to show. *)
LEMMA LastGoesOn ==
    ASSUME TypeOK, LockInv, Calm, NEW j \in Jobs, job[j].pc \notin {"none", "ended"},
           \A k \in Jobs \ {j} : job'[k] = job[k],
           started' = started, ~strayed',
           onWorker' <=> Works(j)', OwnContext(j)'
    PROVE  Calm'
<1>1. j = started /\ started # 0
  <2>1. j = started
    BY LastSteps
  <2>2. QED
    BY <2>1 DEF Jobs
<1>2. OthersEnded'
  <2> SUFFICES ASSUME NEW k \in Jobs, k < started PROVE job'[k].pc = "ended"
    BY DEF OthersEnded
  <2>1. k # j
    BY <1>1 DEF Jobs
  <2>2. QED
    BY <2>1 DEF Calm, OthersEnded
<1>3. LastWorks'
  BY <1>1 DEF LastWorks
<1>4. QED
  BY <1>2, <1>3 DEF Calm

(* A job that goes on without its lock, its runtime's context or the flag  *)
(* being touched. *)
LEMMA FlagGoesOn ==
    ASSUME TypeOK, LockInv, Calm, NEW j \in Jobs, job[j].pc \notin {"none", "ended"},
           \A k \in Jobs \ {j} : job'[k] = job[k],
           UNCHANGED <<mu, jobCtx, onWorker, started, strayed>>,
           job'[j].rt = job[j].rt, job'[j].vm = job[j].vm,
           Works(j) <=> Works(j)',
           job'[j].pc \in {"start", "locks"} => Active(j),
           HasLock(j) /\ job'[j].pc \in {"waits", "sleeps", "system"} => job'[j].ctx = j
    PROVE  Calm'
<1>1. j = started
  BY LastSteps
<1>2. (onWorker <=> Works(j)) /\ OwnContext(j) /\ ~strayed
  BY <1>1 DEF Calm, LastWorks
<1>3. HasLock(j)' <=> HasLock(j)
  BY DEF HasLock
<1>4. Active(j)' => Active(j)
  BY <1>3 DEF Active
<1>5. OwnContext(j)'
  BY <1>2, <1>3, <1>4 DEF OwnContext
<1>6. QED
  BY <1>2, <1>5, LastGoesOn

LEMMA CalmJobs ==
    ASSUME TypeOK, LockInv, CalmInv, NEW j \in Jobs, Job(j) PROVE CalmInv'
<1> SUFFICES ASSUME calm' PROVE Calm'
  BY DEF CalmInv
<1> USE DEF InLua, JobPcs
<1>a. /\ job[j].pc \notin {"none", "ended"} /\ calm
      /\ job[j].pc \notin {"runs", "reports"} => UNCHANGED aux
  BY DEF Job, Begins, Starts, Locks, Finishes, LuaCallsUI, CallsUI, ReadsContext, Returns, Blocks,
         Unblocks, Blocked, Leaves, Clears, Unsets, Reports, aux
<1>0. /\ job[j].vm \in Refs /\ job[j].ctx \in Refs /\ Free \in Refs
      /\ ContextOfJob \in Refs /\ jobCtx[job[j].rt] \in Refs /\ job[j].rt \in Runtimes
      /\ j # Free
  BY Holders DEF TypeOK, ContextOfJob, Refs
<1>c. Calm
  BY <1>a DEF CalmInv
<1>l. (onWorker <=> Works(j)) /\ OwnContext(j) /\ ~strayed
  BY <1>a, <1>c, LastSteps DEF Calm, LastWorks
<1>h. HasLock(j) => job[j].pc \in InLua
  BY DEF LockInv, HoldersAreIn, HasLock, TypeOK
<1>i. job[j].pc \in {"runs", "sleeps", "system"} => HasLock(j)
  BY DEF LockInv, InAreHolders
<1>1. CASE Begins(j)
  <2>1. /\ job'[j].rt = job[j].rt /\ job'[j].vm = job[j].vm /\ job'[j].pc = "locks"
        /\ \A k \in Jobs \ {j} : job'[k] = job[k]
    BY <1>1, Going DEF Begins, Starts
  <2>2. job[j].pc = "start" /\ onWorker' = TRUE /\ UNCHANGED <<mu, jobCtx, started, strayed>>
    BY <1>1 DEF Begins, Starts, aux
  <2>3. ~HasLock(j)
    BY <1>h, <2>2
  <2>4. OwnContext(j)' /\ Works(j)'
    BY <1>l, <2>1, <2>2, <2>3 DEF OwnContext, Active, HasLock, Works
  <2>5. QED
    BY <1>a, <1>c, <1>l, <2>1, <2>2, <2>4, LastGoesOn
<1>2. CASE Locks(j)
  <2>1. /\ job[j].pc = "locks" /\ mu[job[j].rt] = Free /\ ~HasLock(j)
        /\ UNCHANGED <<jobCtx, onWorker, started, strayed>>
    BY <1>2, Holders DEF Locks, HasLock, aux
  <2>2. CASE job[j].rt \in ui.open
    <3>1. Becomes(j, "runs", jobCtx[job[j].rt], Free) /\ mu' = [mu EXCEPT ![job[j].rt] = j]
      BY <1>2, <2>2 DEF Locks
    <3>2. /\ job'[j].rt = job[j].rt /\ job'[j].vm = jobCtx[job[j].rt] /\ job'[j].pc = "runs"
          /\ \A k \in Jobs \ {j} : job'[k] = job[k]
      BY <1>0, <3>1, Moves
    <3>3. jobCtx[job[j].rt] = j
      BY <1>l, <2>1 DEF OwnContext, Active
    <3>4. OwnContext(j)' /\ Works(j)' /\ Works(j)
      BY <2>1, <3>2, <3>3 DEF OwnContext, Works
    <3>5. QED
      BY <1>a, <1>c, <1>l, <2>1, <3>2, <3>4, LastGoesOn
  <2>3. CASE job[j].rt \notin ui.open
    <3>1. Goes(j, AfterLua(j)) /\ mu' = mu /\ AfterLua(j) \in {"clears", "leaves"}
          /\ (AfterLua(j) = "clears" <=> job[j].rt = Repl)
      BY <1>2, <2>3 DEF Locks, AfterLua
    <3>2. /\ job'[j].rt = job[j].rt /\ job'[j].vm = job[j].vm /\ job'[j].pc = AfterLua(j)
          /\ \A k \in Jobs \ {j} : job'[k] = job[k]
      BY <3>1, Going
    <3>3. Works(j) <=> Works(j)'
      BY <2>1, <3>1, <3>2 DEF Works
    <3>4. QED
      BY <1>a, <1>c, <2>1, <3>1, <3>2, <3>3, FlagGoesOn
  <2>4. QED
    BY <2>2, <2>3
<1>3. CASE Finishes(j)
  <2>1. /\ job[j].pc = "runs" /\ mu' = [mu EXCEPT ![job[j].rt] = Free]
        /\ UNCHANGED <<jobCtx, onWorker, started, strayed>>
    BY <1>3 DEF Finishes, aux
  <2>2. AfterLua(j) \in JobPcs \cap {"clears", "leaves"} /\ (AfterLua(j) = "clears" <=> job[j].rt = Repl)
    BY DEF AfterLua
  <2>3. /\ job'[j].rt = job[j].rt /\ job'[j].pc = AfterLua(j)
        /\ \A k \in Jobs \ {j} : job'[k] = job[k]
    BY <1>0, <1>3, <2>2, Moves DEF Finishes
  <2>4. ~HasLock(j)'
    BY <1>0, <2>1, <2>3 DEF HasLock, TypeOK
  <2>5. OwnContext(j)'
    BY <2>2, <2>3, <2>4 DEF OwnContext, Active
  <2>6. Works(j) /\ Works(j)'
    BY <2>1, <2>2, <2>3 DEF Works
  <2>7. QED
    BY <1>a, <1>c, <1>l, <2>1, <2>3, <2>5, <2>6, LastGoesOn
<1>4. ASSUME NEW back \in JobPcs, CallsUI(j, back), Works(j), job[j].pc # "start",
             UNCHANGED <<mu, jobCtx, onWorker, started>>
      PROVE  Calm'
  <2>1. onWorker /\ CanPost
    BY <1>4, <1>l DEF CallsUI
  <2>2. Goes(j, "calls") /\ strayed' = strayed
    BY <1>4, <2>1 DEF CallsUI
  <2>3. /\ job'[j].rt = job[j].rt /\ job'[j].vm = job[j].vm /\ job'[j].pc = "calls"
        /\ \A k \in Jobs \ {j} : job'[k] = job[k]
    BY <2>2, Going
  <2>4. Works(j)'
    BY <2>3 DEF Works
  <2>5. QED
    BY <1>4, <1>a, <1>c, <2>2, <2>3, <2>4, FlagGoesOn
<1>5. CASE LuaCallsUI(j)
  <2>1. Works(j)
    BY <1>5 DEF LuaCallsUI, Works
  <2>2. QED
    BY <1>4, <1>5, <2>1 DEF LuaCallsUI
<1>6. CASE ReadsContext(j)
  <2>1. /\ job'[j].rt = job[j].rt /\ job'[j].vm = job[j].vm /\ job'[j].pc = "waits"
        /\ job'[j].ctx = ContextOfJob
        /\ \A k \in Jobs \ {j} : job'[k] = job[k]
    BY <1>0, <1>6, Moves DEF ReadsContext
  <2>2. job[j].pc = "calls" /\ UNCHANGED <<mu, jobCtx, onWorker, started, strayed>>
    BY <1>6 DEF ReadsContext, aux
  <2>3. HasLock(j) => ContextOfJob = j
    <3> SUFFICES ASSUME HasLock(j) PROVE ContextOfJob = j
      OBVIOUS
    <3>1. jobCancel = j /\ jobRT = job[j].rt
      BY DEF LockInv, CurrentIsFound, Current, Found
    <3>2. jobCtx[job[j].rt] = j
      BY <1>l DEF OwnContext, Active
    <3>3. QED
      BY <1>0, <3>1, <3>2 DEF ContextOfJob
  <2>4. Works(j) /\ Works(j)'
    BY <2>1, <2>2 DEF Works
  <2>5. QED
    BY <1>a, <1>c, <2>1, <2>2, <2>3, <2>4, FlagGoesOn
<1>7. CASE Returns(j)
  <2>1. /\ job'[j].rt = job[j].rt /\ job'[j].vm = job[j].vm
        /\ job'[j].pc \in {"runs", "leaves"}
        /\ \A k \in Jobs \ {j} : job'[k] = job[k]
    BY <1>0, <1>7, Moves DEF Returns
  <2>2. job[j].pc = "waits" /\ UNCHANGED <<mu, jobCtx, onWorker, started, strayed>>
    BY <1>7 DEF Returns, aux
  <2>3. Works(j) /\ Works(j)'
    BY <2>1, <2>2 DEF Works
  <2>4. QED
    BY <1>a, <1>c, <2>1, <2>2, <2>3, FlagGoesOn
<1>8. CASE Blocks(j)
  <2>1. /\ job'[j].rt = job[j].rt /\ job'[j].vm = job[j].vm
        /\ job'[j].pc \in {"sleeps", "system"} /\ job'[j].ctx = jobCtx[job[j].rt]
        /\ \A k \in Jobs \ {j} : job'[k] = job[k]
    BY <1>0, <1>8, Moves DEF Blocks
  <2>2. job[j].pc = "runs" /\ UNCHANGED <<mu, jobCtx, onWorker, started, strayed>>
    BY <1>8 DEF Blocks, aux
  <2>3. jobCtx[job[j].rt] = j
    BY <1>i, <1>l, <2>2 DEF OwnContext, Active
  <2>4. Works(j) /\ Works(j)'
    BY <2>1, <2>2 DEF Works
  <2>5. QED
    BY <1>a, <1>c, <2>1, <2>2, <2>3, <2>4, FlagGoesOn
<1>9. CASE Unblocks(j)
  <2>1. /\ job'[j].rt = job[j].rt /\ job'[j].vm = job[j].vm /\ job'[j].pc = "runs"
        /\ \A k \in Jobs \ {j} : job'[k] = job[k]
    BY <1>0, <1>9, Moves DEF Unblocks
  <2>2. job[j].pc \in {"sleeps", "system"} /\ UNCHANGED <<mu, jobCtx, onWorker, started, strayed>>
    BY <1>9 DEF Unblocks, Blocked, aux
  <2>3. Works(j) /\ Works(j)'
    BY <2>1, <2>2 DEF Works
  <2>4. QED
    BY <1>a, <1>c, <2>1, <2>2, <2>3, FlagGoesOn
<1>10. CASE Leaves(j)
  <2>1. /\ job'[j].rt = job[j].rt /\ job'[j].pc = (IF job[j].rt = Repl THEN "ended" ELSE "clears")
        /\ \A k \in Jobs \ {j} : job'[k] = job[k]
    BY <1>10, Going DEF Leaves
  <2>2. job[j].pc = "leaves" /\ onWorker' = FALSE /\ UNCHANGED <<mu, jobCtx, started, strayed>>
    BY <1>10 DEF Leaves, aux
  <2>3. ~HasLock(j)
    BY <1>h, <2>2
  <2>4. OwnContext(j)' /\ ~Works(j)'
    BY <2>1, <2>2, <2>3 DEF OwnContext, Active, HasLock, Works
  <2>5. QED
    BY <1>a, <1>c, <1>l, <2>1, <2>2, <2>4, LastGoesOn
<1>11. CASE Clears(j)
  <2>1. /\ job'[j].rt = job[j].rt /\ job'[j].vm = job[j].vm /\ job'[j].pc = "unsets"
        /\ \A k \in Jobs \ {j} : job'[k] = job[k]
    BY <1>11, Going DEF Clears
  <2>2. job[j].pc = "clears" /\ UNCHANGED <<mu, jobCtx, onWorker, started, strayed>>
    BY <1>11 DEF Clears, aux
  <2>3. Works(j) <=> Works(j)'
    BY <2>1, <2>2 DEF Works
  <2>4. QED
    BY <1>a, <1>c, <2>1, <2>2, <2>3, FlagGoesOn
<1>12. CASE Unsets(j)
  <2>1. /\ job'[j].rt = job[j].rt /\ job'[j].pc = "reports"
        /\ \A k \in Jobs \ {j} : job'[k] = job[k]
    BY <1>12, Going DEF Unsets
  <2>2. job[j].pc = "unsets" /\ UNCHANGED <<mu, onWorker, started, strayed>>
    BY <1>12 DEF Unsets, aux
  <2>3. ~HasLock(j)
    BY <1>h, <2>2
  <2>4. OwnContext(j)'
    BY <2>1, <2>2, <2>3 DEF OwnContext, Active, HasLock
  <2>5. Works(j) <=> Works(j)'
    BY <2>1, <2>2 DEF Works
  <2>6. QED
    BY <1>a, <1>c, <1>l, <2>1, <2>2, <2>4, <2>5, LastGoesOn
<1>13. CASE Reports(j)
  <2>1. job[j].pc = "reports" /\ UNCHANGED <<mu, jobCtx, onWorker, started>>
    BY <1>13 DEF Reports
  <2>2. CASE job[j].rt = Repl
    BY <1>4, <1>13, <2>1, <2>2 DEF Reports, Works
  <2>3. CASE job[j].rt # Repl
    <3>1. Goes(j, "ended") /\ strayed' = strayed
      BY <1>13, <2>3 DEF Reports, aux
    <3>2. /\ job'[j].rt = job[j].rt /\ job'[j].vm = job[j].vm /\ job'[j].pc = "ended"
          /\ \A k \in Jobs \ {j} : job'[k] = job[k]
      BY <3>1, Going
    <3>3. Works(j) <=> Works(j)'
      BY <2>1, <2>3, <3>2 DEF Works
    <3>4. QED
      BY <1>a, <1>c, <2>1, <3>1, <3>2, <3>3, FlagGoesOn
  <2>4. QED
    BY <2>2, <2>3
<1>14. QED
  BY <1>1, <1>2, <1>3, <1>5, <1>6, <1>7, <1>8, <1>9, <1>10, <1>11, <1>12, <1>13 DEF Job

(* A step of the UI thread that starts no job. *)
LEMMA CalmGoesOn ==
    ASSUME TypeOK, LockInv, Calm,
           \A k \in Jobs : /\ job'[k].rt = job[k].rt /\ job'[k].vm = job[k].vm
                           /\ \/ job'[k].pc = job[k].pc /\ job'[k].ctx = job[k].ctx
                              \/ job[k].pc = "system" /\ job'[k].pc = "runs",
           \A rt \in Runtimes, k \in Jobs : mu[rt] = k <=> mu'[rt] = k,
           UNCHANGED <<jobCtx, onWorker, started, strayed>>
    PROVE  Calm'
<1>1. \A k \in Jobs : HasLock(k) <=> HasLock(k)'
  BY DEF HasLock, TypeOK
<1>2. OthersEnded'
  BY DEF Calm, OthersEnded
<1>3. ASSUME NEW k \in Jobs, k = started PROVE (onWorker' <=> Works(k)') /\ OwnContext(k)'
  <2>1. (onWorker <=> Works(k)) /\ OwnContext(k)
    BY <1>3 DEF Calm, LastWorks
  <2>2. Works(k) <=> Works(k)'
    BY DEF Works, InLua
  <2>3. OwnContext(k)'
    BY <1>1, <2>1 DEF OwnContext, Active
  <2>4. QED
    BY <2>1, <2>2, <2>3
<1>4. LastWorks'
  BY <1>3 DEF Calm, LastWorks
<1>5. QED
  BY <1>2, <1>4 DEF Calm

(* A job that starts calmly is the only one there is. *)
LEMMA CalmStarts ==
    ASSUME TypeOK, LockInv, Calm, NEW rt \in Runtimes, StartJob(rt), calm' PROVE Calm'
<1>1. PICK j \in Jobs :
      /\ j = started + 1 /\ started' = j
      /\ jobCtx' = [jobCtx EXCEPT ![rt] = j] /\ UNCHANGED <<mu, onWorker, strayed>>
      /\ job' = [job EXCEPT ![j] = [pc |-> "start", rt |-> rt, vm |-> Free, ctx |-> Free]]
      /\ \A k \in 1 .. started : job[k].pc = "ended"
  BY DEF StartJob, SetJobContext
<1>2. \A k \in Jobs : k < j => k \in 1 .. started /\ k # j
  BY <1>1 DEF TypeOK, Jobs
<1>3. job[j].pc = "none"
  BY <1>1 DEF LockInv, NotStarted, TypeOK, Jobs
<1>4. ~onWorker
  <2>1. CASE started = 0
    BY <2>1 DEF Calm, LastWorks
  <2>2. CASE started # 0
    <3>1. started \in Jobs /\ started \in 1 .. started
      BY <2>2 DEF TypeOK, Jobs
    <3>2. job[started].pc = "ended" /\ (onWorker <=> Works(started))
      BY <1>1, <3>1 DEF Calm, LastWorks
    <3>3. QED
      BY <3>2 DEF Works, InLua
  <2>3. QED
    BY <2>1, <2>2
<1>5. /\ job'[j].pc = "start" /\ job'[j].rt = rt /\ \A k \in Jobs \ {j} : job'[k] = job[k]
      /\ jobCtx'[rt] = j
  BY <1>1 DEF TypeOK
<1>6. \A r \in Runtimes : mu[r] # j
  BY <1>1, <1>3 DEF LockInv, HoldersAreIn, InLua
<1>7. OthersEnded'
  BY <1>1, <1>2, <1>5 DEF OthersEnded
<1>8. OwnContext(j)'
  BY <1>1, <1>5, <1>6 DEF OwnContext, Active, HasLock
<1>9. ~Works(j)'
  BY <1>5 DEF Works, InLua
<1>10. started' # 0
  BY <1>1 DEF Jobs
<1>11. LastWorks'
  BY <1>1, <1>4, <1>8, <1>9, <1>10 DEF LastWorks
<1>12. QED
  BY <1>1, <1>7, <1>11 DEF Calm

LEMMA CalmUI ==
    ASSUME TypeOK, LockInv, CalmInv,
           [Keys \/ onUIMsg \/ GetsLock \/ PaneCallsUI \/ PaneCallReturns \/ PaneEnds
            \/ \E rt \in Runtimes : Close(rt)]_vars
    PROVE  CalmInv'
<1> SUFFICES ASSUME calm' PROVE Calm'
  BY DEF CalmInv
<1>1. calm
  <2>1. Keys => calm
    BY Zenon DEF Keys, CtrlC, Quit, StartJob, AskRuntime, aux
  <2>2. QED
    BY <2>1 DEF onUIMsg, GetsLock, PaneCallsUI, PaneCallReturns, PaneEnds, Close, aux, vars
<1>2. Calm
  BY <1>1 DEF CalmInv
<1>3. ASSUME UNCHANGED <<mu, job, jobCtx, onWorker, started, strayed>> PROVE Calm'
  BY <1>2, <1>3, CalmGoesOn
<1>4. ASSUME cancelJob, UNCHANGED <<mu, jobCtx, onWorker, started, strayed>> PROVE Calm'
  BY <1>2, <1>4, Cancels, CalmGoesOn
<1>5. ASSUME NEW rt \in Runtimes, NEW w \in {Free, UI}, mu[rt] \in {Free, UI}, mu' = [mu EXCEPT ![rt] = w],
             UNCHANGED <<job, jobCtx, onWorker, started, strayed>>
      PROVE  Calm'
  <2>1. mu'[rt] = w /\ \A r \in Runtimes \ {rt} : mu'[r] = mu[r]
    BY <1>5 DEF TypeOK
  <2>2. \A r \in Runtimes, k \in Jobs : mu[r] = k <=> mu'[r] = k
    BY <1>5, <2>1, Holders
  <2>3. QED
    BY <1>2, <1>5, <2>2, CalmGoesOn
<1>6. ASSUME NEW rt \in Runtimes, StartJob(rt) PROVE Calm'
  BY <1>2, <1>6, CalmStarts
<1>7. CASE CtrlC \/ Quit
  BY <1>4, <1>7 DEF CtrlC, Quit, aux
<1>8. ASSUME NEW rt \in Runtimes, AskRuntime(rt) PROVE Calm'
  BY <1>5, <1>8 DEF AskRuntime
<1>9. CASE GetsLock
  BY <1>5, <1>9 DEF GetsLock, TypeOK, aux
<1>10. CASE PaneCallsUI
  BY <1>10 DEF PaneCallsUI
<1>11. CASE PaneEnds
  <2>1. mu[ui.rt] = UI /\ ui.rt \in Runtimes
    BY <1>11 DEF PaneEnds, LockInv, UIHolds, TypeOK
  <2>2. QED
    BY <1>5, <1>11, <2>1 DEF PaneEnds, aux
<1>12. CASE onUIMsg \/ PaneCallReturns \/ (\E rt \in Runtimes : Close(rt)) \/ UNCHANGED vars
  BY <1>3, <1>12 DEF onUIMsg, PaneCallReturns, Close, vars, aux
<1>13. QED
  BY <1>6, <1>7, <1>8, <1>9, <1>10, <1>11, <1>12 DEF Keys

LEMMA InitCalm == ASSUME Init PROVE CalmInv
<1>1. started = 0 /\ ~onWorker /\ ~strayed
  BY DEF Init
<1>2. \A k \in Jobs : ~(k < 0) /\ k # 0
  BY DEF Jobs
<1>3. QED
  BY <1>1, <1>2 DEF CalmInv, Calm, OthersEnded, LastWorks

LEMMA CalmKept == TypeOK /\ LockInv /\ CalmInv /\ [Next]_vars => CalmInv'
BY CalmJobs, CalmUI DEF Next

LEMMA CalmHolds == Spec => [](TypeOK /\ LockInv /\ CalmInv)
<1>1. Spec => []LockInv
  BY InitLocks, LocksKept, TypesHold, PTL DEF Spec
<1>2. QED
  BY <1>1, InitCalm, CalmKept, TypesHold, PTL DEF Spec

(* Work for the UI runs on the UI thread, as callOnUI promises: while jobs *)
(* follow each other, no job clears the flag that another one goes by, and *)
(* the flag is set before a script can ask for anything.                   *)
THEOREM UIWorkIsOnUI == Spec => []UIWorkOnUI
<1>1. CalmInv => UIWorkOnUI
  BY DEF CalmInv, Calm, UIWorkOnUI
<1>2. QED
  BY <1>1, CalmHolds, PTL

(* A script's VM, its waits and its system commands have the context of    *)
(* their own job, which is the one that Ctrl-C cancels.                    *)
THEOREM JobIsReached == Spec => []CtrlCReachesTheJob
<1>1. TypeOK /\ LockInv /\ CalmInv => CtrlCReachesTheJob
  <2> SUFFICES ASSUME TypeOK, LockInv, Calm, NEW j \in Jobs, job[j].pc \in InLua, HasLock(j)
               PROVE  job[j].vm = j /\ (job[j].pc \in {"waits", "sleeps", "system"} => job[j].ctx = j)
    BY DEF CalmInv, CtrlCReachesTheJob
  <2>1. j = started
    BY LastSteps DEF InLua
  <2>2. QED
    BY <2>1 DEF Calm, LastWorks, OwnContext
<1>2. QED
  BY <1>1, CalmHolds, PTL
==============================================================================
