------------------------ MODULE StopsAndPanes_proofs ------------------------
(***************************************************************************)
(* Proofs about two components that share no state.                        *)
(*                                                                         *)
(* StopNavigation, for any bounds: the types, that Code stays at the row   *)
(* the user chose, and that Code and the call stack pane come to GDB's     *)
(* frame and stack if nothing overtakes a stop.                            *)
(*                                                                         *)
(* Placement, for any files, any panes, any number of leaves and of        *)
(* commands: the types, and that neither a command nor a stop takes away   *)
(* a pane it must leave alone.                                             *)
(***************************************************************************)
EXTENDS StopNavigation, Placement, FiniteSetTheorems, SequenceTheorems, TLAPS

(* The steps, named once for the proofs by cases. *)
LEMMA Steps ==
    ASSUME [Next]_vars
    PROVE  \/ Resume
           \/ \E level \in 0 .. 1 : activateCallStack(level)
           \/ \E t \in 1 .. 2 : activateThread(t)
           \/ \E f \in Frames : ConsoleSelects(f)
           \/ GdbStops
           \/ ProgramExits
           \/ HandleUpdate
           \/ HandleEvent
           \/ StopJobPosts
           \/ SyncAsks
           \/ SyncPosts
           \/ RefreshAsks
           \/ RefreshPosts
           \/ TimerChecks
           \/ TimerTriggers
           \/ UNCHANGED vars
  BY DEF Next, Keys, UIThread
---------------------------------------------------------------------------
(* Frames and queues *)

LEMMA NoFrameType == NoFrame \in Frames /\ NoFrame.stop = 0
  BY StopNavigationAssumption DEF Frames, NoFrame

LEMMA LevelType == \A f \in Frames, l \in 0 .. 1 : [f EXCEPT !.level = l] \in Frames
  BY DEF Frames

LEMMA StackType == \A f \in Frames : StackOf(f) \in Frames /\ FirstWithFile(f) \in Frames
<1>1. 0 \in 0 .. 1 /\ 1 \in 0 .. 1
  OBVIOUS
<1> QED
  BY <1>1, LevelType DEF StackOf, FirstWithFile

LEMMA StopType == \A f \in Frames : f.stop \in 0 .. MaxStops /\ f.level \in 0 .. 1
  BY DEF Frames

LEMMA LevelsType == \A f : Levels(f) \subseteq 0 .. 1
  BY DEF Levels

LEMMA UpdateType ==
    \A kind \in {"stop", "exit", "frame", "done"}, f \in Frames, prompt \in BOOLEAN, error \in BOOLEAN :
      Update(kind, f, prompt, error) \in Updates
  BY DEF Update, Updates

LEMMA PromptType == Prompt \in Updates
  BY UpdateType, NoFrameType DEF Prompt

LEMMA EventPosted ==
    ASSUME QueueType, NEW kind \in {"stop", "frame", "info"}, NEW gen \in Nat, NEW f \in Frames,
           Post(kind, gen, f)
    PROVE  events' \in Seq(Messages)
<1>1. [kind |-> kind, gen |-> gen, frame |-> f] \in Messages
  BY DEF Messages
<1> QED
  BY <1>1 DEF QueueType, Post

LEMMA EventTaken ==
    ASSUME QueueType, events # <<>>
    PROVE  /\ Head(events).kind \in {"stop", "frame", "info"} /\ Head(events).gen \in Nat
           /\ Head(events).frame \in Frames /\ Tail(events) \in Seq(Messages)
<1>1. Head(events) \in Messages /\ Tail(events) \in Seq(Messages)
  BY DEF QueueType
<1> QED
  BY <1>1 DEF Messages

LEMMA UpdateTaken ==
    ASSUME QueueType, updates # <<>>
    PROVE  /\ Head(updates).kind \in {"stop", "exit", "frame", "done"}
           /\ Head(updates).frame \in Frames /\ Head(updates).prompt \in BOOLEAN
           /\ Tail(updates) \in Seq(Updates)
<1>1. Head(updates) \in Updates /\ Tail(updates) \in Seq(Updates)
  BY DEF QueueType
<1> QED
  BY <1>1 DEF Updates

LEMMA RemovedType ==
    ASSUME NEW S, NEW s \in Seq(S), NEW i \in DOMAIN s
    PROVE  /\ RemoveAt(s, i) \in Seq(S)
           /\ \A k \in DOMAIN RemoveAt(s, i) : \E l \in DOMAIN s : RemoveAt(s, i)[k] = s[l]
<1> DEFINE left  == SubSeq(s, 1, i - 1)
           right == SubSeq(s, i + 1, Len(s))
<1>1. i \in 1 .. Len(s) /\ Len(s) \in Nat /\ DOMAIN s = 1 .. Len(s)
  OBVIOUS
<1>2. /\ left \in Seq(S) /\ Len(left) = i - 1
      /\ \A k \in 1 .. i - 1 : left[k] = s[k]
  BY <1>1
<1>3. /\ right \in Seq(S) /\ Len(right) = Len(s) - i
      /\ \A k \in 1 .. Len(s) - i : right[k] = s[k + i]
  BY <1>1
<1>4. RemoveAt(s, i) = left \o right
  BY DEF RemoveAt
<1> HIDE DEF left, right
<1>5. /\ left \o right \in Seq(S) /\ DOMAIN (left \o right) = 1 .. Len(s) - 1
      /\ \A k \in 1 .. Len(left) + Len(right) :
           (left \o right)[k] = IF k <= Len(left) THEN left[k] ELSE right[k - Len(left)]
  <2>1. /\ left \o right \in Seq(S) /\ Len(left \o right) = Len(left) + Len(right)
        /\ \A k \in 1 .. Len(left) + Len(right) :
             (left \o right)[k] = IF k <= Len(left) THEN left[k] ELSE right[k - Len(left)]
    BY <1>2, <1>3, ConcatProperties
  <2>2. Len(left) + Len(right) = Len(s) - 1
    BY <1>1, <1>2, <1>3
  <2>3. Len(left \o right) = Len(s) - 1
    BY <2>1, <2>2
  <2>4. DOMAIN (left \o right) = 1 .. Len(left \o right)
    BY <2>1, LenProperties
  <2> QED
    BY <2>1, <2>3, <2>4
<1>6. ASSUME NEW k \in 1 .. Len(s) - 1
      PROVE  \E l \in DOMAIN s : (left \o right)[k] = s[l]
  <2>1. CASE k \in 1 .. i - 1
    <3>1. k \in 1 .. Len(left) + Len(right) /\ k <= Len(left)
      BY <1>1, <1>2, <1>3, <2>1
    <3>2. (left \o right)[k] = left[k]
      BY <1>5, <3>1
    <3>3. left[k] = s[k] /\ k \in DOMAIN s
      BY <1>1, <1>2, <2>1
    <3> QED
      BY <3>2, <3>3
  <2>2. CASE k \notin 1 .. i - 1
    <3>1. (left \o right)[k] = right[k - (i - 1)]
      <4>1. k \in 1 .. Len(left) + Len(right) /\ ~(k <= Len(left))
        BY <1>1, <1>2, <1>3, <2>2
      <4>2. (left \o right)[k] = right[k - Len(left)]
        BY <1>5, <4>1
      <4> QED
        BY <1>2, <4>2
    <3>2. k - (i - 1) \in 1 .. Len(s) - i /\ (k - (i - 1)) + i \in DOMAIN s
      BY <1>1, <2>2
    <3> QED
      BY <1>3, <3>1, <3>2
  <2> QED
    BY <2>1, <2>2
<1> QED
  BY <1>4, <1>5, <1>6

LEMMA ScheduledType == \A r \in Runners : Scheduled(r) \in Runners
  BY DEF Scheduled, Runners

LEMMA SelectLevelType == \A v \in Panes, l \in 0 .. 1 : SelectLevel(v, l) \in Panes
  BY DEF SelectLevel, Panes

LEMMA SetItemsType == \A v \in Panes, s \in Frames : SetItems(v, s) \in Panes
<1> SUFFICES ASSUME NEW v \in Panes, NEW s \in Frames
             PROVE  SetItems(v, s) \in Panes
  OBVIOUS
<1> DEFINE row == IF v.row \in Levels(s) THEN v.row ELSE 0
<1>1. /\ v \in [stack : Frames, threads : 0 .. MaxStops, row : 0 .. 1]
      /\ v.row \in 0 .. 1
  BY DEF Panes
<1>2. row \in 0 .. 1 /\ row \in Levels(s) \cup {0}
  BY <1>1
<1>3. SetItems(v, s) = [v EXCEPT !.stack = s, !.row = row]
  BY DEF SetItems
<1> HIDE DEF row
<1>4. /\ SetItems(v, s) \in [stack : Frames, threads : 0 .. MaxStops, row : 0 .. 1]
      /\ SetItems(v, s).stack = s /\ SetItems(v, s).row = row
  BY <1>1, <1>2, <1>3
<1> QED
  BY <1>2, <1>4 DEF Panes

LEMMA EmptyPanes == [stack |-> NoFrame, threads |-> 0, row |-> 0] \in Panes
  BY NoFrameType, StopNavigationAssumption DEF Panes
---------------------------------------------------------------------------
(* Types *)

LEMMA TypeOKInit == ASSUME Init PROVE TypeOK
<1>1. TargetType /\ AuxType
  BY NoFrameType, StopNavigationAssumption DEF Init, TargetType, AuxType
<1>2. QueueType
  BY DEF Init, QueueType
<1>3. JobType
  <2>1. runner \in Runners
    BY NoFrameType DEF Init, Runners
  <2>2. got \in Seq(Frames)
    BY DEF Init
  <2> QED
    BY <2>1, <2>2 DEF Init, JobType
<1>4. PaneType
  <2>1. model \in [stack : Frames, threads : 0 .. MaxStops]
    BY NoFrameType, StopNavigationAssumption DEF Init
  <2> QED
    BY <2>1, NoFrameType, EmptyPanes DEF Init, PaneType
<1> QED
  BY <1>1, <1>2, <1>3, <1>4 DEF TypeOK

(* What each part of TypeOK depends on. *)
LEMMA PartsKept ==
    ASSUME TypeOK
    PROVE  /\ UNCHANGED target => TargetType'
           /\ UNCHANGED <<updates, events>> => QueueType'
           /\ UNCHANGED <<jobs, pending>> => JobType'
           /\ UNCHANGED <<panes, model>> => PaneType'
           /\ UNCHANGED <<aux, spent>> => AuxType'
<1>1. UNCHANGED target => TargetType'
  BY DEF TypeOK, TargetType, target
<1>2. UNCHANGED <<updates, events>> => QueueType'
  BY DEF TypeOK, QueueType
<1>3. UNCHANGED <<jobs, pending>> => JobType'
  BY DEF TypeOK, JobType, jobs, syncs, pending
<1>4. UNCHANGED <<panes, model>> => PaneType'
  BY DEF TypeOK, PaneType, panes
<1>5. UNCHANGED <<aux, spent>> => AuxType'
  BY DEF TypeOK, AuxType, aux
<1> QED
  BY <1>1, <1>2, <1>3, <1>4, <1>5

LEMMA UpdatesAppended ==
    ASSUME TypeOK, NEW u \in Updates, updates' = Append(updates, u), UNCHANGED events
    PROVE  QueueType'
  BY DEF TypeOK, QueueType

LEMMA UserSpends == ASSUME TypeOK, User PROVE spent' \in 0 .. MaxUser
  BY StopNavigationAssumption DEF TypeOK, AuxType, User

LEMMA UserTypes ==
    ASSUME TypeOK
    PROVE  /\ Resume => TypeOK'
           /\ \A level \in 0 .. 1 : activateCallStack(level) => TypeOK'
           /\ \A t \in 1 .. 2 : activateThread(t) => TypeOK'
           /\ \A f \in Frames : ConsoleSelects(f) => TypeOK'
<1>1. ASSUME Resume PROVE TypeOK'
  <2>1. QueueType'
    BY <1>1, PromptType, UpdatesAppended DEF Resume
  <2>2. TargetType' /\ AuxType'
    BY <1>1, UserSpends DEF Resume, TypeOK, TargetType, AuxType, aux
  <2> QED
    BY <1>1, <2>1, <2>2, PartsKept DEF Resume, TypeOK
<1>2. ASSUME NEW level \in 0 .. 1, activateCallStack(level) PROVE TypeOK'
  <2>1. shown \in Panes /\ shown.stack \in Frames /\ sel \in Frames
    BY DEF TypeOK, PaneType, TargetType, Panes
  <2>2. TargetType'
    BY <1>2, <2>1, LevelType DEF activateCallStack, TypeOK, TargetType
  <2>3. QueueType'
    <3> DEFINE ok == level \in Levels(StackOf(sel))
    <3>1. Update("done", NoFrame, TRUE, ~ok) \in Updates
      BY UpdateType, NoFrameType
    <3>2. updates' = Append(updates, Update("done", NoFrame, TRUE, ~ok)) /\ UNCHANGED events
      BY <1>2 DEF activateCallStack
    <3> QED
      BY <3>1, <3>2, UpdatesAppended
  <2>4. code' \in Frames
    BY <1>2, <2>1, LevelType DEF activateCallStack
  <2>5. shown' \in Panes
    BY <1>2, <2>1 DEF activateCallStack, Panes
  <2>6. PaneType'
    BY <1>2, <2>4, <2>5 DEF activateCallStack, bumpCodeNav, TypeOK, PaneType
  <2>7. AuxType'
    <3>1. owed' \in Frames /\ browsed' \in Frames
      BY <1>2, <2>4, NoFrameType DEF activateCallStack
    <3>2. clean' \in BOOLEAN
      BY <1>2 DEF activateCallStack
    <3> QED
      BY <1>2, <3>1, <3>2, UserSpends DEF activateCallStack, AuxType
  <2> QED
    BY <1>2, <2>2, <2>3, <2>6, <2>7, PartsKept DEF activateCallStack, TypeOK
<1>3. ASSUME NEW t \in 1 .. 2, activateThread(t) PROVE TypeOK'
  <2>1. sel' \in Frames
    <3> DEFINE moved == [sel EXCEPT !.thread = t]
    <3>1. moved \in Frames
      BY DEF TypeOK, TargetType, Frames
    <3>2. sel' = [moved EXCEPT !.level = 0]
      BY <1>3 DEF activateThread
    <3> HIDE DEF moved
    <3>3. [moved EXCEPT !.level = 0] \in Frames
      BY <3>1 DEF Frames
    <3> QED
      BY <3>2, <3>3
  <2>2. TargetType'
    BY <1>3, <2>1 DEF activateThread, TypeOK, TargetType
  <2>3. QueueType'
    <3>1. Update("frame", sel', TRUE, FALSE) \in Updates
      BY <2>1, UpdateType
    <3>2. PICK u \in {Prompt, Update("frame", sel', TRUE, FALSE)} : updates' = Append(updates, u)
      BY <1>3 DEF activateThread
    <3> QED
      BY <1>3, <3>1, <3>2, PromptType, UpdatesAppended DEF activateThread
  <2>4. JobType'
    BY <1>3 DEF activateThread, TypeOK, JobType, jobs, syncs
  <2>5. [stop |-> shown.threads, thread |-> t, level |-> 0] \in Frames
    BY DEF TypeOK, PaneType, Panes, Frames
  <2>6. PaneType'
    BY <1>3, <2>5 DEF activateThread, bumpCodeNav, TypeOK, PaneType
  <2>7. AuxType'
    BY <1>3, NoFrameType, UserSpends DEF activateThread, TypeOK, AuxType
  <2> QED
    BY <2>2, <2>3, <2>4, <2>6, <2>7 DEF TypeOK
<1>4. ASSUME NEW f \in Frames, ConsoleSelects(f) PROVE TypeOK'
  <2>1. Update("frame", f, FALSE, FALSE) \in Updates
    BY UpdateType
  <2>2. QueueType'
    BY <1>4, <2>1, UpdatesAppended DEF ConsoleSelects
  <2>3. TargetType' /\ AuxType'
    BY <1>4, NoFrameType, UserSpends DEF ConsoleSelects, TypeOK, TargetType, AuxType
  <2> QED
    BY <1>4, <2>2, <2>3, PartsKept DEF ConsoleSelects, TypeOK
<1> QED
  BY <1>1, <1>2, <1>3, <1>4

LEMMA GdbTypes == ASSUME TypeOK PROVE (GdbStops => TypeOK') /\ (ProgramExits => TypeOK')
<1>1. ASSUME GdbStops PROVE TypeOK'
  <2>1. sel' \in Frames
    <3>1. sel.stop \in 0 .. MaxStops /\ sel.stop < MaxStops
      BY <1>1, StopType DEF GdbStops, TypeOK, TargetType
    <3>2. sel.stop + 1 \in 0 .. MaxStops
      BY <3>1, StopNavigationAssumption
    <3> QED
      BY <1>1, <3>2 DEF GdbStops, Frames
  <2>2. PICK prompt \in BOOLEAN : updates' = Append(updates, Update("stop", sel', prompt, FALSE))
    BY <1>1 DEF GdbStops
  <2>3. Update("stop", sel', prompt, FALSE) \in Updates
    BY <2>1, UpdateType
  <2>4. QueueType'
    BY <1>1, <2>2, <2>3, UpdatesAppended DEF GdbStops
  <2>5. TargetType'
    BY <1>1, <2>1 DEF GdbStops, TypeOK, TargetType
  <2> QED
    BY <1>1, <2>4, <2>5, PartsKept DEF GdbStops, TypeOK
<1>2. ASSUME ProgramExits PROVE TypeOK'
  <2>1. Update("exit", NoFrame, TRUE, FALSE) \in Updates
    BY UpdateType, NoFrameType
  <2>2. QueueType'
    BY <1>2, <2>1, UpdatesAppended DEF ProgramExits
  <2>3. TargetType'
    BY <1>2 DEF ProgramExits, TypeOK, TargetType
  <2> QED
    BY <1>2, <2>2, <2>3, PartsKept DEF ProgramExits, TypeOK
<1> QED
  BY <1>1, <1>2

LEMMA UpdateTypes == ASSUME TypeOK, HandleUpdate PROVE TypeOK'
<1> DEFINE u == Head(updates)
<1>1. /\ updates # <<>> /\ updates' = Tail(updates)
      /\ \/ u.kind = "stop" /\ onGdbStopped(u.frame)
         \/ u.kind = "exit" /\ clearDebugInfoPanes
         \/ u.kind = "frame" /\ onGdbFrameSelected(u.frame)
         \/ u.kind = "done" /\ UNCHANGED <<stopJobs, timers, model, shown, stopFile, code, aux>>
      /\ Pending(u)
      /\ UNCHANGED <<target, events, got, codeNavGen, spent>>
  BY DEF HandleUpdate
<1>2. /\ u.kind \in {"stop", "exit", "frame", "done"} /\ u.frame \in Frames
      /\ u.prompt \in BOOLEAN /\ Tail(updates) \in Seq(Updates)
  BY <1>1, UpdateTaken DEF TypeOK
<1> HIDE DEF u
<1>3. QueueType'
  BY <1>1, <1>2 DEF TypeOK, QueueType
<1>4. TargetType'
  BY <1>1, PartsKept
<1>5. JobType'
  <2>1. runner' \in Runners /\ asking' \in Nat
    <3>1. runner \in Runners /\ Scheduled(runner) \in Runners /\ asking \in Nat
      BY ScheduledType DEF TypeOK, JobType
    <3> QED
      BY <1>1, <3>1 DEF Pending
  <2>2. pendingDebugInfo' \in BOOLEAN /\ pendingFrameSync' \in BOOLEAN
    BY <1>1, <1>2 DEF Pending, TypeOK, JobType
  <2>3. /\ timers' \in [asleep : Nat, due : Nat]
        /\ stopJobs' \subseteq [gen : Nat, frame : Frames]
    <3>1. CASE onGdbStopped(u.frame)
      <4>1. [gen |-> codeNavGen, frame |-> u.frame] \in [gen : Nat, frame : Frames]
        BY <1>2 DEF TypeOK, PaneType
      <4>2. timers' \in [asleep : Nat, due : Nat]
        BY <3>1 DEF onGdbStopped, armDebugInfoRefresh, TypeOK, JobType
      <4> QED
        BY <3>1, <4>1, <4>2 DEF onGdbStopped, TypeOK, JobType
    <3>2. CASE UNCHANGED <<stopJobs, timers>>
      BY <3>2 DEF TypeOK, JobType
    <3> QED
      BY <1>1, <3>1, <3>2 DEF clearDebugInfoPanes, onGdbFrameSelected
  <2> QED
    BY <1>1, <2>1, <2>2, <2>3 DEF TypeOK, JobType
<1>6. PaneType' /\ AuxType'
  <2>1. CASE onGdbStopped(u.frame)
    <3>1. PaneType'
      BY <1>1, <2>1 DEF onGdbStopped, TypeOK, PaneType
    <3>2. owed' \in Frames /\ browsed' \in Frames /\ clean' \in BOOLEAN
      BY <1>2, <2>1, NoFrameType DEF onGdbStopped
    <3> QED
      BY <1>1, <3>1, <3>2 DEF TypeOK, AuxType
  <2>2. CASE clearDebugInfoPanes
    <3>1. shown' \in Panes
      BY <2>2, EmptyPanes DEF clearDebugInfoPanes
    <3>2. model' \in [stack : Frames, threads : 0 .. MaxStops]
      BY <2>2, NoFrameType, StopNavigationAssumption DEF clearDebugInfoPanes
    <3>3. /\ stopFile' \in BOOLEAN /\ code' \in Frames
          /\ owed' \in Frames /\ browsed' \in Frames /\ clean' \in BOOLEAN
      BY <2>2, NoFrameType DEF clearDebugInfoPanes
    <3> QED
      BY <1>1, <3>1, <3>2, <3>3 DEF TypeOK, PaneType, AuxType
  <2>3. CASE onGdbFrameSelected(u.frame)
    <3>1. shown' \in Panes /\ code' \in Frames
      BY <1>2, <2>3, StopType, SelectLevelType DEF onGdbFrameSelected, TypeOK, PaneType
    <3> QED
      BY <1>1, <2>3, <3>1 DEF onGdbFrameSelected, TypeOK, PaneType, AuxType, aux
  <2>4. CASE UNCHANGED <<stopJobs, timers, model, shown, stopFile, code, aux>>
    BY <1>1, <2>4 DEF TypeOK, PaneType, AuxType, aux
  <2> QED
    BY <1>1, <2>1, <2>2, <2>3, <2>4
<1> QED
  BY <1>3, <1>4, <1>5, <1>6 DEF TypeOK

LEMMA EventTypes == ASSUME TypeOK, HandleEvent PROVE TypeOK'
<1> DEFINE m == Head(events)
<1>1. /\ events # <<>> /\ events' = Tail(events)
      /\ \/ ShowStop(m.frame) /\ UNCHANGED stopFile
         \/ UNCHANGED <<shown, model, code, stopFile>>
         \/ ShowFrame(m.frame) /\ UNCHANGED stopFile
         \/ ShowInfo
      /\ UNCHANGED <<target, updates, jobs, pending, codeNavGen, aux, spent>>
  BY DEF HandleEvent
<1>2. m.frame \in Frames /\ Tail(events) \in Seq(Messages)
  BY <1>1, EventTaken DEF TypeOK
<1> HIDE DEF m
<1>3. QueueType'
  BY <1>1, <1>2 DEF TypeOK, QueueType
<1>4. TargetType' /\ JobType' /\ AuxType'
  BY <1>1, PartsKept
<1>5. /\ shown \in Panes /\ code \in Frames /\ sel \in Frames
      /\ model \in [stack : Frames, threads : 0 .. MaxStops]
      /\ stopFile \in BOOLEAN /\ codeNavGen \in Nat
  BY DEF TypeOK, PaneType, TargetType
<1>6. /\ model.stack \in Frames /\ model.threads \in 0 .. MaxStops
      /\ 0 \in 0 .. 1 /\ m.frame.level \in 0 .. 1 /\ sel.level \in 0 .. 1
  BY <1>2, <1>5, StopType
<1>7. /\ code' \in Frames /\ shown' \in Panes /\ stopFile' \in BOOLEAN
      /\ model' \in [stack : Frames, threads : 0 .. MaxStops]
  <2>1. CASE ShowStop(m.frame) /\ UNCHANGED stopFile
    <3> DEFINE top == SelectLevel(shown, 0)
    <3>1. top \in Panes
      BY <1>5, <1>6, SelectLevelType
    <3>2. StackOf(sel) \in Frames
      BY <1>5, StackType
    <3>3. SelectLevel(SetItems(top, StackOf(sel)), sel.level) \in Panes
      BY <1>6, <3>1, <3>2, SetItemsType, SelectLevelType
    <3>4. [model EXCEPT !.stack = StackOf(sel)] \in [stack : Frames, threads : 0 .. MaxStops]
      BY <1>5, <3>2
    <3>5. CASE HasFile(m.frame)
      BY <1>2, <1>5, <2>1, <3>1, <3>5 DEF ShowStop
    <3>6. CASE ~HasFile(m.frame) /\ status = "stopped"
      BY <1>5, <2>1, <3>3, <3>4, <3>6 DEF ShowStop
    <3>7. CASE ~HasFile(m.frame) /\ status # "stopped"
      BY <1>2, <1>5, <2>1, <3>1, <3>7 DEF ShowStop
    <3> QED
      BY <3>5, <3>6, <3>7
  <2>2. CASE UNCHANGED <<shown, model, code, stopFile>>
    BY <1>5, <2>2
  <2>3. CASE ShowFrame(m.frame) /\ UNCHANGED stopFile
    <3>1. SelectLevel(SetItems(shown, model.stack), m.frame.level) \in Panes
      BY <1>5, <1>6, SetItemsType, SelectLevelType
    <3> QED
      BY <1>2, <1>5, <2>3, <3>1 DEF ShowFrame
  <2>4. CASE ShowInfo
    <3>1. SetItems(shown, model.stack) \in Panes
      BY <1>5, <1>6, SetItemsType
    <3>2. [SetItems(shown, model.stack) EXCEPT !.threads = model.threads] \in Panes
      BY <1>6, <3>1 DEF Panes
    <3>3. FirstWithFile(model.stack) \in Frames
      BY <1>6, StackType
    <3> QED
      BY <1>5, <2>4, <3>2, <3>3 DEF ShowInfo
  <2> QED
    BY <1>1, <2>1, <2>2, <2>3, <2>4
<1>8. PaneType'
  BY <1>1, <1>5, <1>7 DEF PaneType
<1> QED
  BY <1>3, <1>4, <1>8 DEF TypeOK

LEMMA JobTypes ==
    ASSUME TypeOK
    PROVE  /\ StopJobPosts => TypeOK'
           /\ SyncAsks => TypeOK'
           /\ SyncPosts => TypeOK'
           /\ RefreshAsks => TypeOK'
           /\ RefreshPosts => TypeOK'
           /\ TimerChecks => TypeOK'
           /\ TimerTriggers => TypeOK'
<1>1. ASSUME StopJobPosts PROVE TypeOK'
  <2>1. PICK j \in stopJobs : stopJobs' = stopJobs \ {j} /\ Post("stop", j.gen, j.frame)
    BY <1>1 DEF StopJobPosts
  <2>2. j.gen \in Nat /\ j.frame \in Frames
    BY <2>1 DEF TypeOK, JobType
  <2>3. QueueType'
    BY <1>1, <2>1, <2>2, EventPosted DEF StopJobPosts, TypeOK, QueueType
  <2>4. JobType'
    BY <1>1, <2>1 DEF StopJobPosts, TypeOK, JobType, syncs, pending
  <2> QED
    BY <1>1, <2>3, <2>4, PartsKept DEF StopJobPosts, TypeOK
<1>2. ASSUME SyncAsks PROVE TypeOK'
  <2>1. asking' \in Nat
    BY <1>2 DEF SyncAsks, TypeOK, JobType
  <2>2. got' \in Seq(Frames)
    BY <1>2 DEF SyncAsks, TypeOK, JobType, TargetType
  <2>3. JobType'
    BY <1>2, <2>1, <2>2 DEF SyncAsks, TypeOK, JobType, pending
  <2> QED
    BY <1>2, <2>3, PartsKept DEF SyncAsks, TypeOK
<1>3. ASSUME SyncPosts PROVE TypeOK'
  <2>1. PICK i \in DOMAIN got :
          /\ model' = [model EXCEPT !.stack = StackOf(got[i])]
          /\ Post("frame", 0, got[i])
          /\ got' = RemoveAt(got, i)
    BY <1>3 DEF SyncPosts
  <2>2. got \in Seq(Frames) /\ got[i] \in Frames
    BY <2>1 DEF TypeOK, JobType
  <2>3. QueueType'
    BY <1>3, <2>1, <2>2, EventPosted DEF SyncPosts, TypeOK, QueueType
  <2>4. got' \in Seq(Frames)
    BY <2>1, <2>2, RemovedType
  <2>5. JobType'
    BY <1>3, <2>4 DEF SyncPosts, TypeOK, JobType, pending
  <2>6. model' \in [stack : Frames, threads : 0 .. MaxStops]
    BY <2>1, <2>2, StackType DEF TypeOK, PaneType
  <2>7. PaneType'
    BY <1>3, <2>6 DEF SyncPosts, TypeOK, PaneType, panes
  <2> QED
    BY <1>3, <2>3, <2>5, <2>7, PartsKept DEF SyncPosts, TypeOK
<1>4. ASSUME RefreshAsks PROVE TypeOK'
  <2>1. (IF status = "stopped" THEN StackOf(sel) ELSE NoFrame) \in Frames
    BY NoFrameType, StackType DEF TypeOK, TargetType
  <2>2. runner' \in Runners
    BY <1>4, <2>1 DEF RefreshAsks, TypeOK, JobType, Runners
  <2>3. JobType'
    BY <1>4, <2>2 DEF RefreshAsks, TypeOK, JobType, syncs, pending
  <2> QED
    BY <1>4, <2>3, PartsKept DEF RefreshAsks, TypeOK
<1>5. ASSUME RefreshPosts PROVE TypeOK'
  <2>1. runner.stack \in Frames /\ runner.stack.stop \in 0 .. MaxStops
    BY StopType DEF TypeOK, JobType, Runners
  <2>2. runner' \in Runners
    BY <1>5, NoFrameType DEF RefreshPosts, Runners
  <2>3. QueueType'
    BY <1>5, NoFrameType, EventPosted DEF RefreshPosts, TypeOK, QueueType
  <2>4. JobType'
    BY <1>5, <2>2 DEF RefreshPosts, TypeOK, JobType, syncs, pending
  <2>5. PaneType'
    BY <1>5, <2>1 DEF RefreshPosts, TypeOK, PaneType, panes
  <2> QED
    BY <1>5, <2>3, <2>4, <2>5, PartsKept DEF RefreshPosts, TypeOK
<1>6. ASSUME TimerChecks PROVE TypeOK'
  <2>1. timers' \in [asleep : Nat, due : Nat]
    BY <1>6 DEF TimerChecks, TypeOK, JobType
  <2>2. JobType'
    BY <1>6, <2>1 DEF TimerChecks, TypeOK, JobType, syncs, pending
  <2> QED
    BY <1>6, <2>2, PartsKept DEF TimerChecks, TypeOK
<1>7. ASSUME TimerTriggers PROVE TypeOK'
  <2>1. timers' \in [asleep : Nat, due : Nat]
    BY <1>7 DEF TimerTriggers, TypeOK, JobType
  <2>2. JobType'
    BY <1>7, <2>1, ScheduledType DEF TimerTriggers, TypeOK, JobType, syncs
  <2> QED
    BY <1>7, <2>2, PartsKept DEF TimerTriggers, TypeOK
<1> QED
  BY <1>1, <1>2, <1>3, <1>4, <1>5, <1>6, <1>7

LEMMA TypeOKNext == ASSUME TypeOK, [Next]_vars PROVE TypeOK'
<1>1. ASSUME UNCHANGED vars PROVE TypeOK'
  BY <1>1, PartsKept DEF vars, TypeOK
<1> QED
  BY <1>1, Steps, UserTypes, GdbTypes, UpdateTypes, EventTypes, JobTypes

(* Queues, goroutines and panes have their types; in particular the        *)
(* selected row is always one of the shown call stack.                     *)
THEOREM TypesHold == Spec => []TypeOK
  BY TypeOKInit, TypeOKNext, PTL DEF Spec
---------------------------------------------------------------------------
(* The chosen row *)

(* The elements of a queue with one more, and with one less. *)
LEMMA AppendElements ==
    ASSUME NEW S, NEW s \in Seq(S), NEW e \in S, NEW i \in DOMAIN Append(s, e)
    PROVE  Append(s, e)[i] = e \/ \E k \in DOMAIN s : Append(s, e)[i] = s[k]
<1>1. /\ DOMAIN Append(s, e) = 1 .. Len(s) + 1 /\ DOMAIN s = 1 .. Len(s) /\ Len(s) \in Nat
      /\ Append(s, e)[Len(s) + 1] = e /\ \A k \in 1 .. Len(s) : Append(s, e)[k] = s[k]
  OBVIOUS
<1>2. CASE i = Len(s) + 1
  BY <1>1, <1>2
<1>3. CASE i # Len(s) + 1
  <2>1. i \in DOMAIN s
    BY <1>1, <1>3
  <2> QED
    BY <1>1, <2>1
<1> QED
  BY <1>2, <1>3

LEMMA TailElements ==
    ASSUME NEW S, NEW s \in Seq(S), s # <<>>, NEW i \in DOMAIN Tail(s)
    PROVE  \E k \in DOMAIN s : Tail(s)[i] = s[k]
<1>1. i \in 1 .. Len(s) - 1 /\ Len(s) \in Nat /\ DOMAIN s = 1 .. Len(s)
  OBVIOUS
<1>2. Tail(s)[i] = s[i + 1] /\ i + 1 \in DOMAIN s
  BY <1>1
<1> QED
  BY <1>2

LEMMA MessageGens == TypeOK => \A i \in DOMAIN events : events[i].gen \in Nat
<1>1. TypeOK => \A i \in DOMAIN events : events[i] \in Messages
  BY DEF TypeOK, QueueType
<1> QED
  BY <1>1 DEF Messages

LEMMA HeadElement ==
    ASSUME NEW S, NEW s \in Seq(S), s # <<>>
    PROVE  1 \in DOMAIN s /\ Head(s) = s[1]
  OBVIOUS

(* No stop's goroutine or message is of a generation yet to come ... *)
GensAreOld ==
    /\ \A j \in stopJobs : j.gen <= codeNavGen
    /\ \A i \in DOMAIN events : events[i].kind = "stop" => events[i].gen <= codeNavGen

(* ... and once the user has chosen a row, all are of an earlier one, and  *)
(* nothing else that moves Code is in flight.                              *)
ChosenIsSafe ==
    browsed # NoFrame =>
        /\ code = browsed /\ stopFile /\ ~SyncInFlight
        /\ \A j \in stopJobs : j.gen < codeNavGen
        /\ \A i \in DOMAIN events : events[i].kind = "stop" => events[i].gen < codeNavGen

IInv == TypeOK /\ GensAreOld /\ ChosenIsSafe

LEMMA IInvInit == ASSUME Init PROVE IInv
<1>1. stopJobs = {} /\ DOMAIN events = {} /\ browsed = NoFrame
  BY DEF Init
<1>2. GensAreOld /\ ChosenIsSafe
  BY <1>1 DEF GensAreOld, ChosenIsSafe
<1> QED
  BY <1>2, TypeOKInit DEF IInv

(* An update that is not a selection puts no selection in flight. *)
LEMMA UpdateIsQuiet ==
    ASSUME TypeOK, NEW u \in Updates, u.kind # "frame", ~SyncInFlight,
           updates' = Append(updates, u), UNCHANGED <<events, syncs, pendingFrameSync>>
    PROVE  ~SyncInFlight'
<1>1. ASSUME NEW i \in DOMAIN updates' PROVE updates'[i].kind # "frame"
  BY <1>1, AppendElements DEF SyncInFlight, TypeOK, QueueType
<1> QED
  BY <1>1 DEF SyncInFlight, syncs

(* Nor does a message that is not a frame. *)
LEMMA MessageIsQuiet ==
    ASSUME TypeOK, NEW kind \in {"stop", "info"}, NEW gen \in Nat, NEW f \in Frames,
           ~SyncInFlight, Post(kind, gen, f), UNCHANGED <<updates, syncs, pendingFrameSync>>
    PROVE  ~SyncInFlight'
<1>1. [kind |-> kind, gen |-> gen, frame |-> f] \in Messages
  BY DEF Messages
<1>2. ASSUME NEW i \in DOMAIN events' PROVE events'[i].kind # "frame"
  BY <1>1, AppendElements DEF SyncInFlight, TypeOK, QueueType, Post
<1> QED
  BY <1>2 DEF SyncInFlight, syncs

(* A step of GDB, or of a goroutine that posts nothing, keeps both. *)
LEMMA KeptApart ==
    ASSUME GensAreOld, ChosenIsSafe, UNCHANGED <<stopJobs, events, codeNavGen, code, stopFile, browsed>>,
           ~SyncInFlight => ~SyncInFlight'
    PROVE  GensAreOld' /\ ChosenIsSafe'
  BY DEF GensAreOld, ChosenIsSafe

LEMMA UserKeeps ==
    ASSUME IInv
    PROVE  /\ Resume => GensAreOld' /\ ChosenIsSafe'
           /\ \A level \in 0 .. 1 : activateCallStack(level) => GensAreOld' /\ ChosenIsSafe'
           /\ \A t \in 1 .. 2 : activateThread(t) => GensAreOld' /\ ChosenIsSafe'
           /\ \A f \in Frames : ConsoleSelects(f) => GensAreOld' /\ ChosenIsSafe'
<1> USE DEF IInv
<1>1. ASSUME Resume PROVE GensAreOld' /\ ChosenIsSafe'
  <2>1. Prompt.kind # "frame"
    BY DEF Prompt, Update
  <2> QED
    BY <1>1, <2>1, PromptType, UpdateIsQuiet, KeptApart
       DEF Resume, jobs, syncs, pending, panes, aux
<1>2. ASSUME NEW level \in 0 .. 1, activateCallStack(level) PROVE GensAreOld' /\ ChosenIsSafe'
  <2> DEFINE u == Update("done", NoFrame, TRUE, ~(level \in Levels(StackOf(sel))))
  <2>1. /\ codeNavGen' = codeNavGen + 1 /\ updates' = Append(updates, u)
        /\ browsed' = (IF stopFile /\ ~SyncInFlight THEN code' ELSE NoFrame)
        /\ UNCHANGED <<stopJobs, events, syncs, pendingFrameSync, stopFile>>
    BY <1>2 DEF activateCallStack, bumpCodeNav, jobs, pending
  <2>2. u \in Updates /\ u.kind # "frame"
    BY UpdateType, NoFrameType DEF Update
  <2>3. /\ \A j \in stopJobs' : j.gen < codeNavGen' /\ j.gen <= codeNavGen'
        /\ \A i \in DOMAIN events' : events'[i].kind = "stop" =>
             events'[i].gen < codeNavGen' /\ events'[i].gen <= codeNavGen'
    <3>1. codeNavGen \in Nat
      BY DEF TypeOK, PaneType
    <3>2. \A j \in stopJobs : j.gen \in Nat
      BY DEF TypeOK, JobType
    <3>3. \A i \in DOMAIN events : events[i].gen \in Nat
      BY MessageGens
    <3> QED
      BY <2>1, <3>1, <3>2, <3>3 DEF GensAreOld
  <2>4. ~SyncInFlight => ~SyncInFlight'
    BY <2>1, <2>2, UpdateIsQuiet
  <2> QED
    BY <2>1, <2>3, <2>4 DEF GensAreOld, ChosenIsSafe
<1>3. ASSUME NEW t \in 1 .. 2, activateThread(t) PROVE GensAreOld' /\ ChosenIsSafe'
  <2>1. codeNavGen' = codeNavGen + 1 /\ browsed' = NoFrame /\ UNCHANGED <<stopJobs, events>>
    BY <1>3 DEF activateThread, bumpCodeNav, jobs
  <2>2. codeNavGen \in Nat /\ \A j \in stopJobs : j.gen \in Nat
    BY DEF TypeOK, PaneType, JobType
  <2>3. \A i \in DOMAIN events : events[i].gen \in Nat
    BY MessageGens
  <2> QED
    BY <2>1, <2>2, <2>3, NoFrameType DEF GensAreOld, ChosenIsSafe
<1>4. ASSUME NEW f \in Frames, ConsoleSelects(f) PROVE GensAreOld' /\ ChosenIsSafe'
  BY <1>4, NoFrameType DEF ConsoleSelects, jobs, panes, GensAreOld, ChosenIsSafe
<1> QED
  BY <1>1, <1>2, <1>3, <1>4

LEMMA GdbKeeps ==
    ASSUME IInv
    PROVE  /\ GdbStops => GensAreOld' /\ ChosenIsSafe'
           /\ ProgramExits => GensAreOld' /\ ChosenIsSafe'
<1> USE DEF IInv
<1>1. ASSUME GdbStops PROVE GensAreOld' /\ ChosenIsSafe'
  <2>1. PICK prompt \in BOOLEAN : updates' = Append(updates, Update("stop", sel', prompt, FALSE))
    BY <1>1 DEF GdbStops
  <2>2. sel' \in Frames
    BY <1>1, GdbTypes DEF TypeOK, TargetType
  <2>3. /\ Update("stop", sel', prompt, FALSE) \in Updates
        /\ Update("stop", sel', prompt, FALSE).kind # "frame"
    BY <2>2, UpdateType DEF Update
  <2> QED
    BY <1>1, <2>1, <2>3, UpdateIsQuiet, KeptApart DEF GdbStops, jobs, syncs, pending, panes, aux
<1>2. ASSUME ProgramExits PROVE GensAreOld' /\ ChosenIsSafe'
  <2>1. /\ Update("exit", NoFrame, TRUE, FALSE) \in Updates
        /\ Update("exit", NoFrame, TRUE, FALSE).kind # "frame"
    BY NoFrameType, UpdateType DEF Update
  <2> QED
    BY <1>2, <2>1, UpdateIsQuiet, KeptApart DEF ProgramExits, jobs, syncs, pending, panes, aux
<1> QED
  BY <1>1, <1>2

LEMMA UpdateKeeps == ASSUME IInv, HandleUpdate PROVE GensAreOld' /\ ChosenIsSafe'
<1> USE DEF IInv
<1> DEFINE u == Head(updates)
<1>1. /\ updates # <<>> /\ updates' = Tail(updates)
      /\ \/ u.kind = "stop" /\ onGdbStopped(u.frame)
         \/ u.kind = "exit" /\ clearDebugInfoPanes
         \/ u.kind = "frame" /\ onGdbFrameSelected(u.frame)
         \/ u.kind = "done" /\ UNCHANGED <<stopJobs, timers, model, shown, stopFile, code, aux>>
      /\ Pending(u)
      /\ UNCHANGED <<target, events, got, codeNavGen, spent>>
  BY DEF HandleUpdate
<1>2. updates \in Seq(Updates) /\ 1 \in DOMAIN updates /\ u = updates[1]
  BY <1>1, HeadElement DEF TypeOK, QueueType
<1> HIDE DEF u
<1>3. CASE u.kind = "stop" /\ onGdbStopped(u.frame)
  <2>1. /\ stopJobs' = stopJobs \cup {[gen |-> codeNavGen, frame |-> u.frame]}
        /\ browsed' = NoFrame /\ UNCHANGED <<events, codeNavGen>>
    BY <1>1, <1>3 DEF onGdbStopped
  <2>2. codeNavGen \in Nat
    BY DEF TypeOK, PaneType
  <2>3. NoFrame' = NoFrame
    BY DEF NoFrame
  <2> QED
    BY <2>1, <2>2, <2>3 DEF GensAreOld, ChosenIsSafe
<1>4. CASE u.kind = "exit" /\ clearDebugInfoPanes
  BY <1>1, <1>4 DEF clearDebugInfoPanes, GensAreOld, ChosenIsSafe
<1>5. CASE u.kind = "frame" /\ onGdbFrameSelected(u.frame)
  <2>1. SyncInFlight
    BY <1>2, <1>5 DEF SyncInFlight
  <2>2. UNCHANGED <<stopJobs, events, codeNavGen, browsed>>
    BY <1>1, <1>5 DEF onGdbFrameSelected, aux
  <2> QED
    BY <2>1, <2>2 DEF GensAreOld, ChosenIsSafe
<1>6. CASE u.kind = "done" /\ UNCHANGED <<stopJobs, timers, model, shown, stopFile, code, aux>>
  <2>1. ASSUME ~SyncInFlight PROVE ~SyncInFlight'
    <3>1. /\ asking' = 0 /\ got' = <<>> /\ pendingFrameSync' = FALSE
      BY <1>1, <1>6, <2>1 DEF Pending, SyncInFlight, TypeOK, JobType
    <3>2. \A i \in DOMAIN updates' : updates'[i].kind # "frame"
      BY <1>1, <1>2, <2>1, TailElements DEF SyncInFlight
    <3> QED
      BY <1>1, <2>1, <3>1, <3>2 DEF SyncInFlight
  <2> QED
    BY <1>1, <1>6, <2>1, KeptApart DEF aux
<1> QED
  BY <1>1, <1>3, <1>4, <1>5, <1>6

LEMMA EventKeeps == ASSUME IInv, HandleEvent PROVE GensAreOld' /\ ChosenIsSafe'
<1> USE DEF IInv
<1> DEFINE m == Head(events)
<1>1. /\ events # <<>> /\ events' = Tail(events)
      /\ \/ m.kind = "stop" /\ StopIsCurrent(m) /\ ShowStop(m.frame) /\ UNCHANGED stopFile
         \/ m.kind = "stop" /\ ~StopIsCurrent(m) /\ UNCHANGED <<shown, model, code, stopFile>>
         \/ m.kind = "frame" /\ ShowFrame(m.frame) /\ UNCHANGED stopFile
         \/ m.kind = "info" /\ ShowInfo
      /\ UNCHANGED <<target, updates, jobs, pending, codeNavGen, aux, spent>>
  BY DEF HandleEvent
<1>2. events \in Seq(Messages) /\ 1 \in DOMAIN events /\ m = events[1]
  BY <1>1, HeadElement DEF TypeOK, QueueType
<1> HIDE DEF m
<1>3. \A i \in DOMAIN events' : \E k \in DOMAIN events : events'[i] = events[k]
  BY <1>1, <1>2, TailElements
<1>4. GensAreOld'
  BY <1>1, <1>3 DEF GensAreOld, jobs
<1>5. ASSUME browsed' # NoFrame PROVE code' = code /\ stopFile'
  <2>1. browsed # NoFrame
    BY <1>1, <1>5 DEF aux
  <2>2. stopFile /\ ~SyncInFlight /\ (m.kind = "stop" => m.gen < codeNavGen)
    BY <1>2, <2>1 DEF ChosenIsSafe
  <2>3. m.kind # "frame"
    BY <1>2, <2>2 DEF SyncInFlight
  <2>4. ~(m.kind = "stop" /\ StopIsCurrent(m))
    BY <2>2 DEF StopIsCurrent, TypeOK, PaneType
  <2>5. ShowInfo => code' = code /\ stopFile'
    BY <2>2 DEF ShowInfo
  <2> QED
    BY <1>1, <2>2, <2>3, <2>4, <2>5
<1>6. ~SyncInFlight => ~SyncInFlight'
  BY <1>1, <1>3 DEF SyncInFlight, jobs, syncs, pending
<1> QED
  BY <1>1, <1>3, <1>4, <1>5, <1>6 DEF ChosenIsSafe, jobs, aux

LEMMA JobsKeep ==
    ASSUME IInv
    PROVE  /\ StopJobPosts => GensAreOld' /\ ChosenIsSafe'
           /\ SyncAsks => GensAreOld' /\ ChosenIsSafe'
           /\ SyncPosts => GensAreOld' /\ ChosenIsSafe'
           /\ RefreshAsks => GensAreOld' /\ ChosenIsSafe'
           /\ RefreshPosts => GensAreOld' /\ ChosenIsSafe'
           /\ TimerChecks => GensAreOld' /\ ChosenIsSafe'
           /\ TimerTriggers => GensAreOld' /\ ChosenIsSafe'
<1> USE DEF IInv
<1>1. ASSUME StopJobPosts PROVE GensAreOld' /\ ChosenIsSafe'
  <2>1. PICK j \in stopJobs : stopJobs' = stopJobs \ {j} /\ Post("stop", j.gen, j.frame)
    BY <1>1 DEF StopJobPosts
  <2>2. j.gen \in Nat /\ j.frame \in Frames
    BY <2>1 DEF TypeOK, JobType
  <2> DEFINE e == [kind |-> "stop", gen |-> j.gen, frame |-> j.frame]
  <2>3. e \in Messages /\ e.gen = j.gen /\ events' = Append(events, e)
    BY <2>1, <2>2 DEF Messages, Post
  <2>4. \A i \in DOMAIN events' : events'[i] = e \/ \E k \in DOMAIN events : events'[i] = events[k]
    BY <2>3, AppendElements DEF TypeOK, QueueType
  <2> HIDE DEF e
  <2>5. UNCHANGED <<updates, syncs, pendingFrameSync, codeNavGen, code, stopFile, browsed>>
    BY <1>1 DEF StopJobPosts, pending, panes, aux
  <2>6. ~SyncInFlight => ~SyncInFlight'
    BY <2>1, <2>2, <2>5, MessageIsQuiet
  <2> QED
    BY <2>1, <2>3, <2>4, <2>5, <2>6 DEF GensAreOld, ChosenIsSafe
<1>2. ASSUME SyncAsks PROVE GensAreOld' /\ ChosenIsSafe'
  <2>1. SyncInFlight
    BY <1>2 DEF SyncAsks, SyncInFlight
  <2> QED
    BY <1>2, <2>1, KeptApart DEF SyncAsks, panes, aux
<1>3. ASSUME SyncPosts PROVE GensAreOld' /\ ChosenIsSafe'
  <2>1. PICK i \in DOMAIN got : Post("frame", 0, got[i])
    BY <1>3 DEF SyncPosts
  <2>2. got # <<>> /\ got[i] \in Frames
    BY <2>1 DEF TypeOK, JobType
  <2>3. SyncInFlight
    BY <2>2 DEF SyncInFlight
  <2> DEFINE e == [kind |-> "frame", gen |-> 0, frame |-> got[i]]
  <2>4. e \in Messages /\ e.kind = "frame" /\ events' = Append(events, e)
    BY <2>1, <2>2 DEF Messages, Post
  <2>5. \A k \in DOMAIN events' : events'[k] = e \/ \E l \in DOMAIN events : events'[k] = events[l]
    BY <2>4, AppendElements DEF TypeOK, QueueType
  <2> HIDE DEF e
  <2>6. UNCHANGED <<stopJobs, codeNavGen, browsed>>
    BY <1>3 DEF SyncPosts, panes, aux
  <2> QED
    BY <2>3, <2>4, <2>5, <2>6 DEF GensAreOld, ChosenIsSafe
<1>4. ASSUME RefreshAsks PROVE GensAreOld' /\ ChosenIsSafe'
  BY <1>4, KeptApart DEF RefreshAsks, syncs, pending, panes, aux, SyncInFlight
<1>5. ASSUME RefreshPosts PROVE GensAreOld' /\ ChosenIsSafe'
  <2> DEFINE e == [kind |-> "info", gen |-> 0, frame |-> NoFrame]
  <2>1. e \in Messages /\ e.kind = "info" /\ events' = Append(events, e)
    BY <1>5, NoFrameType DEF RefreshPosts, Messages, Post
  <2>2. \A k \in DOMAIN events' : events'[k] = e \/ \E l \in DOMAIN events : events'[k] = events[l]
    BY <2>1, AppendElements DEF TypeOK, QueueType
  <2> HIDE DEF e
  <2>3. UNCHANGED <<updates, stopJobs, syncs, pendingFrameSync, codeNavGen, code, stopFile, browsed>>
    BY <1>5 DEF RefreshPosts, pending, panes, aux
  <2>4. ~SyncInFlight => ~SyncInFlight'
    BY <1>5, <2>3, NoFrameType, MessageIsQuiet DEF RefreshPosts
  <2> QED
    BY <2>1, <2>2, <2>3, <2>4 DEF GensAreOld, ChosenIsSafe
<1>6. ASSUME TimerChecks PROVE GensAreOld' /\ ChosenIsSafe'
  BY <1>6, KeptApart DEF TimerChecks, syncs, pending, panes, aux, SyncInFlight
<1>7. ASSUME TimerTriggers PROVE GensAreOld' /\ ChosenIsSafe'
  BY <1>7, KeptApart DEF TimerTriggers, syncs, panes, aux, SyncInFlight
<1> QED
  BY <1>1, <1>2, <1>3, <1>4, <1>5, <1>6, <1>7

LEMMA IInvNext == ASSUME IInv, [Next]_vars PROVE IInv'
<1>1. TypeOK'
  BY TypeOKNext DEF IInv
<1>2. ASSUME UNCHANGED vars PROVE GensAreOld' /\ ChosenIsSafe'
  BY <1>2, KeptApart DEF IInv, vars, jobs, syncs, pending, panes, aux, SyncInFlight
<1> QED
  BY <1>1, <1>2, Steps, UserKeeps, GdbKeeps, UpdateKeeps, EventKeeps, JobsKeep DEF IInv

(* Whatever stops, refreshes and timers are still to report, Code stays at *)
(* the row the user chose: any stop's goroutine or message left over from  *)
(* before his choice is of an earlier generation.                          *)
THEOREM ChosenRowSticks == Spec => []RowSticks
<1>1. IInv => RowSticks
  BY DEF IInv, ChosenIsSafe, RowSticks
<1> QED
  BY <1>1, IInvInit, IInvNext, PTL DEF Spec
---------------------------------------------------------------------------
(* Code and panes follow GDB.                                              *)
(*                                                                         *)
(* What is in a queue, in any order. *)

LEMMA RangeAppended ==
    ASSUME NEW S, NEW s \in Seq(S), NEW e \in S PROVE Range(Append(s, e)) = Range(s) \cup {e}
<1>1. /\ DOMAIN Append(s, e) = 1 .. Len(s) + 1 /\ DOMAIN s = 1 .. Len(s) /\ Len(s) \in Nat
      /\ Append(s, e)[Len(s) + 1] = e /\ \A k \in 1 .. Len(s) : Append(s, e)[k] = s[k]
  OBVIOUS
<1>2. DOMAIN Append(s, e) = DOMAIN s \cup {Len(s) + 1}
  BY <1>1
<1> QED
  BY <1>1, <1>2 DEF Range

LEMMA RangeTaken ==
    ASSUME NEW S, NEW s \in Seq(S), s # <<>>
    PROVE  Range(s) = {Head(s)} \cup Range(Tail(s)) /\ Head(s) \in S
<1>1. /\ DOMAIN Tail(s) = 1 .. Len(s) - 1 /\ DOMAIN s = 1 .. Len(s) /\ Len(s) \in Nat /\ Len(s) > 0
      /\ Head(s) = s[1] /\ s[1] \in S /\ \A k \in 1 .. Len(s) - 1 : Tail(s)[k] = s[k + 1]
  OBVIOUS
<1>2. Range(Tail(s)) \subseteq Range(s) /\ Head(s) \in Range(s)
  BY <1>1 DEF Range
<1>3. ASSUME NEW i \in DOMAIN s PROVE s[i] \in {Head(s)} \cup Range(Tail(s))
  <2>1. CASE i = 1
    BY <1>1, <2>1
  <2>2. CASE i # 1
    <3>1. i - 1 \in DOMAIN Tail(s) /\ Tail(s)[i - 1] = s[i]
      BY <1>1, <2>2
    <3> QED
      BY <3>1 DEF Range
  <2> QED
    BY <2>1, <2>2
<1> QED
  BY <1>1, <1>2, <1>3 DEF Range

LEMMA RangeRemoved ==
    ASSUME NEW S, NEW s \in Seq(S), NEW i \in DOMAIN s PROVE Range(RemoveAt(s, i)) \subseteq Range(s)
BY RemovedType DEF Range

LEMMA RangeEmpty == Range(<<>>) = {}
BY DEF Range

(* Stops and exits the panes have not seen; the stop, the selection and    *)
(* the refresh that are still to reach them.                               *)
NoNews == \A u \in Range(updates) : u.kind \notin {"stop", "exit"}

StopComing ==
    \/ \E j \in stopJobs : j.gen = codeNavGen
    \/ \E e \in Range(events) : e.kind = "stop" /\ e.gen = codeNavGen

SelectionComing ==
    \/ asking > 0 \/ got # <<>> \/ pendingFrameSync
    \/ \E e \in Range(events) : e.kind = "frame"
    \/ \E u \in Range(updates) : u.kind = "frame"

RefreshComing ==
    pendingDebugInfo \/ runner.pc # "idle" \/ \E e \in Range(events) : e.kind = "info"

LEMMA ComingIsInFlight ==
    /\ SyncInFlight <=> SelectionComing
    /\ (SyncInFlight <=> SelectionComing)'
BY DEF SyncInFlight, SelectionComing, Range

(* GDB's updates tell what it does in the order in which it does it ... *)
QueueInOrder ==
    /\ status = "stopped" => \A i \in DOMAIN updates : updates[i].kind = "exit" =>
         \E k \in DOMAIN updates : k > i /\ updates[k].kind = "stop"
    /\ status = "dead" => \A i \in DOMAIN updates : updates[i].kind \in {"stop", "frame"} =>
         \E k \in DOMAIN updates : k > i /\ updates[k].kind = "exit"
    /\ \A i \in DOMAIN updates : updates[i].kind = "stop" =>
         /\ updates[i].frame.level = 0 /\ updates[i].frame.stop <= sel.stop
         /\ \A k \in DOMAIN updates : k > i /\ updates[k].kind = "stop" =>
              updates[k].frame.stop > updates[i].frame.stop

(* ... GDB selects a frame that there is, and a refresh that waits for a   *)
(* prompt has a timer.                                                     *)
SelIsInStack == status = "stopped" => sel.stop > 0 /\ (sel.thread = 2 => sel.level = 0)

TimersArmed == pendingDebugInfo => timers.asleep > 0 \/ timers.due > 0

QueueInv == QueueInOrder /\ SelIsInStack /\ TimersArmed

(* With the last stop seen and nothing overtaken, whatever is still to     *)
(* come is GDB's frame ... *)
StopsAreSel ==
    /\ \A j \in stopJobs : j.gen = codeNavGen => j.frame = sel /\ sel.level = 0
    /\ \A e \in Range(events) : e.kind = "stop" /\ e.gen = codeNavGen => e.frame = sel /\ sel.level = 0

SyncsAreSel ==
    /\ \A u \in Range(updates) : u.kind = "frame" => u.frame = sel
    /\ \A f \in Range(got) : f = sel
    /\ \A e \in Range(events) : e.kind = "frame" => e.frame = sel

SyncIsNext == pendingFrameSync => updates # <<>> /\ Head(updates).prompt /\ ~Head(updates).error

RefreshIsSel == runner.pc = "got" => runner.ok /\ runner.stack = StackOf(sel)

ModelIsSel ==
    (\E e \in Range(events) : e.kind \in {"info", "frame"}) => model.stack = StackOf(sel)

AirIsSel == StopsAreSel /\ SyncsAreSel /\ SyncIsNext /\ RefreshIsSel /\ ModelIsSel

(* ... and what is not there yet is still to come. *)
FileComes  == stopFile \/ (RefreshComing /\ ~HasFile(StackOf(sel)))
StackComes == shown.stack = StackOf(sel) \/ RefreshComing \/ SelectionComing
RowComes   == shown.row = sel.level \/ StopComing \/ SelectionComing
CodeComes  == HasFile(sel) => code = sel \/ StopComing \/ SelectionComing

PanesCome == FileComes /\ StackComes /\ RowComes /\ CodeComes

(* With the exit seen, nothing is left to show. *)
Gone ==
    /\ model.stack = NoFrame /\ shown.stack = NoFrame /\ code = NoFrame
    /\ stopJobs = {} /\ ~SelectionComing
    /\ \A e \in Range(events) : e.kind = "info"
    /\ runner.pc = "got" /\ runner.ok => runner.stack = NoFrame

Timely == clean /\ NoNews

FollowInv ==
    /\ Timely /\ status = "stopped" => AirIsSel /\ PanesCome
    /\ Timely /\ status = "dead" => Gone

LEMMA Appended ==
    ASSUME NEW S, NEW s \in Seq(S), NEW e \in S
    PROVE  /\ DOMAIN s = 1 .. Len(s) /\ Len(s) \in Nat
           /\ DOMAIN Append(s, e) = 1 .. Len(s) + 1
           /\ Append(s, e)[Len(s) + 1] = e /\ \A k \in 1 .. Len(s) : Append(s, e)[k] = s[k]
OBVIOUS

LEMMA HeadTaken ==
    ASSUME NEW S, NEW s \in Seq(S), s # <<>>
    PROVE  /\ DOMAIN s = 1 .. Len(s) /\ Len(s) \in Nat
           /\ DOMAIN Tail(s) = 1 .. Len(s) - 1
           /\ \A k \in 1 .. Len(s) - 1 : Tail(s)[k] = s[k + 1]
OBVIOUS

(* An update that is neither a stop nor an exit is added. *)
LEMMA OrderAppended ==
    ASSUME TypeOK, QueueInOrder, NEW u \in Updates, updates' = Append(updates, u),
           u.kind \notin {"stop", "exit"}, sel'.stop = sel.stop,
           status' = "running" \/ (status' = "stopped" /\ status = "stopped")
    PROVE  QueueInOrder'
<1>1. /\ DOMAIN updates = 1 .. Len(updates) /\ Len(updates) \in Nat
      /\ DOMAIN updates' = 1 .. Len(updates) + 1
      /\ updates'[Len(updates) + 1] = u /\ \A k \in 1 .. Len(updates) : updates'[k] = updates[k]
  BY Appended DEF TypeOK, QueueType
<1>2. ASSUME status' = "stopped", NEW i \in DOMAIN updates', updates'[i].kind = "exit"
      PROVE  \E k \in DOMAIN updates' : k > i /\ updates'[k].kind = "stop"
  <2>1. i \in DOMAIN updates /\ updates[i].kind = "exit"
    BY <1>1, <1>2
  <2>2. PICK k \in DOMAIN updates : k > i /\ updates[k].kind = "stop"
    BY <1>2, <2>1 DEF QueueInOrder
  <2> QED
    BY <1>1, <2>2
<1>3. ASSUME NEW i \in DOMAIN updates', updates'[i].kind = "stop"
      PROVE  i \in DOMAIN updates /\ updates'[i] = updates[i]
  BY <1>1, <1>3
<1>4. ASSUME NEW i \in DOMAIN updates', updates'[i].kind = "stop"
      PROVE  /\ updates'[i].frame.level = 0 /\ updates'[i].frame.stop <= sel'.stop
             /\ \A k \in DOMAIN updates' : k > i /\ updates'[k].kind = "stop" =>
                  updates'[k].frame.stop > updates'[i].frame.stop
  BY <1>3, <1>4 DEF QueueInOrder
<1> QED
  BY <1>2, <1>4 DEF QueueInOrder

LEMMA OrderTaken ==
    ASSUME TypeOK, QueueInOrder, updates # <<>>, updates' = Tail(updates), UNCHANGED <<status, sel>>
    PROVE  QueueInOrder'
<1>1. /\ DOMAIN updates = 1 .. Len(updates) /\ Len(updates) \in Nat
      /\ DOMAIN updates' = 1 .. Len(updates) - 1
      /\ \A k \in 1 .. Len(updates) - 1 : updates'[k] = updates[k + 1]
  BY HeadTaken DEF TypeOK, QueueType
<1>2. ASSUME NEW i \in DOMAIN updates' PROVE i + 1 \in DOMAIN updates /\ updates'[i] = updates[i + 1]
  BY <1>1
<1>3. ASSUME NEW i \in DOMAIN updates', NEW k \in DOMAIN updates, k > i + 1
      PROVE  k - 1 \in DOMAIN updates' /\ k - 1 > i /\ updates'[k - 1] = updates[k]
  BY <1>1, <1>3
<1>4. ASSUME status = "stopped", NEW i \in DOMAIN updates', updates'[i].kind = "exit"
      PROVE  \E k \in DOMAIN updates' : k > i /\ updates'[k].kind = "stop"
  <2>1. PICK k \in DOMAIN updates : k > i + 1 /\ updates[k].kind = "stop"
    BY <1>2, <1>4 DEF QueueInOrder
  <2> QED
    BY <1>3, <2>1
<1>5. ASSUME status = "dead", NEW i \in DOMAIN updates', updates'[i].kind \in {"stop", "frame"}
      PROVE  \E k \in DOMAIN updates' : k > i /\ updates'[k].kind = "exit"
  <2>1. PICK k \in DOMAIN updates : k > i + 1 /\ updates[k].kind = "exit"
    BY <1>2, <1>5 DEF QueueInOrder
  <2> QED
    BY <1>3, <2>1
<1>6. ASSUME NEW i \in DOMAIN updates', updates'[i].kind = "stop"
      PROVE  /\ updates'[i].frame.level = 0 /\ updates'[i].frame.stop <= sel.stop
             /\ \A k \in DOMAIN updates' : k > i /\ updates'[k].kind = "stop" =>
                  updates'[k].frame.stop > updates'[i].frame.stop
  <2>1. i + 1 \in DOMAIN updates /\ updates[i + 1] = updates'[i]
    BY <1>2
  <2>2. ASSUME NEW k \in DOMAIN updates', k > i
        PROVE  k + 1 \in DOMAIN updates /\ k + 1 > i + 1 /\ updates[k + 1] = updates'[k]
    BY <1>1, <1>2, <2>2
  <2> QED
    BY <1>6, <2>1, <2>2 DEF QueueInOrder
<1> QED
  BY <1>4, <1>5, <1>6 DEF QueueInOrder

LEMMA StopInOrder == ASSUME TypeOK, QueueInOrder, GdbStops PROVE QueueInOrder'
<1>1. PICK prompt \in BOOLEAN : updates' = Append(updates, Update("stop", sel', prompt, FALSE))
  BY DEF GdbStops
<1>2. sel' \in Frames /\ sel.stop \in 0 .. MaxStops
  BY GdbTypes, StopType DEF TypeOK, TargetType
<1>3. status' = "stopped" /\ sel'.level = 0 /\ sel'.stop = sel.stop + 1
  BY DEF GdbStops
<1> DEFINE u == Update("stop", sel', prompt, FALSE)
<1>4. u \in Updates /\ u.kind = "stop" /\ u.frame = sel'
  BY <1>2, UpdateType DEF Update
<1>5. updates' = Append(updates, u)
  BY <1>1
<1> HIDE DEF u
<1>6. /\ DOMAIN updates = 1 .. Len(updates) /\ Len(updates) \in Nat
      /\ DOMAIN updates' = 1 .. Len(updates) + 1
      /\ updates'[Len(updates) + 1] = u /\ \A k \in 1 .. Len(updates) : updates'[k] = updates[k]
  BY <1>4, <1>5, Appended DEF TypeOK, QueueType
<1>7. \A i \in DOMAIN updates : updates[i].frame.stop \in Nat
  <2>1. \A i \in DOMAIN updates : updates[i] \in Updates
    BY DEF TypeOK, QueueType
  <2>2. \A i \in DOMAIN updates : updates[i].frame \in Frames
    BY <2>1 DEF Updates
  <2> QED
    BY <2>2, StopType, StopNavigationAssumption
<1>8. ASSUME NEW i \in DOMAIN updates', updates'[i].kind = "exit"
      PROVE  \E k \in DOMAIN updates' : k > i /\ updates'[k].kind = "stop"
  <2>1. i # Len(updates) + 1 /\ Len(updates) + 1 \in DOMAIN updates' /\ Len(updates) + 1 > i
    BY <1>4, <1>6, <1>8
  <2> QED
    BY <1>4, <1>6, <2>1
<1>9. ASSUME NEW i \in DOMAIN updates', updates'[i].kind = "stop"
      PROVE  /\ updates'[i].frame.level = 0 /\ updates'[i].frame.stop <= sel'.stop
             /\ \A k \in DOMAIN updates' : k > i /\ updates'[k].kind = "stop" =>
                  updates'[k].frame.stop > updates'[i].frame.stop
  <2>1. CASE i = Len(updates) + 1
    <3>1. ~(\E k \in DOMAIN updates' : k > i)
      BY <1>6, <2>1
    <3>2. updates'[i].frame = sel' /\ sel'.stop <= sel'.stop
      BY <1>2, <1>3, <1>4, <1>6, <2>1
    <3> QED
      BY <1>3, <3>1, <3>2
  <2>2. CASE i # Len(updates) + 1
    <3>1. i \in DOMAIN updates /\ updates'[i] = updates[i]
      BY <1>6, <2>2
    <3>2. updates[i].frame.level = 0 /\ updates[i].frame.stop <= sel.stop /\ updates[i].frame.stop < sel'.stop
      BY <1>2, <1>3, <1>7, <1>9, <3>1 DEF QueueInOrder
    <3>3. ASSUME NEW k \in DOMAIN updates', k > i, updates'[k].kind = "stop"
          PROVE  updates'[k].frame.stop > updates'[i].frame.stop
      <4>1. CASE k = Len(updates) + 1
        BY <1>4, <1>6, <3>1, <3>2, <4>1
      <4>2. CASE k # Len(updates) + 1
        <5>1. k \in DOMAIN updates /\ updates'[k] = updates[k]
          BY <1>6, <4>2
        <5> QED
          BY <1>9, <3>1, <3>3, <5>1 DEF QueueInOrder
      <4> QED
        BY <4>1, <4>2
    <3>4. updates[i].frame.stop <= sel'.stop
      BY <1>2, <1>3, <1>7, <3>1, <3>2
    <3> QED
      BY <3>1, <3>2, <3>3, <3>4
  <2> QED
    BY <2>1, <2>2
<1> QED
  BY <1>3, <1>8, <1>9 DEF QueueInOrder

LEMMA ExitInOrder == ASSUME TypeOK, QueueInOrder, ProgramExits PROVE QueueInOrder'
<1> DEFINE u == Update("exit", NoFrame, TRUE, FALSE)
<1>1. u \in Updates /\ u.kind = "exit"
  BY NoFrameType, UpdateType DEF Update
<1>2. updates' = Append(updates, u) /\ status' = "dead" /\ sel' = sel
  BY DEF ProgramExits, target
<1> HIDE DEF u
<1>3. /\ DOMAIN updates = 1 .. Len(updates) /\ Len(updates) \in Nat
      /\ DOMAIN updates' = 1 .. Len(updates) + 1
      /\ updates'[Len(updates) + 1] = u /\ \A k \in 1 .. Len(updates) : updates'[k] = updates[k]
  BY <1>1, <1>2, Appended DEF TypeOK, QueueType
<1>4. ASSUME NEW i \in DOMAIN updates', updates'[i].kind \in {"stop", "frame"}
      PROVE  /\ i \in DOMAIN updates /\ updates'[i] = updates[i]
             /\ \E k \in DOMAIN updates' : k > i /\ updates'[k].kind = "exit"
  <2>1. i # Len(updates) + 1 /\ Len(updates) + 1 \in DOMAIN updates' /\ Len(updates) + 1 > i
    BY <1>1, <1>3, <1>4
  <2> QED
    BY <1>1, <1>3, <2>1
<1>5. ASSUME NEW i \in DOMAIN updates', updates'[i].kind = "stop"
      PROVE  /\ updates'[i].frame.level = 0 /\ updates'[i].frame.stop <= sel'.stop
             /\ \A k \in DOMAIN updates' : k > i /\ updates'[k].kind = "stop" =>
                  updates'[k].frame.stop > updates'[i].frame.stop
  BY <1>2, <1>4, <1>5 DEF QueueInOrder
<1> QED
  BY <1>2, <1>4, <1>5 DEF QueueInOrder

(* The frame of a row, and the rows of a stack. *)
LEMMA FrameFacts ==
    ASSUME NEW f \in Frames, NEW l \in 0 .. 1
    PROVE  /\ StackOf([f EXCEPT !.level = l]) = StackOf(f)
           /\ [StackOf(f) EXCEPT !.level = l] = [f EXCEPT !.level = l]
           /\ [f EXCEPT !.level = l].level = l
           /\ [f EXCEPT !.level = l].stop = f.stop /\ [f EXCEPT !.level = l].thread = f.thread
           /\ StackOf(f).level = 0 /\ StackOf(f).stop = f.stop /\ StackOf(f).thread = f.thread
           /\ f.level = l => [f EXCEPT !.level = l] = f
BY DEF Frames, StackOf

LEMMA StackFacts ==
    ASSUME NEW f \in Frames, f.stop > 0
    PROVE  /\ StackOf(f) # NoFrame /\ f.thread \in {1, 2}
           /\ Levels(StackOf(f)) = IF f.thread = 1 THEN 0 .. 1 ELSE {0}
<1>1. StackOf(f).stop = f.stop /\ StackOf(f).thread = f.thread /\ f.thread \in 1 .. 2 /\ f.stop \in 0 .. MaxStops
  BY DEF Frames, StackOf
<1>2. StackOf(f) # NoFrame
  <2>1. NoFrame.stop = 0 /\ f.stop # 0
    BY <1>1, StopNavigationAssumption DEF NoFrame
  <2> QED
    BY <1>1, <2>1
<1> QED
  BY <1>1, <1>2 DEF Levels

LEMMA QueueInvInit == ASSUME Init PROVE QueueInv
<1>1. DOMAIN updates = {} /\ status = "running" /\ ~pendingDebugInfo
  BY DEF Init
<1> QED
  BY <1>1 DEF QueueInv, QueueInOrder, SelIsInStack, TimersArmed

LEMMA QueueInvUser ==
    ASSUME TypeOK, QueueInv,
           \/ Resume \/ (\E level \in 0 .. 1 : activateCallStack(level))
           \/ (\E t \in 1 .. 2 : activateThread(t)) \/ (\E f \in Frames : ConsoleSelects(f))
    PROVE  QueueInv'
<1>s. sel \in Frames /\ 0 \in 0 .. 1
  BY DEF TypeOK, TargetType
<1>1. CASE Resume
  <2>1. Prompt.kind = "done"
    BY DEF Prompt, Update
  <2>2. /\ updates' = Append(updates, Prompt) /\ status' = "running"
        /\ UNCHANGED <<sel, pendingDebugInfo, timers>>
    BY <1>1 DEF Resume, jobs, pending
  <2> QED
    BY <2>1, <2>2, PromptType, OrderAppended DEF QueueInv, SelIsInStack, TimersArmed
<1>2. ASSUME NEW level \in 0 .. 1, activateCallStack(level) PROVE QueueInv'
  <2> DEFINE ok == level \in Levels(StackOf(sel))
             u  == Update("done", NoFrame, TRUE, ~ok)
  <2>1. u \in Updates /\ u.kind = "done"
    BY NoFrameType, UpdateType DEF Update
  <2>2. /\ updates' = Append(updates, u) /\ status = "stopped" /\ status' = status
        /\ sel' = (IF ok THEN [sel EXCEPT !.level = level] ELSE sel)
        /\ UNCHANGED <<pendingDebugInfo, timers>>
    BY <1>2 DEF activateCallStack, jobs, pending
  <2>3. sel'.stop = sel.stop /\ (sel' = sel \/ (ok /\ sel'.level = level /\ sel'.thread = sel.thread))
    BY <1>s, <2>2, FrameFacts
  <2>4. SelIsInStack'
    BY <1>s, <2>2, <2>3, StackFacts DEF QueueInv, SelIsInStack
  <2> HIDE DEF u
  <2> QED
    BY <2>1, <2>2, <2>3, <2>4, OrderAppended DEF QueueInv, TimersArmed
<1>3. ASSUME NEW t \in 1 .. 2, activateThread(t) PROVE QueueInv'
  <2>1. PICK u \in {Prompt, Update("frame", sel', TRUE, FALSE)} : updates' = Append(updates, u)
    BY <1>3 DEF activateThread
  <2>2. sel' \in Frames /\ sel'.stop = sel.stop /\ sel'.level = 0
    <3>1. sel' = [sel EXCEPT !.thread = t, !.level = 0]
      BY <1>3 DEF activateThread
    <3> QED
      BY <1>s, <3>1 DEF Frames
  <2>3. u \in Updates /\ u.kind \notin {"stop", "exit"}
    <3>1. Prompt \in Updates /\ Prompt.kind = "done"
      BY PromptType DEF Prompt, Update
    <3>2. Update("frame", sel', TRUE, FALSE) \in Updates /\ Update("frame", sel', TRUE, FALSE).kind = "frame"
      BY <2>2, UpdateType DEF Update
    <3> QED
      BY <3>1, <3>2
  <2>4. status = "stopped" /\ status' = status /\ UNCHANGED <<pendingDebugInfo, timers>>
    BY <1>3 DEF activateThread, jobs
  <2> QED
    BY <2>1, <2>2, <2>3, <2>4, OrderAppended DEF QueueInv, SelIsInStack, TimersArmed
<1>4. ASSUME NEW f \in Frames, ConsoleSelects(f) PROVE QueueInv'
  <2>1. Update("frame", f, FALSE, FALSE) \in Updates /\ Update("frame", f, FALSE, FALSE).kind = "frame"
    BY UpdateType DEF Update
  <2>2. /\ updates' = Append(updates, Update("frame", f, FALSE, FALSE)) /\ sel' = f /\ f.stop = sel.stop
        /\ f.level \in Levels(StackOf(f)) /\ status = "stopped" /\ status' = status
        /\ UNCHANGED <<pendingDebugInfo, timers>>
    BY <1>4 DEF ConsoleSelects, jobs, pending
  <2>3. SelIsInStack'
    BY <2>2, StackFacts DEF QueueInv, SelIsInStack
  <2> QED
    BY <2>1, <2>2, <2>3, OrderAppended DEF QueueInv, TimersArmed
<1> QED
  BY <1>1, <1>2, <1>3, <1>4

LEMMA QueueInvNext == ASSUME TypeOK, QueueInv, [Next]_vars PROVE QueueInv'
<1>1. ASSUME UNCHANGED <<updates, status, sel>> PROVE QueueInOrder' /\ SelIsInStack'
  BY <1>1 DEF QueueInv, QueueInOrder, SelIsInStack
<1>2. CASE GdbStops
  <2>1. sel'.stop > 0 /\ sel'.level = 0
    <3>1. sel'.stop = sel.stop + 1 /\ sel'.level = 0
      BY <1>2 DEF GdbStops
    <3> QED
      BY <3>1, StopType, StopNavigationAssumption DEF TypeOK, TargetType
  <2> QED
    BY <1>2, <2>1, StopInOrder DEF GdbStops, jobs, pending, QueueInv, SelIsInStack, TimersArmed
<1>3. CASE ProgramExits
  BY <1>3, ExitInOrder DEF ProgramExits, jobs, pending, QueueInv, SelIsInStack, TimersArmed
<1>4. CASE HandleUpdate
  <2>1. QueueInOrder' /\ SelIsInStack'
    BY <1>4, OrderTaken DEF HandleUpdate, target, QueueInv, SelIsInStack
  <2>2. TimersArmed'
    <3> DEFINE u == Head(updates)
    <3>1. /\ pendingDebugInfo' => pendingDebugInfo \/ u.kind = "stop"
          /\ \/ u.kind = "stop" /\ timers' = [timers EXCEPT !.asleep = @ + 1]
             \/ u.kind # "stop" /\ timers' = timers
      BY <1>4 DEF HandleUpdate, Pending, onGdbStopped, armDebugInfoRefresh, clearDebugInfoPanes,
                  onGdbFrameSelected
    <3>2. timers \in [asleep : Nat, due : Nat]
      BY DEF TypeOK, JobType
    <3> HIDE DEF u
    <3>3. CASE timers' = [timers EXCEPT !.asleep = @ + 1]
      <4>1. timers'.asleep = timers.asleep + 1
        BY <3>2, <3>3
      <4> QED
        BY <3>2, <4>1 DEF TimersArmed
    <3> QED
      BY <3>1, <3>3 DEF QueueInv, TimersArmed
  <2> QED
    BY <2>1, <2>2 DEF QueueInv
<1>5. CASE TimerChecks
  <2>1. timers' = [asleep |-> timers.asleep - 1, due |-> IF pendingDebugInfo THEN timers.due + 1 ELSE timers.due]
    BY <1>5 DEF TimerChecks
  <2>2. pendingDebugInfo => timers'.due > 0
    BY <2>1 DEF TypeOK, JobType
  <2> QED
    BY <1>1, <1>5, <2>2 DEF TimerChecks, target, pending, QueueInv, TimersArmed
<1>6. CASE TimerTriggers
  BY <1>1, <1>6 DEF TimerTriggers, target, QueueInv, TimersArmed
<1>7. CASE HandleEvent \/ StopJobPosts \/ SyncAsks \/ SyncPosts \/ RefreshAsks \/ RefreshPosts \/ UNCHANGED vars
  <2>1. UNCHANGED <<updates, status, sel, timers, pendingDebugInfo>>
    BY <1>7 DEF HandleEvent, StopJobPosts, SyncAsks, SyncPosts, RefreshAsks, RefreshPosts, vars,
                target, jobs, pending
  <2> QED
    BY <1>1, <2>1 DEF QueueInv, TimersArmed
<1> QED
  BY <1>2, <1>3, <1>4, <1>5, <1>6, <1>7, Steps, QueueInvUser

(* What an empty session, and one with nothing in flight, look like. *)
LEMMA NothingInFlight ==
    ASSUME ~InFlight, ~SyncInFlight
    PROVE  /\ asking = 0 \/ ~(asking > 0)
           /\ got = <<>> /\ ~pendingFrameSync /\ events = <<>> /\ stopJobs = {}
           /\ runner.pc = "idle" /\ \A u \in Range(updates) : u.kind # "frame"
BY ComingIsInFlight DEF InFlight, SelectionComing

(* A step that leaves the panes alone, and does not lose what is coming. *)
NothingLost ==
    /\ StopComing => StopComing'
    /\ RefreshComing => RefreshComing'
    /\ SelectionComing => SelectionComing'

LEMMA PanesStillCome ==
    ASSUME PanesCome, UNCHANGED <<sel, sourced, shown, code, stopFile>>, NothingLost
    PROVE  PanesCome'
BY DEF NothingLost, PanesCome, FileComes, StackComes, RowComes, CodeComes, HasFile

(* ... nor puts anything in the air. *)
LEMMA AirStays ==
    ASSUME AirIsSel, UNCHANGED <<sel, codeNavGen, model, updates, pendingFrameSync>>,
           Range(got') \subseteq Range(got), Range(events') \subseteq Range(events),
           stopJobs' \subseteq stopJobs,
           runner'.pc = "got" => runner'.ok = runner.ok /\ runner'.stack = runner.stack /\ runner.pc = "got"
    PROVE  AirIsSel'
BY DEF AirIsSel, StopsAreSel, SyncsAreSel, SyncIsNext, RefreshIsSel, ModelIsSel

(* A goroutine posts a message. *)
LEMMA Posts ==
    ASSUME TypeOK, NEW kind \in {"stop", "frame", "info"}, NEW gen \in Nat, NEW f \in Frames, Post(kind, gen, f)
    PROVE  /\ Range(events') = Range(events) \cup {[kind |-> kind, gen |-> gen, frame |-> f]}
           /\ [kind |-> kind, gen |-> gen, frame |-> f].kind = kind
           /\ [kind |-> kind, gen |-> gen, frame |-> f].gen = gen
           /\ [kind |-> kind, gen |-> gen, frame |-> f].frame = f
<1>1. [kind |-> kind, gen |-> gen, frame |-> f] \in Messages
  BY DEF Messages
<1> QED
  BY <1>1, RangeAppended DEF Post, TypeOK, QueueType

LEMMA StopJobFollows ==
    ASSUME TypeOK, AirIsSel, PanesCome, StopJobPosts PROVE AirIsSel' /\ PanesCome'
<1>1. PICK j \in stopJobs : stopJobs' = stopJobs \ {j} /\ Post("stop", j.gen, j.frame)
  BY DEF StopJobPosts
<1>2. j.gen \in Nat /\ j.frame \in Frames
  BY <1>1 DEF TypeOK, JobType
<1> DEFINE e == [kind |-> "stop", gen |-> j.gen, frame |-> j.frame]
<1>3. Range(events') = Range(events) \cup {e} /\ e.kind = "stop" /\ e.gen = j.gen /\ e.frame = j.frame
  BY <1>1, <1>2, Posts
<1> HIDE DEF e
<1>4. UNCHANGED <<sel, sourced, shown, code, stopFile, codeNavGen, model, updates, asking, got, runner,
                  pendingDebugInfo, pendingFrameSync>>
  BY DEF StopJobPosts, target, syncs, pending, panes
<1>5. AirIsSel'
  BY <1>1, <1>3, <1>4
     DEF AirIsSel, StopsAreSel, SyncsAreSel, SyncIsNext, RefreshIsSel, ModelIsSel
<1>6. NothingLost
  BY <1>1, <1>3, <1>4 DEF NothingLost, StopComing, RefreshComing, SelectionComing
<1> QED
  <2>1. UNCHANGED <<sel, sourced, shown, code, stopFile>>
    BY <1>4
  <2> QED
    BY <2>1, <1>5, <1>6, PanesStillCome

LEMMA SyncAsksFollows ==
    ASSUME TypeOK, AirIsSel, PanesCome, SyncAsks, status = "stopped" PROVE AirIsSel' /\ PanesCome'
<1>1. got' = Append(got, sel) /\ got \in Seq(Frames) /\ sel \in Frames
  BY DEF SyncAsks, TypeOK, JobType, TargetType
<1>2. Range(got') = Range(got) \cup {sel} /\ got' # <<>>
  <2>1. got' # <<>>
    BY <1>1
  <2> QED
    BY <1>1, <2>1, RangeAppended
<1>3. UNCHANGED <<sel, sourced, shown, code, stopFile, codeNavGen, model, updates, events, stopJobs, runner,
                  pendingDebugInfo, pendingFrameSync>>
  BY DEF SyncAsks, target, pending, panes
<1>4. AirIsSel'
  BY <1>2, <1>3 DEF AirIsSel, StopsAreSel, SyncsAreSel, SyncIsNext, RefreshIsSel, ModelIsSel
<1>5. NothingLost
  BY <1>2, <1>3 DEF NothingLost, StopComing, RefreshComing, SelectionComing
<1> QED
  <2>1. UNCHANGED <<sel, sourced, shown, code, stopFile>>
    BY <1>3
  <2> QED
    BY <2>1, <1>4, <1>5, PanesStillCome

LEMMA SyncPostsFollows ==
    ASSUME TypeOK, AirIsSel, PanesCome, SyncPosts PROVE AirIsSel' /\ PanesCome'
<1>1. PICK i \in DOMAIN got :
        /\ model' = [model EXCEPT !.stack = StackOf(got[i])]
        /\ Post("frame", 0, got[i])
        /\ got' = RemoveAt(got, i)
  BY DEF SyncPosts
<1>2. got \in Seq(Frames) /\ got[i] \in Frames /\ got[i] = sel
  <2>1. got \in Seq(Frames) /\ got[i] \in Frames
    BY <1>1 DEF TypeOK, JobType
  <2>2. got[i] \in Range(got)
    BY <1>1 DEF Range
  <2> QED
    BY <2>1, <2>2 DEF AirIsSel, SyncsAreSel
<1>3. Range(got') \subseteq Range(got)
  BY <1>1, <1>2, RangeRemoved
<1> DEFINE e == [kind |-> "frame", gen |-> 0, frame |-> sel]
<1>4. Range(events') = Range(events) \cup {e} /\ e.kind = "frame" /\ e.frame = sel
  BY <1>1, <1>2, Posts
<1> HIDE DEF e
<1>5. model'.stack = StackOf(sel)
  BY <1>1, <1>2 DEF TypeOK, PaneType
<1>6. UNCHANGED <<sel, sourced, shown, code, stopFile, codeNavGen, updates, stopJobs, runner,
                  pendingDebugInfo, pendingFrameSync>>
  BY DEF SyncPosts, target, pending, panes
<1>7. AirIsSel'
  BY <1>3, <1>4, <1>5, <1>6 DEF AirIsSel, StopsAreSel, SyncsAreSel, SyncIsNext, RefreshIsSel, ModelIsSel
<1>8. NothingLost
  BY <1>4, <1>6 DEF NothingLost, StopComing, RefreshComing, SelectionComing
<1> QED
  <2>1. UNCHANGED <<sel, sourced, shown, code, stopFile>>
    BY <1>6
  <2> QED
    BY <2>1, <1>7, <1>8, PanesStillCome

LEMMA RefreshAsksFollows ==
    ASSUME TypeOK, AirIsSel, PanesCome, RefreshAsks, status = "stopped" PROVE AirIsSel' /\ PanesCome'
<1>1. runner' = [runner EXCEPT !.pc = "got", !.ok = TRUE, !.stack = StackOf(sel)] /\ runner \in Runners
  BY DEF RefreshAsks, TypeOK, JobType
<1>2. runner'.pc = "got" /\ runner'.ok /\ runner'.stack = StackOf(sel)
  BY <1>1 DEF Runners
<1>3. UNCHANGED <<sel, sourced, shown, code, stopFile, codeNavGen, model, updates, events, stopJobs,
                  asking, got, pendingDebugInfo, pendingFrameSync>>
  BY DEF RefreshAsks, target, syncs, pending, panes
<1>4. AirIsSel'
  BY <1>2, <1>3 DEF AirIsSel, StopsAreSel, SyncsAreSel, SyncIsNext, RefreshIsSel, ModelIsSel
<1>5. NothingLost
  BY <1>2, <1>3 DEF NothingLost, StopComing, RefreshComing, SelectionComing
<1> QED
  <2>1. UNCHANGED <<sel, sourced, shown, code, stopFile>>
    BY <1>3
  <2> QED
    BY <2>1, <1>4, <1>5, PanesStillCome

LEMMA RefreshPostsFollows ==
    ASSUME TypeOK, AirIsSel, PanesCome, RefreshPosts PROVE AirIsSel' /\ PanesCome'
<1> DEFINE e == [kind |-> "info", gen |-> 0, frame |-> NoFrame]
<1>1. Range(events') = Range(events) \cup {e} /\ e.kind = "info"
  BY NoFrameType, Posts DEF RefreshPosts
<1> HIDE DEF e
<1>2. model'.stack = StackOf(sel) /\ runner'.pc # "got"
  BY DEF RefreshPosts, AirIsSel, RefreshIsSel
<1>3. UNCHANGED <<sel, sourced, shown, code, stopFile, codeNavGen, updates, stopJobs,
                  asking, got, pendingDebugInfo, pendingFrameSync>>
  BY DEF RefreshPosts, target, syncs, pending, panes
<1>4. AirIsSel'
  BY <1>1, <1>2, <1>3 DEF AirIsSel, StopsAreSel, SyncsAreSel, SyncIsNext, RefreshIsSel, ModelIsSel
<1>5. NothingLost
  BY <1>1, <1>3 DEF NothingLost, StopComing, RefreshComing, SelectionComing
<1> QED
  <2>1. UNCHANGED <<sel, sourced, shown, code, stopFile>>
    BY <1>3
  <2> QED
    BY <2>1, <1>4, <1>5, PanesStillCome

(* A refresh that is asked for again keeps what it has. *)
LEMMA ScheduledKeeps ==
    ASSUME NEW r \in Runners
    PROVE  /\ Scheduled(r).pc # "idle"
           /\ Scheduled(r).pc = "got" => r.pc = "got"
           /\ Scheduled(r).ok = r.ok /\ Scheduled(r).stack = r.stack
BY DEF Scheduled, Runners

LEMMA TimersFollow ==
    ASSUME TypeOK, AirIsSel, PanesCome, TimerChecks \/ TimerTriggers PROVE AirIsSel' /\ PanesCome'
<1>1. UNCHANGED <<sel, sourced, shown, code, stopFile, codeNavGen, model, updates, events, stopJobs,
                  asking, got, pendingFrameSync>>
  BY DEF TimerChecks, TimerTriggers, target, syncs, pending, panes
<1>2. \/ UNCHANGED <<runner, pendingDebugInfo>>
      \/ runner' = Scheduled(runner)
  BY DEF TimerChecks, TimerTriggers, pending
<1>3. runner \in Runners
  BY DEF TypeOK, JobType
<1>4. /\ runner'.pc = "got" => runner'.ok = runner.ok /\ runner'.stack = runner.stack /\ runner.pc = "got"
      /\ RefreshComing => RefreshComing'
  BY <1>1, <1>2, <1>3, ScheduledKeeps DEF RefreshComing
<1>5. AirIsSel'
  BY <1>1, <1>4, AirStays
<1>6. NothingLost
  BY <1>1, <1>4 DEF NothingLost, StopComing, SelectionComing
<1> QED
  <2>1. UNCHANGED <<sel, sourced, shown, code, stopFile>>
    BY <1>1
  <2> QED
    BY <2>1, <1>4, <1>5, <1>6, PanesStillCome

(* The rows of the call stack pane. *)
LEMMA RowFacts ==
    ASSUME NEW v \in Panes, NEW s \in Frames, NEW l \in 0 .. 1
    PROVE  /\ SelectLevel(v, 0).row = 0 /\ SelectLevel(v, 0).stack = v.stack
           /\ SelectLevel(v, l).stack = v.stack
           /\ SetItems(v, s).stack = s /\ SetItems(v, s) \in Panes
           /\ v.row \in Levels(s) => SetItems(v, s).row = v.row
           /\ l \in Levels(s) => SelectLevel(SetItems(v, s), l).row = l
<1>1. v \in [stack : Frames, threads : 0 .. MaxStops, row : 0 .. 1] /\ v.row \in Levels(v.stack) \cup {0}
  BY DEF Panes
<1>2. SelectLevel(v, l).stack = v.stack /\ SelectLevel(v, 0).stack = v.stack
  BY <1>1 DEF SelectLevel
<1>3. SelectLevel(v, 0).row = 0
  <2>1. CASE 0 \in Levels(v.stack)
    BY <1>1, <2>1 DEF SelectLevel
  <2>2. CASE 0 \notin Levels(v.stack)
    <3>1. Levels(v.stack) = {}
      BY <2>2 DEF Levels
    <3> QED
      BY <1>1, <2>2, <3>1 DEF SelectLevel
  <2> QED
    BY <2>1, <2>2
<1> DEFINE row == IF v.row \in Levels(s) THEN v.row ELSE 0
           w   == SetItems(v, s)
<1>4. w = [v EXCEPT !.stack = s, !.row = row]
  BY DEF SetItems
<1>5. w \in Panes
  BY SetItemsType
<1> HIDE DEF row
<1>6. w.stack = s /\ w.row = row
  BY <1>1, <1>4
<1>7. w \in [stack : Frames, threads : 0 .. MaxStops, row : 0 .. 1]
  BY <1>5 DEF Panes
<1> HIDE DEF w
<1>8. l \in Levels(s) => SelectLevel(w, l).row = l
  BY <1>6, <1>7 DEF SelectLevel
<1> QED
  BY <1>2, <1>3, <1>5, <1>6, <1>8 DEF row, w

(* The UI thread takes a message: what it does not take stays. *)
LEMMA EventLeft ==
    ASSUME TypeOK, events # <<>>, events' = Tail(events)
    PROVE  /\ Range(events) = {Head(events)} \cup Range(events') /\ Head(events) \in Messages
           /\ Head(events).frame \in Frames
<1>1. events \in Seq(Messages)
  BY DEF TypeOK, QueueType
<1>2. Range(events) = {Head(events)} \cup Range(events') /\ Head(events) \in Messages
  BY <1>1, RangeTaken
<1> QED
  BY <1>2 DEF Messages

LEMMA StopEventFollows ==
    ASSUME TypeOK, AirIsSel, PanesCome, HandleEvent, Head(events).kind = "stop", status = "stopped"
    PROVE  AirIsSel' /\ PanesCome'
<1> DEFINE m == Head(events)
<1>1. /\ events' = Tail(events) /\ Range(events) = {m} \cup Range(events') /\ m.kind = "stop"
      /\ m.frame \in Frames
  BY EventLeft DEF HandleEvent
<1>2. /\ \/ StopIsCurrent(m) /\ ShowStop(m.frame) /\ UNCHANGED stopFile
         \/ ~StopIsCurrent(m) /\ UNCHANGED <<shown, model, code, stopFile>>
      /\ UNCHANGED <<sel, sourced, updates, stopJobs, asking, got, runner, pendingDebugInfo,
                     pendingFrameSync, codeNavGen>>
  BY <1>1 DEF HandleEvent, target, jobs, syncs, pending
<1> HIDE DEF m
<1>3. RefreshComing => RefreshComing'
  BY <1>1, <1>2 DEF RefreshComing
<1>4. SelectionComing => SelectionComing'
  BY <1>1, <1>2 DEF SelectionComing
<1>5. model'.stack \in {model.stack, StackOf(sel)} => AirIsSel'
  BY <1>1, <1>2 DEF AirIsSel, StopsAreSel, SyncsAreSel, SyncIsNext, RefreshIsSel, ModelIsSel
<1>6. CASE ~StopIsCurrent(m)
  <2>1. StopComing => StopComing'
    BY <1>1, <1>2, <1>6 DEF StopComing, StopIsCurrent
  <2>2. UNCHANGED <<sel, sourced, shown, code, stopFile>> /\ model' = model
    BY <1>2, <1>6
  <2>3. NothingLost
    BY <1>3, <1>4, <2>1 DEF NothingLost
  <2> QED
    BY <1>5, <2>2, <2>3, PanesStillCome
<1>7. CASE StopIsCurrent(m)
  <2>1. m.frame = sel /\ sel.level = 0
    <3>1. m \in Range(events) /\ m.gen = codeNavGen
      BY <1>1, <1>7 DEF StopIsCurrent
    <3> QED
      BY <1>1, <3>1 DEF AirIsSel, StopsAreSel
  <2>2. ShowStop(sel) /\ stopFile' = stopFile
    BY <1>2, <1>7, <2>1
  <2>3. shown \in Panes /\ sel \in Frames /\ StackOf(sel) \in Frames /\ 0 \in 0 .. 1
    BY StackType DEF TypeOK, PaneType, TargetType
  <2> DEFINE top == SelectLevel(shown, 0)
  <2>4. top \in Panes /\ top.row = 0 /\ top.stack = shown.stack
    BY <2>3, RowFacts, SelectLevelType
  <2>5. code' = sel /\ shown'.row = 0
        /\ \/ model' = model /\ shown'.stack = shown.stack
           \/ model'.stack = StackOf(sel) /\ shown'.stack = StackOf(sel)
    <3>1. CASE HasFile(sel)
      <4>1. code' = sel /\ shown' = top /\ model' = model
        BY <2>2, <3>1 DEF ShowStop
      <4> HIDE DEF top
      <4> QED
        BY <2>4, <4>1
    <3>2. CASE ~HasFile(sel)
      <4>1. /\ code' = sel /\ model' = [model EXCEPT !.stack = StackOf(sel)]
            /\ shown' = SelectLevel(SetItems(top, StackOf(sel)), sel.level)
        BY <2>2, <3>2 DEF ShowStop
      <4> HIDE DEF top
      <4>2. model'.stack = StackOf(sel)
        BY <4>1 DEF TypeOK, PaneType
      <4>3. SetItems(top, StackOf(sel)) \in Panes /\ SetItems(top, StackOf(sel)).stack = StackOf(sel)
        BY <2>3, <2>4, RowFacts
      <4>4. shown'.row = 0 /\ shown'.stack = StackOf(sel)
        BY <2>1, <2>3, <4>1, <4>3, RowFacts
      <4> QED
        BY <4>1, <4>2, <4>4
    <3> QED
      BY <3>1, <3>2
  <2>6. AirIsSel'
    BY <1>5, <2>5
  <2>7. (HasFile(StackOf(sel)) <=> HasFile(StackOf(sel))')
    BY <1>2 DEF HasFile, StackOf
  <2>8. FileComes' /\ StackComes'
    BY <1>2, <1>3, <1>4, <2>2, <2>5, <2>7 DEF PanesCome, FileComes, StackComes
  <2>9. RowComes' /\ CodeComes'
    BY <1>2, <2>1, <2>5 DEF RowComes, CodeComes
  <2> QED
    BY <2>6, <2>8, <2>9 DEF PanesCome
<1> QED
  BY <1>6, <1>7

LEMMA FrameEventFollows ==
    ASSUME TypeOK, QueueInv, AirIsSel, PanesCome, HandleEvent, Head(events).kind = "frame", status = "stopped"
    PROVE  AirIsSel' /\ PanesCome'
<1> DEFINE m == Head(events)
<1>1. /\ events' = Tail(events) /\ Range(events) = {m} \cup Range(events') /\ m.kind = "frame"
  BY EventLeft DEF HandleEvent
<1>2. /\ ShowFrame(m.frame) /\ UNCHANGED stopFile
      /\ UNCHANGED <<sel, sourced, updates, stopJobs, asking, got, runner, pendingDebugInfo,
                     pendingFrameSync, codeNavGen>>
  BY <1>1 DEF HandleEvent, target, jobs, syncs, pending
<1>3. m.frame = sel /\ model.stack = StackOf(sel)
  BY <1>1 DEF AirIsSel, SyncsAreSel, ModelIsSel
<1> HIDE DEF m
<1>4. shown \in Panes /\ sel \in Frames /\ StackOf(sel) \in Frames /\ sel.level \in 0 .. 1 /\ sel.stop > 0
  BY StackType, StopType DEF TypeOK, PaneType, TargetType, QueueInv, SelIsInStack
<1>5. sel.level \in Levels(StackOf(sel))
  BY <1>4, StackFacts DEF QueueInv, SelIsInStack
<1>6. /\ shown' = SelectLevel(SetItems(shown, StackOf(sel)), sel.level) /\ code' = sel /\ model' = model
  BY <1>2, <1>3 DEF ShowFrame
<1>7. shown'.row = sel.level /\ shown'.stack = StackOf(sel)
  <2>1. SetItems(shown, StackOf(sel)) \in Panes /\ SetItems(shown, StackOf(sel)).stack = StackOf(sel)
    BY <1>4, RowFacts
  <2> QED
    BY <1>4, <1>5, <1>6, <2>1, RowFacts
<1>8. AirIsSel'
  BY <1>1, <1>2, <1>6 DEF AirIsSel, StopsAreSel, SyncsAreSel, SyncIsNext, RefreshIsSel, ModelIsSel
<1>9. RefreshComing => RefreshComing'
  BY <1>1, <1>2 DEF RefreshComing
<1>10. HasFile(StackOf(sel)) <=> HasFile(StackOf(sel))'
  BY <1>2 DEF HasFile, StackOf
<1>11. FileComes' /\ StackComes' /\ RowComes' /\ CodeComes'
  BY <1>2, <1>6, <1>7, <1>9, <1>10 DEF PanesCome, FileComes, StackComes, RowComes, CodeComes
<1> QED
  BY <1>8, <1>11 DEF PanesCome

LEMMA InfoEventFollows ==
    ASSUME TypeOK, QueueInv, AirIsSel, PanesCome, HandleEvent, Head(events).kind = "info", status = "stopped"
    PROVE  AirIsSel' /\ PanesCome'
<1> DEFINE m == Head(events)
<1>1. /\ events' = Tail(events) /\ Range(events) = {m} \cup Range(events') /\ m.kind = "info"
  BY EventLeft DEF HandleEvent
<1>2. /\ ShowInfo
      /\ UNCHANGED <<sel, sourced, updates, stopJobs, asking, got, runner, pendingDebugInfo,
                     pendingFrameSync, codeNavGen>>
  BY <1>1 DEF HandleEvent, target, jobs, syncs, pending
<1>3. model.stack = StackOf(sel)
  BY <1>1 DEF AirIsSel, ModelIsSel
<1> HIDE DEF m
<1>4. shown \in Panes /\ sel \in Frames /\ StackOf(sel) \in Frames /\ sel.level \in 0 .. 1 /\ sel.stop > 0
  BY StackType, StopType DEF TypeOK, PaneType, TargetType, QueueInv, SelIsInStack
<1>5. sel.level \in Levels(StackOf(sel)) /\ StackOf(sel) # NoFrame
  BY <1>4, StackFacts DEF QueueInv, SelIsInStack
<1>6. /\ shown' = [SetItems(shown, StackOf(sel)) EXCEPT !.threads = model.threads]
      /\ code' = (IF ~stopFile THEN FirstWithFile(StackOf(sel)) ELSE code)
      /\ stopFile' = TRUE /\ model' = model
  BY <1>2, <1>3, <1>5 DEF ShowInfo, TypeOK, PaneType
<1>7. shown'.stack = StackOf(sel) /\ (shown.row = sel.level => shown'.row = sel.level)
  <2> DEFINE w == SetItems(shown, StackOf(sel))
  <2>1. w.stack = StackOf(sel) /\ w \in Panes /\ (shown.row = sel.level => w.row = sel.level)
    BY <1>4, <1>5, RowFacts
  <2>2. shown' = [w EXCEPT !.threads = model.threads]
    BY <1>6
  <2> HIDE DEF w
  <2> QED
    BY <2>1, <2>2 DEF Panes
<1>8. AirIsSel'
  BY <1>1, <1>2, <1>6 DEF AirIsSel, StopsAreSel, SyncsAreSel, SyncIsNext, RefreshIsSel, ModelIsSel
<1>9. (StopComing => StopComing') /\ (SelectionComing => SelectionComing')
  BY <1>1, <1>2 DEF StopComing, SelectionComing
<1>10. FileComes' /\ StackComes' /\ RowComes'
  BY <1>2, <1>6, <1>7, <1>9 DEF PanesCome, FileComes, StackComes, RowComes
<1>11. CodeComes'
  <2>1. HasFile(sel)' <=> HasFile(sel)
    BY <1>2 DEF HasFile
  <2>2. CASE stopFile
    BY <1>2, <1>6, <1>9, <2>1, <2>2 DEF PanesCome, CodeComes
  <2>3. CASE ~stopFile
    <3>1. ~HasFile(StackOf(sel))
      BY <2>3 DEF PanesCome, FileComes
    <3>2. HasFile(sel) => sel.level = 1
      BY <1>4, <3>1, FrameFacts DEF HasFile
    <3>3. code' = [sel EXCEPT !.level = 1]
      <4>1. 1 \in 0 .. 1
        OBVIOUS
      <4> QED
        BY <1>4, <1>6, <2>3, <3>1, <4>1, FrameFacts DEF FirstWithFile
    <3>4. HasFile(sel) => code' = sel
      BY <1>4, <3>2, <3>3, FrameFacts
    <3> QED
      BY <1>2, <2>1, <3>4 DEF CodeComes
  <2> QED
    BY <2>2, <2>3
<1> QED
  BY <1>8, <1>10, <1>11 DEF PanesCome

(* The UI thread takes an update that is no news. *)
LEMMA UpdateLeft ==
    ASSUME TypeOK, updates # <<>>, updates' = Tail(updates)
    PROVE  /\ Range(updates) = {Head(updates)} \cup Range(updates') /\ Head(updates) \in Updates
           /\ Head(updates).frame \in Frames
<1>1. updates \in Seq(Updates)
  BY DEF TypeOK, QueueType
<1>2. Range(updates) = {Head(updates)} \cup Range(updates') /\ Head(updates) \in Updates
  BY <1>1, RangeTaken
<1> QED
  BY <1>2 DEF Updates

LEMMA UpdateFollows ==
    ASSUME TypeOK, AirIsSel, PanesCome, HandleUpdate, NoNews
    PROVE  AirIsSel' /\ PanesCome'
<1> DEFINE u == Head(updates)
<1>1. /\ updates' = Tail(updates) /\ Range(updates) = {u} \cup Range(updates')
      /\ updates # <<>> /\ u \in Updates /\ u.kind \in {"frame", "done"}
  <2>1. Range(updates) = {u} \cup Range(updates') /\ u \in Updates /\ updates # <<>> /\ updates' = Tail(updates)
    BY UpdateLeft DEF HandleUpdate
  <2> HIDE DEF u
  <2> QED
    BY <2>1 DEF NoNews, Updates
<1>2. /\ \/ u.kind = "frame" /\ onGdbFrameSelected(u.frame)
         \/ u.kind = "done" /\ UNCHANGED <<stopJobs, timers, model, shown, stopFile, code, aux>>
      /\ Pending(u)
      /\ UNCHANGED <<sel, sourced, events, got, codeNavGen>>
  BY <1>1 DEF HandleUpdate, target
<1>3. /\ UNCHANGED <<stopJobs, model, stopFile>>
  BY <1>2 DEF onGdbFrameSelected
<1>4. SyncIsNext /\ asking \in Nat /\ runner \in Runners
  BY DEF AirIsSel, TypeOK, JobType
<1>5. pendingFrameSync => u.prompt /\ ~u.error
  BY <1>4 DEF SyncIsNext
<1>6. u.frame \in Frames
  BY <1>1 DEF Updates
<1>7. u.kind = "frame" => u.frame = sel
  BY <1>1 DEF AirIsSel, SyncsAreSel
<1> HIDE DEF u
<1>8. /\ runner' = runner \/ runner' = Scheduled(runner)
      /\ pendingDebugInfo /\ ~pendingDebugInfo' => runner' = Scheduled(runner)
      /\ ~pendingFrameSync'
      /\ pendingFrameSync \/ u.kind = "frame" => asking' = asking + 1
      /\ asking' \in {asking, asking + 1}
  BY <1>1, <1>2, <1>5 DEF Pending
<1>9. /\ runner'.pc = "got" => runner'.ok = runner.ok /\ runner'.stack = runner.stack /\ runner.pc = "got"
      /\ runner.pc # "idle" => runner'.pc # "idle"
      /\ runner' = Scheduled(runner) => runner'.pc # "idle"
  BY <1>4, <1>8, ScheduledKeeps
<1>10. AirIsSel'
  BY <1>1, <1>2, <1>3, <1>8, <1>9 DEF AirIsSel, StopsAreSel, SyncsAreSel, SyncIsNext, RefreshIsSel, ModelIsSel
<1>11. StopComing => StopComing'
  BY <1>2, <1>3 DEF StopComing
<1>12. RefreshComing => RefreshComing'
  BY <1>2, <1>8, <1>9 DEF RefreshComing
<1>13. asking > 0 \/ pendingFrameSync \/ u.kind = "frame" => asking' > 0
  BY <1>4, <1>8
<1>14. SelectionComing => SelectionComing'
  BY <1>1, <1>2, <1>13 DEF SelectionComing
<1>15. CASE u.kind = "done"
  <2>1. UNCHANGED <<sel, sourced, shown, code, stopFile>>
    BY <1>2, <1>15
  <2> QED
    BY <1>10, <1>11, <1>12, <1>14, <2>1, PanesStillCome DEF NothingLost
<1>16. CASE u.kind = "frame"
  <2>1. SelectionComing'
    BY <1>13, <1>16 DEF SelectionComing
  <2>2. HasFile(StackOf(sel)) <=> HasFile(StackOf(sel))'
    BY <1>2 DEF HasFile, StackOf
  <2>3. FileComes' /\ StackComes' /\ RowComes' /\ CodeComes'
    BY <1>2, <1>3, <1>12, <2>1, <2>2 DEF PanesCome, FileComes, StackComes, RowComes, CodeComes
  <2> QED
    BY <1>10, <2>3 DEF PanesCome
<1> QED
  BY <1>1, <1>15, <1>16

(* The user acts on panes that have come to rest, or on the call stack of  *)
(* the stop that is being shown.                                           *)
LEMMA RowFollows ==
    ASSUME TypeOK, GensAreOld, AirIsSel, PanesCome, clean', NEW level \in 0 .. 1, activateCallStack(level)
    PROVE  AirIsSel' /\ PanesCome'
<1>1. ~SyncInFlight /\ shown.stack = StackOf(sel) /\ level \in Levels(StackOf(sel))
  BY DEF activateCallStack
<1>2. /\ got = <<>> /\ ~pendingFrameSync
      /\ \A e \in Range(events) : e.kind # "frame"
      /\ \A u \in Range(updates) : u.kind # "frame"
  BY <1>1, ComingIsInFlight DEF SelectionComing
<1> DEFINE u == Update("done", NoFrame, TRUE, ~(level \in Levels(StackOf(sel))))
<1>3. u \in Updates /\ u.kind = "done" /\ updates' = Append(updates, u)
  BY UpdateType, NoFrameType DEF activateCallStack, Update
<1> HIDE DEF u
<1>4. Range(updates') = Range(updates) \cup {u}
  BY <1>3, RangeAppended DEF TypeOK, QueueType
<1>5. sel \in Frames
  BY DEF TypeOK, TargetType
<1>6. /\ sel' = [sel EXCEPT !.level = level] /\ code' = [shown.stack EXCEPT !.level = level]
      /\ shown' = [shown EXCEPT !.row = level] /\ codeNavGen' = codeNavGen + 1
      /\ UNCHANGED <<sourced, events, stopJobs, asking, got, runner, pendingDebugInfo,
                     pendingFrameSync, model, stopFile>>
  BY <1>1 DEF activateCallStack, bumpCodeNav, jobs, syncs, pending
<1>7. StackOf(sel') = StackOf(sel) /\ sel'.level = level /\ code' = sel'
  <2>1. code' = [StackOf(sel) EXCEPT !.level = level]
    BY <1>1, <1>6
  <2>2. code' = [sel EXCEPT !.level = level]
    BY <1>5, <2>1, FrameFacts
  <2>3. StackOf([sel EXCEPT !.level = level]) = StackOf(sel) /\ [sel EXCEPT !.level = level].level = level
    BY <1>5, FrameFacts
  <2> QED
    BY <1>6, <2>2, <2>3
<1>8. shown'.stack = shown.stack /\ shown'.row = level
  BY <1>6 DEF TypeOK, PaneType, Panes
<1>9. StopsAreSel'
  <2>1. codeNavGen \in Nat /\ \A j \in stopJobs : j.gen \in Nat /\ j.gen <= codeNavGen
    BY DEF TypeOK, PaneType, JobType, GensAreOld
  <2>2. \A e \in Range(events) : e.gen \in Nat /\ (e.kind = "stop" => e.gen <= codeNavGen)
    BY MessageGens DEF GensAreOld, Range
  <2>3. \A j \in stopJobs' : j.gen # codeNavGen'
    BY <1>6, <2>1
  <2>4. \A e \in Range(events') : e.kind = "stop" => e.gen # codeNavGen'
    BY <1>6, <2>1, <2>2
  <2> QED
    BY <2>3, <2>4 DEF StopsAreSel
<1>10. RefreshComing => RefreshComing'
  BY <1>6 DEF RefreshComing
<1>11. Range(got) = {}
  BY <1>2, RangeEmpty
<1>12. SyncsAreSel' /\ SyncIsNext' /\ RefreshIsSel' /\ ModelIsSel'
  BY <1>2, <1>3, <1>4, <1>6, <1>7, <1>11 DEF AirIsSel, SyncsAreSel, SyncIsNext, RefreshIsSel, ModelIsSel
<1>13. HasFile(StackOf(sel))' <=> HasFile(StackOf(sel))
  BY <1>6, <1>7 DEF HasFile, StackOf
<1>14. PanesCome'
  <2>1. FileComes' /\ StackComes'
    BY <1>1, <1>6, <1>7, <1>8, <1>10, <1>13 DEF PanesCome, FileComes, StackComes
  <2>2. RowComes' /\ CodeComes'
    BY <1>7, <1>8 DEF RowComes, CodeComes
  <2> QED
    BY <2>1, <2>2 DEF PanesCome
<1> QED
  BY <1>9, <1>12, <1>14 DEF AirIsSel

LEMMA AtRest ==
    ASSUME TypeOK, TimersArmed, Settled
    PROVE  /\ updates = <<>> /\ events = <<>> /\ stopJobs = {} /\ got = <<>> /\ runner.pc = "idle"
           /\ ~pendingFrameSync /\ ~StopComing /\ ~SelectionComing /\ ~RefreshComing
<1>1. /\ updates = <<>> /\ events = <<>> /\ stopJobs = {} /\ got = <<>> /\ runner.pc = "idle"
      /\ ~(asking > 0) /\ ~pendingFrameSync /\ ~(timers.due > 0) /\ (pendingDebugInfo => timers.asleep = 0)
  BY DEF Settled, InFlight
<1>2. ~pendingDebugInfo
  BY <1>1 DEF TimersArmed
<1> QED
  BY <1>1, <1>2, RangeEmpty DEF StopComing, SelectionComing, RefreshComing

LEMMA SelectionFollows ==
    ASSUME TypeOK, TimersArmed, PanesCome, Settled, NEW u \in Updates, updates' = Append(updates, u),
           (u.kind = "frame" /\ u.frame = sel') \/ (u.kind = "done" /\ pendingFrameSync'),
           pendingFrameSync' => u.prompt /\ ~u.error,
           UNCHANGED <<events, stopJobs, got, runner, stopFile>>
    PROVE  AirIsSel' /\ PanesCome'
<1>1. /\ updates = <<>> /\ events = <<>> /\ stopJobs = {} /\ got = <<>> /\ runner.pc = "idle"
      /\ stopFile
  BY AtRest DEF PanesCome, FileComes
<1>2. updates' # <<>> /\ Head(updates') = u
  BY <1>1
<1>3. Range(updates') = {u} /\ Range(events) = {} /\ Range(got) = {}
  <2>1. Range(updates') = Range(updates) \cup {u}
    BY RangeAppended DEF TypeOK, QueueType
  <2> QED
    BY <1>1, <2>1, RangeEmpty
<1>4. AirIsSel'
  BY <1>1, <1>2, <1>3 DEF AirIsSel, StopsAreSel, SyncsAreSel, SyncIsNext, RefreshIsSel, ModelIsSel
<1>5. SelectionComing'
  BY <1>3 DEF SelectionComing
<1>6. PanesCome'
  BY <1>1, <1>5 DEF PanesCome, FileComes, StackComes, RowComes, CodeComes
<1> QED
  BY <1>4, <1>6

LEMMA UserFollows ==
    ASSUME IInv, QueueInv, AirIsSel, PanesCome, clean',
           \/ \E level \in 0 .. 1 : activateCallStack(level)
           \/ \E t \in 1 .. 2 : activateThread(t)
           \/ \E f \in Frames : ConsoleSelects(f)
    PROVE  AirIsSel' /\ PanesCome'
<1> USE DEF IInv
<1>1. ASSUME NEW level \in 0 .. 1, activateCallStack(level) PROVE AirIsSel' /\ PanesCome'
  BY <1>1, RowFollows
<1>2. ASSUME NEW t \in 1 .. 2, activateThread(t) PROVE AirIsSel' /\ PanesCome'
  <2>1. Settled /\ pendingFrameSync' = TRUE /\ UNCHANGED <<events, stopJobs, got, runner, stopFile>>
    BY <1>2 DEF activateThread, jobs, syncs
  <2>2. sel' \in Frames
    BY <1>2, UserTypes DEF TypeOK, TargetType
  <2>3. PICK u \in {Prompt, Update("frame", sel', TRUE, FALSE)} : updates' = Append(updates, u)
    BY <1>2 DEF activateThread
  <2>4. u \in Updates
    BY <2>2, <2>3, PromptType, UpdateType
  <2>5. u.kind = "done" \/ (u.kind = "frame" /\ u.frame = sel')
    BY <2>3 DEF Prompt, Update
  <2>6. u.prompt /\ ~u.error
    BY <2>3 DEF Prompt, Update
  <2> QED
    BY <2>1, <2>3, <2>4, <2>5, <2>6, SelectionFollows DEF QueueInv
<1>3. ASSUME NEW f \in Frames, ConsoleSelects(f) PROVE AirIsSel' /\ PanesCome'
  <2> DEFINE u == Update("frame", f, FALSE, FALSE)
  <2>1. /\ Settled /\ updates' = Append(updates, u) /\ sel' = f
        /\ UNCHANGED <<events, stopJobs, got, runner, stopFile, pendingFrameSync>>
    BY <1>3 DEF ConsoleSelects, jobs, syncs, pending, panes
  <2>2. u \in Updates /\ u.kind = "frame" /\ u.frame = f
    BY UpdateType DEF Update
  <2>3. ~pendingFrameSync'
    BY <2>1, AtRest DEF QueueInv
  <2> HIDE DEF u
  <2> QED
    BY <2>1, <2>2, <2>3, SelectionFollows DEF QueueInv
<1> QED
  BY <1>1, <1>2, <1>3

(* The news: the first update, and no other. *)
LEMMA LastNews ==
    ASSUME TypeOK, QueueInOrder, updates # <<>>, updates' = Tail(updates), NoNews'
    PROVE  /\ Head(updates).kind = "stop" => status # "dead" /\ Head(updates).frame.level = 0
           /\ Head(updates).kind = "exit" => status # "stopped"
           /\ status = "dead" => \A u \in Range(updates') : u.kind # "frame"
<1>1. /\ DOMAIN updates = 1 .. Len(updates) /\ Len(updates) \in Nat
      /\ DOMAIN updates' = 1 .. Len(updates) - 1
      /\ \A k \in 1 .. Len(updates) - 1 : updates'[k] = updates[k + 1]
  BY HeadTaken DEF TypeOK, QueueType
<1>2. 1 \in DOMAIN updates /\ Head(updates) = updates[1]
  BY HeadElement DEF TypeOK, QueueType
<1>3. ASSUME NEW k \in DOMAIN updates, k > 1 PROVE updates[k].kind \notin {"stop", "exit"}
  <2>1. k - 1 \in DOMAIN updates' /\ updates'[k - 1] = updates[k]
    BY <1>1, <1>3
  <2> QED
    BY <2>1 DEF NoNews, Range
<1>4. ASSUME status = "dead", NEW u \in Range(updates'), u.kind = "frame" PROVE FALSE
  <2>1. PICK i \in DOMAIN updates' : updates'[i] = u
    BY DEF Range
  <2>2. i + 1 \in DOMAIN updates /\ updates[i + 1] = u /\ i \in Nat /\ i > 0
    BY <1>1, <2>1
  <2>3. PICK k \in DOMAIN updates : k > i + 1 /\ updates[k].kind = "exit"
    BY <1>4, <2>2 DEF QueueInOrder
  <2>4. k > 1
    BY <1>1, <2>2, <2>3
  <2> QED
    BY <1>3, <2>3, <2>4
<1> QED
  BY <1>2, <1>3, <1>4 DEF QueueInOrder

(* The last stop is seen with nothing in flight: all is still to come. *)
LEMMA StopSeen ==
    ASSUME TypeOK, QueueInv, HandleUpdate, Head(updates).kind = "stop", Timely'
    PROVE  AirIsSel' /\ PanesCome'
<1> DEFINE u == Head(updates)
<1>1. /\ updates # <<>> /\ updates' = Tail(updates) /\ u.kind = "stop" /\ onGdbStopped(u.frame) /\ Pending(u)
      /\ UNCHANGED <<sel, sourced, events, got, codeNavGen>>
  BY DEF HandleUpdate, target
<1>2. u.frame.level = 0 /\ Range(updates') \subseteq Range(updates)
  BY <1>1, LastNews, UpdateLeft DEF Timely, QueueInv
<1> HIDE DEF u
<1>3. sel = u.frame /\ ~InFlight /\ ~SyncInFlight
  BY <1>1 DEF onGdbStopped, Timely
<1>4. /\ got = <<>> /\ ~pendingFrameSync /\ events = <<>> /\ stopJobs = {}
      /\ runner.pc = "idle" /\ \A v \in Range(updates) : v.kind # "frame"
  BY <1>3, NothingInFlight
<1>5. Range(events') = {} /\ Range(got') = {} /\ ~pendingFrameSync'
  BY <1>1, <1>4, RangeEmpty DEF Pending
<1>6. stopJobs' = {[gen |-> codeNavGen, frame |-> sel]}
  BY <1>1, <1>3, <1>4 DEF onGdbStopped
<1>7. /\ runner' = runner \/ runner' = Scheduled(runner)
      /\ pendingDebugInfo' \/ runner' = Scheduled(runner)
  BY <1>1 DEF Pending
<1>8. runner \in Runners /\ sel \in Frames
  BY DEF TypeOK, JobType, TargetType
<1>9. runner'.pc # "got" /\ RefreshComing'
  BY <1>4, <1>7, <1>8, ScheduledKeeps DEF RefreshComing
<1>10. AirIsSel'
  BY <1>1, <1>2, <1>3, <1>4, <1>5, <1>6, <1>9
     DEF AirIsSel, StopsAreSel, SyncsAreSel, SyncIsNext, RefreshIsSel, ModelIsSel
<1>11. StopComing'
  BY <1>1, <1>6 DEF StopComing
<1>12. StackOf(sel) = sel
  <2>1. 0 \in 0 .. 1 /\ sel.level = 0
    BY <1>2, <1>3
  <2> QED
    BY <1>8, <2>1, FrameFacts DEF StackOf
<1>13. stopFile' = (stopFile \/ HasFile(sel)) /\ (HasFile(StackOf(sel))' <=> HasFile(sel))
  BY <1>1, <1>3, <1>12 DEF onGdbStopped, HasFile
<1> QED
  BY <1>9, <1>10, <1>11, <1>13 DEF PanesCome, FileComes, StackComes, RowComes, CodeComes

(* The exit is seen with nothing in flight: nothing is shown. *)
LEMMA ExitSeen ==
    ASSUME TypeOK, QueueInv, HandleUpdate, Head(updates).kind = "exit", Timely', status = "dead"
    PROVE  Gone'
<1> DEFINE u == Head(updates)
<1>1. /\ updates # <<>> /\ updates' = Tail(updates) /\ u.kind = "exit" /\ clearDebugInfoPanes /\ Pending(u)
      /\ UNCHANGED <<events, got>>
  BY DEF HandleUpdate
<1>2. \A v \in Range(updates') : v.kind # "frame"
  BY <1>1, LastNews DEF Timely, QueueInv
<1> HIDE DEF u
<1>3. ~InFlight
  BY <1>1 DEF clearDebugInfoPanes, Timely
<1>4. /\ got = <<>> /\ ~pendingFrameSync /\ events = <<>> /\ stopJobs = {} /\ ~(asking > 0)
      /\ runner.pc = "idle" /\ runner \in Runners
  BY <1>3 DEF InFlight, TypeOK, JobType
<1>5. /\ model'.stack = NoFrame /\ shown'.stack = NoFrame /\ code' = NoFrame /\ stopJobs' = {}
  BY <1>1, <1>4 DEF clearDebugInfoPanes
<1>6. asking' = asking /\ ~pendingFrameSync' /\ (runner' = runner \/ runner' = Scheduled(runner))
  BY <1>1, <1>4 DEF Pending
<1>7. runner'.pc # "got"
  BY <1>4, <1>6, ScheduledKeeps
<1>8. ~SelectionComing' /\ Range(events') = {}
  BY <1>1, <1>2, <1>4, <1>6, RangeEmpty DEF SelectionComing
<1>9. NoFrame' = NoFrame
  BY DEF NoFrame
<1> QED
  BY <1>5, <1>7, <1>8, <1>9 DEF Gone

(* The program being gone, the panes stay empty. *)
LEMMA GoneStays ==
    ASSUME TypeOK, Gone, status = "dead",
           \/ (HandleUpdate /\ NoNews) \/ HandleEvent \/ StopJobPosts \/ SyncAsks \/ SyncPosts
           \/ RefreshAsks \/ RefreshPosts \/ TimerChecks \/ TimerTriggers
    PROVE  Gone'
<1>n. NoFrame' = NoFrame
  BY DEF NoFrame
<1>0. /\ stopJobs = {} /\ ~(asking > 0) /\ got = <<>> /\ ~pendingFrameSync /\ runner \in Runners
      /\ \A u \in Range(updates) : u.kind # "frame"
  BY DEF Gone, SelectionComing, TypeOK, JobType
<1>1. CASE HandleUpdate /\ NoNews
  <2> DEFINE u == Head(updates)
  <2>1. /\ updates # <<>> /\ updates' = Tail(updates) /\ Pending(u)
        /\ \/ u.kind \in {"stop", "exit", "frame"}
           \/ u.kind = "done" /\ UNCHANGED <<stopJobs, timers, model, shown, stopFile, code, aux>>
        /\ UNCHANGED <<events, got>>
    BY <1>1 DEF HandleUpdate
  <2>2. Range(updates) = {u} \cup Range(updates')
    BY <2>1, UpdateLeft
  <2> HIDE DEF u
  <2>3. u.kind = "done" /\ UNCHANGED <<stopJobs, model, shown, code>>
    BY <1>0, <1>1, <2>1, <2>2 DEF NoNews
  <2>4. asking' = asking /\ ~pendingFrameSync' /\ (runner' = runner \/ runner' = Scheduled(runner))
    BY <1>0, <2>1, <2>3 DEF Pending
  <2>5. runner'.pc = "got" => runner.pc = "got" /\ runner'.ok = runner.ok /\ runner'.stack = runner.stack
    BY <1>0, <2>4, ScheduledKeeps
  <2>6. ~SelectionComing'
    BY <1>0, <2>1, <2>2, <2>4 DEF Gone, SelectionComing
  <2> QED
    BY <1>n, <2>1, <2>3, <2>5, <2>6 DEF Gone
<1>2. CASE HandleEvent
  <2> DEFINE m == Head(events)
  <2>1. /\ events # <<>> /\ events' = Tail(events) /\ (m.kind \in {"stop", "frame"} \/ ShowInfo)
        /\ UNCHANGED <<updates, stopJobs, asking, got, runner, pendingFrameSync>>
    BY <1>2 DEF HandleEvent, jobs, syncs, pending
  <2>2. Range(events) = {m} \cup Range(events')
    BY <2>1, EventLeft
  <2> HIDE DEF m
  <2>3. ShowInfo
    BY <2>1, <2>2 DEF Gone
  <2>4. model' = model /\ code' = code /\ shown'.stack = NoFrame
    <3>1. model' = model /\ code' = code /\ shown' = [SetItems(shown, NoFrame) EXCEPT !.threads = model.threads]
      BY <2>3 DEF ShowInfo, Gone
    <3>2. SetItems(shown, NoFrame).stack = NoFrame /\ SetItems(shown, NoFrame) \in Panes
      <4>1. shown \in Panes /\ NoFrame \in Frames /\ 0 \in 0 .. 1
        BY NoFrameType DEF TypeOK, PaneType
      <4> QED
        BY <4>1, RowFacts
    <3> QED
      BY <3>1, <3>2 DEF Panes
  <2>5. ~SelectionComing'
    BY <2>1, <2>2 DEF Gone, SelectionComing
  <2> QED
    BY <1>n, <2>1, <2>2, <2>4, <2>5 DEF Gone
<1>3. CASE StopJobPosts \/ SyncAsks \/ SyncPosts
  <2>1. DOMAIN got = {}
    BY <1>0
  <2> QED
    BY <1>0, <1>3, <2>1 DEF StopJobPosts, SyncAsks, SyncPosts
<1>4. CASE RefreshAsks
  <2>1. /\ runner'.pc = "got" /\ runner'.stack = NoFrame
        /\ UNCHANGED <<updates, events, stopJobs, asking, got, pendingFrameSync, model, shown, code>>
    BY <1>0, <1>4 DEF RefreshAsks, Runners, syncs, pending, panes
  <2> QED
    BY <1>n, <2>1 DEF Gone, SelectionComing
<1>5. CASE RefreshPosts
  <2> DEFINE e == [kind |-> "info", gen |-> 0, frame |-> NoFrame]
  <2>1. Range(events') = Range(events) \cup {e} /\ e.kind = "info"
    BY <1>5, NoFrameType, Posts DEF RefreshPosts
  <2> HIDE DEF e
  <2>2. /\ model'.stack = NoFrame /\ runner'.pc # "got"
        /\ UNCHANGED <<updates, stopJobs, asking, got, pendingFrameSync, shown, code>>
    BY <1>5 DEF RefreshPosts, Gone, syncs, pending, panes
  <2> QED
    BY <1>n, <2>1, <2>2 DEF Gone, SelectionComing
<1>6. CASE TimerChecks \/ TimerTriggers
  <2>1. /\ runner' = runner \/ runner' = Scheduled(runner)
        /\ UNCHANGED <<updates, events, stopJobs, asking, got, pendingFrameSync, model, shown, code>>
    BY <1>6 DEF TimerChecks, TimerTriggers, syncs, pending, panes
  <2>2. runner'.pc = "got" => runner.pc = "got" /\ runner'.ok = runner.ok /\ runner'.stack = runner.stack
    BY <1>0, <2>1, ScheduledKeeps
  <2> QED
    BY <1>n, <2>1, <2>2 DEF Gone, SelectionComing
<1> QED
  BY <1>1, <1>2, <1>3, <1>4, <1>5, <1>6

LEMMA FollowInvInit == ASSUME Init PROVE FollowInv
BY DEF Init, FollowInv

LEMMA FollowUpdate ==
    ASSUME TypeOK, QueueInv, FollowInv, HandleUpdate, Timely'
    PROVE  /\ status = "stopped" => AirIsSel' /\ PanesCome'
           /\ status = "dead" => Gone'
<1> DEFINE u == Head(updates)
<1>1. /\ updates # <<>> /\ updates' = Tail(updates) /\ Range(updates) = {u} \cup Range(updates')
      /\ u \in Updates
  BY UpdateLeft DEF HandleUpdate
<1>2. u.kind \in {"stop", "exit", "frame", "done"}
  BY <1>1 DEF Updates
<1>3. u.kind \notin {"stop", "exit"} => NoNews /\ clean
  <2>1. u.kind \in {"frame", "done"} => clean
    BY DEF HandleUpdate, onGdbFrameSelected, aux, Timely
  <2> HIDE DEF u
  <2> QED
    BY <1>1, <1>2, <2>1 DEF Timely, NoNews
<1>4. /\ u.kind = "stop" => status # "dead"
      /\ u.kind = "exit" => status # "stopped"
  BY <1>1, LastNews DEF QueueInv, Timely
<1>5. CASE u.kind = "stop"
  BY <1>4, <1>5, StopSeen
<1>6. CASE u.kind = "exit"
  BY <1>4, <1>6, ExitSeen
<1>7. CASE u.kind \notin {"stop", "exit"}
  <2>1. Timely
    BY <1>3, <1>7 DEF Timely
  <2>2. CASE status = "stopped"
    BY <1>3, <1>7, <2>1, <2>2, UpdateFollows DEF FollowInv
  <2>3. CASE status = "dead"
    BY <1>3, <1>7, <2>1, <2>3, GoneStays DEF FollowInv
  <2> QED
    BY <2>2, <2>3
<1> QED
  BY <1>5, <1>6, <1>7

LEMMA FollowInvNext == ASSUME IInv, QueueInv, FollowInv, [Next]_vars PROVE FollowInv'
<1>0. TypeOK
  BY DEF IInv
<1>1. CASE Resume
  BY <1>1 DEF Resume, FollowInv
<1>2. CASE GdbStops \/ ProgramExits
  <2>1. PICK u \in Updates : u.kind \in {"stop", "exit"} /\ updates' = Append(updates, u)
    <3>1. ASSUME GdbStops PROVE \E u \in Updates : u.kind \in {"stop", "exit"} /\ updates' = Append(updates, u)
      <4>1. PICK prompt \in BOOLEAN : updates' = Append(updates, Update("stop", sel', prompt, FALSE))
        BY <3>1 DEF GdbStops
      <4>2. sel' \in Frames
        BY <1>0, <3>1, GdbTypes DEF TypeOK, TargetType
      <4>3. /\ Update("stop", sel', prompt, FALSE) \in Updates
            /\ Update("stop", sel', prompt, FALSE).kind = "stop"
        BY <4>2, UpdateType DEF Update
      <4> QED
        BY <4>1, <4>3
    <3>2. ASSUME ProgramExits PROVE \E u \in Updates : u.kind \in {"stop", "exit"} /\ updates' = Append(updates, u)
      <4>1. /\ Update("exit", NoFrame, TRUE, FALSE) \in Updates
            /\ Update("exit", NoFrame, TRUE, FALSE).kind = "exit"
        BY NoFrameType, UpdateType DEF Update
      <4> QED
        BY <3>2, <4>1 DEF ProgramExits
    <3> QED
      BY <1>2, <3>1, <3>2
  <2>2. u \in Range(updates')
    BY <1>0, <2>1, RangeAppended DEF TypeOK, QueueType
  <2>3. ~Timely'
    BY <2>1, <2>2 DEF Timely, NoNews
  <2> QED
    BY <2>3 DEF FollowInv
<1>3. CASE \/ \E level \in 0 .. 1 : activateCallStack(level)
           \/ \E t \in 1 .. 2 : activateThread(t)
           \/ \E f \in Frames : ConsoleSelects(f)
  <2>1. status = "stopped" /\ status' = "stopped" /\ (clean' => clean)
    BY <1>3 DEF activateCallStack, activateThread, ConsoleSelects
  <2>2. PICK u \in Updates : updates' = Append(updates, u)
    <3>1. sel' \in Frames
      BY <1>0, <1>3, UserTypes DEF TypeOK, TargetType
    <3> QED
      BY <1>3, <3>1, UpdateType, PromptType, NoFrameType DEF activateCallStack, activateThread, ConsoleSelects
  <2>3. Range(updates') = Range(updates) \cup {u}
    BY <1>0, <2>2, RangeAppended DEF TypeOK, QueueType
  <2>4. NoNews' => NoNews
    BY <2>3 DEF NoNews
  <2>5. ASSUME Timely' PROVE AirIsSel' /\ PanesCome'
    <3>1. AirIsSel /\ PanesCome /\ clean'
      BY <2>1, <2>4, <2>5 DEF FollowInv, Timely
    <3> QED
      BY <1>3, <3>1, UserFollows
  <2> QED
    BY <2>1, <2>5 DEF FollowInv
<1>4. CASE HandleUpdate
  <2>1. status' = status
    BY <1>4 DEF HandleUpdate, target
  <2> QED
    BY <1>0, <1>4, <2>1, FollowUpdate DEF FollowInv
<1>5. CASE HandleEvent \/ StopJobPosts \/ SyncAsks \/ SyncPosts \/ RefreshAsks \/ RefreshPosts
           \/ TimerChecks \/ TimerTriggers
  <2>1. UNCHANGED <<updates, status, clean>>
    BY <1>5 DEF HandleEvent, StopJobPosts, SyncAsks, SyncPosts, RefreshAsks, RefreshPosts,
                TimerChecks, TimerTriggers, target, aux
  <2>2. Timely' => Timely
    BY <2>1 DEF Timely, NoNews
  <2>3. ASSUME AirIsSel, PanesCome, status = "stopped" PROVE AirIsSel' /\ PanesCome'
    <3>1. CASE HandleEvent
      <4>1. events # <<>>
        BY <3>1 DEF HandleEvent
      <4>2. Head(events).kind \in {"stop", "frame", "info"}
        BY <1>0, <4>1, EventTaken DEF TypeOK
      <4> QED
        BY <1>0, <2>3, <3>1, <4>2, StopEventFollows, FrameEventFollows, InfoEventFollows
    <3> QED
      BY <1>0, <1>5, <2>3, <3>1, StopJobFollows, SyncAsksFollows, SyncPostsFollows,
         RefreshAsksFollows, RefreshPostsFollows, TimersFollow
  <2>4. ASSUME Gone, status = "dead" PROVE Gone'
    BY <1>0, <1>5, <2>4, GoneStays
  <2> QED
    BY <2>1, <2>2, <2>3, <2>4 DEF FollowInv
<1>6. CASE UNCHANGED vars
  <2>1. UNCHANGED <<status, sel, sourced, updates, events, stopJobs, asking, got, runner, pendingDebugInfo,
                    pendingFrameSync, model, codeNavGen, shown, stopFile, code, clean>>
    BY <1>6 DEF vars, target, jobs, syncs, pending, panes, aux
  <2>2. Timely' => Timely
    BY <2>1 DEF Timely, NoNews
  <2>3. AirIsSel => AirIsSel'
    BY <2>1 DEF AirIsSel, StopsAreSel, SyncsAreSel, SyncIsNext, RefreshIsSel, ModelIsSel
  <2>4. NothingLost
    BY <2>1 DEF NothingLost, StopComing, RefreshComing, SelectionComing
  <2>5. PanesCome => PanesCome'
    <3>1. UNCHANGED <<sel, sourced, shown, code, stopFile>>
      BY <2>1
    <3> QED
      BY <2>4, <3>1, PanesStillCome
  <2>6. Gone => Gone'
    BY <2>1 DEF Gone, SelectionComing, NoFrame
  <2> QED
    BY <2>1, <2>2, <2>3, <2>5, <2>6 DEF FollowInv
<1> QED
  BY <1>1, <1>2, <1>3, <1>4, <1>5, <1>6, Steps

LEMMA FollowHolds == Spec => [](IInv /\ QueueInv /\ FollowInv)
<1>1. Init => IInv /\ QueueInv /\ FollowInv
  BY IInvInit, QueueInvInit, FollowInvInit
<1>2. IInv /\ QueueInv /\ FollowInv /\ [Next]_vars => (IInv /\ QueueInv /\ FollowInv)'
  <2>1. IInv => TypeOK
    BY DEF IInv
  <2> QED
    BY <2>1, IInvNext, QueueInvNext, FollowInvNext
<1> QED
  BY <1>1, <1>2, PTL DEF Spec

(* Nothing is left to come: what has come is GDB's frame. *)
LEMMA SettledIsFresh ==
    ASSUME IInv, QueueInv, clean, Settled
    PROVE  /\ Timely /\ ~StopComing /\ ~SelectionComing /\ ~RefreshComing
<1>1. updates = <<>> /\ ~StopComing /\ ~SelectionComing /\ ~RefreshComing
  BY AtRest DEF IInv, QueueInv
<1> QED
  BY <1>1, RangeEmpty DEF Timely, NoNews

(* Code and the selected row come to rest at GDB's frame, however the      *)
(* stop's goroutine, the frame syncs and the refreshes overtake each       *)
(* other.                                                                  *)
THEOREM CodeComesToSel == Spec => []CodeFollowsGdb
<1>1. IInv /\ QueueInv /\ FollowInv => CodeFollowsGdb
  <2> SUFFICES ASSUME IInv, QueueInv, FollowInv, clean, Settled, status = "stopped"
               PROVE  (HasFile(sel) => code = sel) /\ shown.row = sel.level
    BY DEF CodeFollowsGdb
  <2>1. Timely /\ ~StopComing /\ ~SelectionComing
    BY SettledIsFresh
  <2> QED
    BY <2>1 DEF FollowInv, PanesCome, CodeComes, RowComes
<1> QED
  BY <1>1, FollowHolds, PTL

(* The call stack pane comes to rest at the stack of GDB's thread, even if *)
(* only a timer notices that the prompt was missed; after the exit Code    *)
(* and pane stay empty, whatever refresh reports late.                     *)
THEOREM PanesComeToSel == Spec => []PanesFollowGdb
<1>1. IInv /\ QueueInv /\ FollowInv => PanesFollowGdb
  <2> SUFFICES ASSUME IInv, QueueInv, FollowInv, clean, Settled
               PROVE  /\ status = "stopped" => shown.stack = StackOf(sel)
                      /\ status = "dead" => shown.stack = NoFrame /\ code = NoFrame
    BY DEF PanesFollowGdb
  <2>1. Timely /\ ~SelectionComing /\ ~RefreshComing
    BY SettledIsFresh
  <2> QED
    BY <2>1 DEF FollowInv, PanesCome, StackComes, Gone
<1> QED
  BY <1>1, FollowHolds, PTL
---------------------------------------------------------------------------
(* Placement: trees *)

(* A set of positions has a least one, and Min answers it.                  *)
LEMMA MinIsLeast ==
    ASSUME NEW n \in Nat, NEW S \in SUBSET (1 .. n), S # {}
    PROVE  Min(S) \in S /\ \A y \in S : Min(S) <= y
<1> DEFINE Below(i) == 1 .. (i - 1)
           T == {Below(i) : i \in S}
           R == StrictSubsetOrdering(1 .. n)
<1>1. IsWellFoundedOn(R, SUBSET (1 .. n))
  <2>1. IsFiniteSet(1 .. n)
    BY FS_Interval
  <2> QED
    BY <2>1, FS_FiniteSubsetsOfFinite, FS_StrictSubsetOrderingWellFounded
<1>2. T \subseteq SUBSET (1 .. n) /\ T # {}
  <2>1. \A i \in S : Below(i) \in SUBSET (1 .. n)
    OBVIOUS
  <2>2. \E i \in S : TRUE
    OBVIOUS
  <2> HIDE DEF Below
  <2> QED
    BY <2>1, <2>2
<1>3. PICK x \in T : \A y \in T : ~ (<<y, x>> \in R)
  <2> HIDE DEF T, R
  <2> QED
    BY <1>1, <1>2, WFMin
<1>4. PICK i \in S : x = Below(i)
  OBVIOUS
<1>5. \A j \in S : i <= j
  <2> SUFFICES ASSUME NEW j \in S, j < i PROVE FALSE
    OBVIOUS
  <2>1. Below(j) \subseteq Below(i) /\ j \in Below(i) /\ j \notin Below(j)
    OBVIOUS
  <2>2. <<Below(j), Below(i)>> \in R
    <3>1. Below(j) \in SUBSET (1 .. n) /\ Below(i) \in SUBSET (1 .. n)
      OBVIOUS
    <3> HIDE DEF Below
    <3> QED
      BY <2>1, <3>1 DEF StrictSubsetOrdering
  <2>3. Below(j) \in T
    OBVIOUS
  <2> QED
    BY <1>3, <1>4, <2>2, <2>3
<1> QED
  BY <1>5 DEF Min

(* The tree has a leaf, the focus is a leaf, the marks are leaves or Nil.  *)
Tree == [panes : Seq(Widgets), focus : Nat, code : Nat, gdb : Nat, asm : Nat, last : Nat]

IsTree(t) ==
    /\ t \in Tree
    /\ Len(t.panes) >= 1 /\ t.focus \in 1 .. Len(t.panes)
    /\ t.code \in 0 .. Len(t.panes) /\ t.gdb \in 0 .. Len(t.panes)
    /\ t.asm \in 0 .. Len(t.panes) /\ t.last \in 0 .. Len(t.panes)

LEMMA WidgetKinds ==
    /\ Files \subseteq SourceSlots /\ CodeWidgets \subseteq SourceSlots
    /\ SourceSlots \subseteq CodeSlots /\ CodeSlots \subseteq Widgets
    /\ "gdb" \in Widgets /\ "gdb" \notin CodeSlots /\ "gdb" \notin Others
    /\ "asm" \in CodeSlots /\ "asm" \notin SourceSlots /\ "logo" \in SourceSlots
    /\ "noname" \in SourceSlots /\ "logger" \in Widgets /\ "output" \in Widgets
    /\ Others \subseteq Widgets /\ Others \cap CodeSlots = {} /\ TextPanes \subseteq Others
    /\ None \notin Files /\ None \notin SourceSlots
  BY PlacementAssumption DEF Widgets, CodeSlots, SourceSlots, CodeWidgets, Files, None

LEMMA LeavesOf ==
    ASSUME NEW t, IsTree(t)
    PROVE  /\ Leaves(t) = 1 .. Len(t.panes) /\ Len(t.panes) \in Nat
           /\ \A leaf \in Leaves(t) : t.panes[leaf] \in Widgets
           /\ t.focus \in Leaves(t) /\ Focused(t) \in Widgets
<1>1. t.panes \in Seq(Widgets)
  BY DEF IsTree, Tree
<1> QED
  BY <1>1 DEF IsTree, Leaves, Focused

LEMMA FoundLeaf ==
    ASSUME NEW t, IsTree(t), NEW ws
    PROVE  /\ FindLeaf(t, ws) \in 0 .. Len(t.panes)
           /\ FindLeaf(t, ws) # Nil => FindLeaf(t, ws) \in Leaves(t) /\ t.panes[FindLeaf(t, ws)] \in ws
           /\ FindLeaf(t, ws) = Nil <=> \A leaf \in Leaves(t) : t.panes[leaf] \notin ws
<1> DEFINE found == {leaf \in Leaves(t) : t.panes[leaf] \in ws}
<1>1. Len(t.panes) \in Nat /\ found \in SUBSET (1 .. Len(t.panes)) /\ Leaves(t) = 1 .. Len(t.panes)
  BY LeavesOf
<1>2. CASE found = {}
  BY <1>1, <1>2 DEF FindLeaf, Nil
<1>3. CASE found # {}
  <2>1. Min(found) \in found
    BY <1>1, <1>3, MinIsLeast
  <2>2. FindLeaf(t, ws) = Min(found)
    BY <1>3 DEF FindLeaf
  <2> QED
    <3>1. PICK m : m = Min(found)
      OBVIOUS
    <3>2. m \in found /\ FindLeaf(t, ws) = m
      BY <2>1, <2>2, <3>1
    <3>3. m \in 1 .. Len(t.panes) /\ m \in Leaves(t) /\ t.panes[m] \in ws
      BY <1>1, <3>2
    <3> HIDE DEF found
    <3> QED
      BY <1>1, <3>2, <3>3 DEF Nil
<1> QED
  BY <1>2, <1>3

(* s has the leaves of t, and some of the widgets. *)
Alike(t, s) == IsTree(s) /\ Len(s.panes) = Len(t.panes)

LEMMA PutIs ==
    ASSUME NEW t, IsTree(t), NEW leaf \in Leaves(t), NEW w \in Widgets
    PROVE  LET s == Put(t, leaf, w)
           IN  /\ Alike(t, s) /\ s.panes[leaf] = w
               /\ \A l \in Leaves(t) : l # leaf => s.panes[l] = t.panes[l]
               /\ s.focus = t.focus /\ s.code = t.code /\ s.gdb = t.gdb
               /\ s.asm = t.asm /\ s.last = t.last
<1>1. PICK q : q = [t.panes EXCEPT ![leaf] = w]
  OBVIOUS
<1>2. t.panes \in Seq(Widgets) /\ leaf \in 1 .. Len(t.panes) /\ Leaves(t) = 1 .. Len(t.panes)
  BY LeavesOf DEF IsTree, Tree
<1>3. /\ q \in Seq(Widgets) /\ Len(q) = Len(t.panes) /\ q[leaf] = w
      /\ \A l \in Leaves(t) : l # leaf => q[l] = t.panes[l]
  BY <1>1, <1>2
<1>4. PICK s : s = [t EXCEPT !.panes = q]
  OBVIOUS
<1>5. Put(t, leaf, w) = s
  BY <1>1, <1>4 DEF Put
<1>6. /\ s \in Tree /\ s.panes = q /\ s.focus = t.focus /\ s.code = t.code /\ s.gdb = t.gdb
      /\ s.asm = t.asm /\ s.last = t.last
  BY <1>3, <1>4 DEF Tree, IsTree
<1> QED
  BY <1>3, <1>5, <1>6 DEF Alike, IsTree

(* Only the marks differ. *)
Marks(t, s) == IsTree(s) /\ s.panes = t.panes /\ s.focus = t.focus /\ s.gdb = t.gdb

LEMMA CodeMarked ==
    ASSUME NEW t, IsTree(t), NEW m \in 0 .. Len(t.panes)
    PROVE  LET s == [t EXCEPT !.code = m]
           IN  Marks(t, s) /\ s.code = m /\ s.asm = t.asm /\ s.last = t.last
<1>1. PICK s : s = [t EXCEPT !.code = m]
  OBVIOUS
<1>2. Marks(t, s) /\ s.code = m /\ s.asm = t.asm /\ s.last = t.last
  BY <1>1 DEF Marks, IsTree, Tree
<1> QED
  BY <1>1, <1>2

LEMMA AsmMarked ==
    ASSUME NEW t, IsTree(t), NEW m \in 0 .. Len(t.panes)
    PROVE  LET s == [t EXCEPT !.asm = m]
           IN  Marks(t, s) /\ s.asm = m /\ s.code = t.code /\ s.last = t.last
<1>1. PICK s : s = [t EXCEPT !.asm = m]
  OBVIOUS
<1>2. Marks(t, s) /\ s.asm = m /\ s.code = t.code /\ s.last = t.last
  BY <1>1 DEF Marks, IsTree, Tree
<1> QED
  BY <1>1, <1>2

LEMMA LastMarked ==
    ASSUME NEW t, IsTree(t), NEW m \in 0 .. Len(t.panes)
    PROVE  LET s == [t EXCEPT !.last = m]
           IN  Marks(t, s) /\ s.last = m /\ s.code = t.code /\ s.asm = t.asm
<1>1. PICK s : s = [t EXCEPT !.last = m]
  OBVIOUS
<1>2. Marks(t, s) /\ s.last = m /\ s.code = t.code /\ s.asm = t.asm
  BY <1>1 DEF Marks, IsTree, Tree
<1> QED
  BY <1>1, <1>2

LEMMA Focusing ==
    ASSUME NEW t, IsTree(t), NEW leaf \in 0 .. Len(t.panes)
    PROVE  /\ Alike(t, FocusLeaf(t, leaf)) /\ FocusLeaf(t, leaf).panes = t.panes
<1>1. PICK s : s = [t EXCEPT !.focus = leaf]
  OBVIOUS
<1>2. leaf # 0 => Alike(t, s) /\ s.panes = t.panes
  BY <1>1 DEF Alike, IsTree, Tree
<1>3. FocusLeaf(t, leaf) = IF leaf = 0 THEN t ELSE s
  BY <1>1 DEF FocusLeaf, Nil
<1> QED
  BY <1>2, <1>3 DEF Alike

---------------------------------------------------------------------------
(* Placement: finding the location leaf *)

(* There is a leaf for the location: FindCodeLeaf answers one. *)
Located(t) == \/ Shows(t, t.code, CodeSlots)
              \/ \E leaf \in Leaves(t) : t.panes[leaf] \in SourceSlots
              \/ Shows(t, t.asm, {"asm"})

LEMMA CodeLeafFound ==
    ASSUME NEW t, IsTree(t)
    PROVE  LET s == FindCodeLeaf(t)
           IN  /\ Marks(t, s)
               /\ s.code # Nil => s.code \in Leaves(t) /\ t.panes[s.code] \in CodeSlots
               /\ Located(t) => s.code # Nil
               /\ Shows(t, t.code, SourceSlots) => s = t
<1> DEFINE source == FindLeaf(t, SourceSlots)
<1>1. PICK s : s = FindCodeLeaf(t)
  OBVIOUS
<1>0. /\ Leaves(t) = 1 .. Len(t.panes) /\ Len(t.panes) \in Nat /\ 0 \in 0 .. Len(t.panes)
      /\ t.code \in 0 .. Len(t.panes) /\ t.asm \in 0 .. Len(t.panes)
      /\ "asm" \in CodeSlots /\ "asm" \notin SourceSlots /\ SourceSlots \subseteq CodeSlots
      /\ CodeSlots = SourceSlots \cup {"asm"}
  BY LeavesOf, WidgetKinds DEF IsTree, CodeSlots
<1>2. CASE Shows(t, t.code, SourceSlots)
  <2>0. ~ Shows(t, t.code, {"asm"})
    BY <1>0, <1>2 DEF Shows
  <2>1. s = t
    BY <1>1, <1>2, <2>0 DEF FindCodeLeaf
  <2> QED
    BY <1>0, <1>1, <1>2, <2>1 DEF Marks, Shows, Nil
<1>3. CASE ~ Shows(t, t.code, SourceSlots) /\ Shows(t, t.code, {"asm"})
  <2>1. PICK m : m = IF t.asm = t.code THEN Nil ELSE t.asm
    OBVIOUS
  <2>2. s = [t EXCEPT !.asm = m] /\ m \in 0 .. Len(t.panes)
    BY <1>0, <1>1, <1>3, <2>1 DEF FindCodeLeaf, Nil
  <2>3. Marks(t, s) /\ s.code = t.code
    BY <2>2, AsmMarked
  <2> QED
    BY <1>0, <1>1, <1>3, <2>3 DEF Shows, Nil
<1>4. CASE ~ Shows(t, t.code, SourceSlots) /\ ~ Shows(t, t.code, {"asm"})
  <2>0. ~ Shows(t, t.code, CodeSlots)
    BY <1>0, <1>4 DEF Shows
  <2>f. /\ source \in 0 .. Len(t.panes)
        /\ source # Nil => source \in Leaves(t) /\ t.panes[source] \in SourceSlots
        /\ source = Nil <=> \A leaf \in Leaves(t) : t.panes[leaf] \notin SourceSlots
    BY FoundLeaf
  <2>1. CASE source # Nil
    <3>1. s = [t EXCEPT !.code = source]
      BY <1>1, <1>4, <2>1 DEF FindCodeLeaf
    <3> HIDE DEF source
    <3>2. Marks(t, s) /\ s.code = source
      BY <2>f, <3>1, CodeMarked
    <3> QED
      BY <1>0, <1>1, <1>4, <2>1, <2>f, <3>2
  <2>2. CASE source = Nil /\ Shows(t, t.asm, {"asm"})
    <3>1. PICK u : u = [t EXCEPT !.code = t.asm]
      OBVIOUS
    <3>2. s = [u EXCEPT !.asm = 0]
      BY <1>1, <1>4, <2>2, <3>1 DEF FindCodeLeaf, Nil
    <3>3. Marks(t, u) /\ u.code = t.asm
      BY <1>0, <3>1, CodeMarked
    <3>4. IsTree(u) /\ 0 \in 0 .. Len(u.panes)
      BY <1>0, <3>3 DEF Marks
    <3>5. Marks(u, s) /\ s.code = u.code
      BY <3>2, <3>4, AsmMarked
    <3> HIDE DEF source
    <3> QED
      BY <1>0, <1>1, <1>4, <2>2, <3>3, <3>5 DEF Marks, Shows, Nil
  <2>3. CASE source = Nil /\ ~ Shows(t, t.asm, {"asm"})
    <3>1. s = [t EXCEPT !.code = 0]
      BY <1>1, <1>4, <2>3 DEF FindCodeLeaf, Nil
    <3>2. Marks(t, s) /\ s.code = 0
      BY <1>0, <3>1, CodeMarked
    <3>3. ~ Located(t)
      BY <2>0, <2>3, <2>f DEF Located
    <3> QED
      BY <1>1, <1>4, <3>2, <3>3 DEF Nil
  <2> QED
    BY <2>1, <2>2, <2>3
<1> QED
  BY <1>2, <1>3, <1>4

(* What a stop may change of the tree: leaves that showed Code, the logo or  *)
(* Assembly, and the leaf marked asm if it does not show GDB.                *)
Replaces(t, s) ==
    /\ Alike(t, s)
    /\ \A leaf \in Leaves(t) :
          \/ s.panes[leaf] = t.panes[leaf]
          \/ t.panes[leaf] \in CodeSlots
          \/ leaf = t.asm /\ t.panes[leaf] # "gdb"

(* Leaves that show GDB go on showing it. *)
GdbKept(t, s) ==
    Alike(t, s) /\ \A leaf \in Leaves(t) : t.panes[leaf] = "gdb" => s.panes[leaf] = "gdb"

LEMMA ReplacingKeepsGdb ==
    ASSUME NEW t, IsTree(t), NEW s, Replaces(t, s)
    PROVE  GdbKept(t, s)
  BY WidgetKinds DEF Replaces, GdbKept

LEMMA KeptTwice ==
    ASSUME NEW t, IsTree(t), NEW s, NEW r, GdbKept(t, s), GdbKept(s, r)
    PROVE  GdbKept(t, r)
<1>1. IsTree(s) /\ Leaves(s) = Leaves(t) /\ Len(s.panes) = Len(t.panes)
  <2>1. IsTree(s) /\ Len(s.panes) = Len(t.panes)
    BY DEF GdbKept, Alike
  <2> QED
    BY <2>1, LeavesOf
<1> QED
  BY <1>1 DEF GdbKept, Alike

(* The panes of a tree are those of t. *)
SamePanes(t, s) == IsTree(s) /\ s.panes = t.panes

LEMMA NothingReplaced ==
    ASSUME NEW t, IsTree(t), NEW s, SamePanes(t, s)
    PROVE  Replaces(t, s)
  BY DEF SamePanes, Replaces, Alike

LEMMA ReplacedThenMarked ==
    ASSUME NEW t, NEW s, NEW r, SamePanes(s, r)
    PROVE  /\ Replaces(t, s) => Replaces(t, r)
           /\ GdbKept(t, s) => GdbKept(t, r)
  BY DEF SamePanes, Replaces, GdbKept, Alike

LEMMA LeafReplaced ==
    ASSUME NEW t, IsTree(t), NEW s, SamePanes(t, s), NEW leaf \in Leaves(t), NEW w \in Widgets
    PROVE  LET r == Put(s, leaf, w)
           IN  /\ Alike(t, r) /\ r.panes[leaf] = w
               /\ \A l \in Leaves(t) : l # leaf => r.panes[l] = t.panes[l]
               /\ r.focus = s.focus /\ r.code = s.code /\ r.gdb = s.gdb /\ r.asm = s.asm /\ r.last = s.last
               /\ t.panes[leaf] \in CodeSlots => Replaces(t, r)
               /\ leaf = t.asm /\ t.panes[leaf] # "gdb" => Replaces(t, r)
               /\ t.panes[leaf] # "gdb" => GdbKept(t, r)
               /\ w = "gdb" => GdbKept(t, r)
<1>1. PICK r : r = Put(s, leaf, w)
  OBVIOUS
<1>2. IsTree(s) /\ leaf \in Leaves(s) /\ Leaves(s) = Leaves(t) /\ s.panes = t.panes
  BY DEF SamePanes, Leaves
<1>3. /\ Alike(s, r) /\ r.panes[leaf] = w
      /\ \A l \in Leaves(s) : l # leaf => r.panes[l] = s.panes[l]
      /\ r.focus = s.focus /\ r.code = s.code /\ r.gdb = s.gdb /\ r.asm = s.asm /\ r.last = s.last
  BY <1>1, <1>2, PutIs
<1>4. Alike(t, r) /\ \A l \in Leaves(t) : l # leaf => r.panes[l] = t.panes[l]
  BY <1>2, <1>3 DEF Alike
<1>5. t.panes[leaf] \in CodeSlots => Replaces(t, r)
  BY <1>4 DEF Replaces
<1>6. leaf = t.asm /\ t.panes[leaf] # "gdb" => Replaces(t, r)
  BY <1>4 DEF Replaces
<1>7. /\ t.panes[leaf] # "gdb" => GdbKept(t, r)
      /\ w = "gdb" => GdbKept(t, r)
  BY <1>3, <1>4 DEF GdbKept
<1> QED
  BY <1>1, <1>3, <1>4, <1>5, <1>6, <1>7

---------------------------------------------------------------------------
(* Placement: putting a widget into a leaf *)

LEMMA MatchReplaced ==
    ASSUME NEW t, IsTree(t), NEW w \in Widgets, NEW ws, w \in ws, ws \subseteq CodeSlots
    PROVE  LET r == ReplaceMatching(t, w, ws)
           IN  /\ Replaces(t, r)
               /\ \A l \in Leaves(t) :
                     r.panes[l] = t.panes[l] \/ (t.panes[l] \in ws /\ r.panes[l] = w)
               /\ (\E l \in Leaves(t) : t.panes[l] \in ws) => Shows(r, r.code, ws)
               /\ (\A l \in Leaves(t) : t.panes[l] \notin ws) => r = t
<1> DEFINE leaf == FindLeaf(t, ws)
<1>0. /\ Leaves(t) = 1 .. Len(t.panes) /\ Len(t.panes) \in Nat
      /\ leaf \in 0 .. Len(t.panes)
      /\ leaf # Nil => leaf \in Leaves(t) /\ t.panes[leaf] \in ws
      /\ leaf = Nil <=> \A l \in Leaves(t) : t.panes[l] \notin ws
      /\ SamePanes(t, t)
  BY LeavesOf, FoundLeaf DEF SamePanes
<1>1. CASE leaf = Nil
  <2>1. ReplaceMatching(t, w, ws) = t
    BY <1>1 DEF ReplaceMatching
  <2> HIDE DEF leaf
  <2> QED
    BY <1>0, <1>1, <2>1, NothingReplaced
<1>2. CASE leaf # Nil
  <2>1. PICK s : s = Put(t, leaf, w)
    OBVIOUS
  <2>2. PICK m : m = FindLeaf(s, ws)
    OBVIOUS
  <2>3. PICK r : r = [s EXCEPT !.code = m]
    OBVIOUS
  <2>4. ReplaceMatching(t, w, ws) = r
    BY <1>2, <2>1, <2>2, <2>3 DEF ReplaceMatching
  <2>5. leaf \in Leaves(t) /\ t.panes[leaf] \in ws /\ t.panes[leaf] \in CodeSlots
    BY <1>0, <1>2
  <2> HIDE DEF leaf
  <2>6. /\ Alike(t, s) /\ s.panes[leaf] = w /\ Replaces(t, s)
        /\ \A l \in Leaves(t) : l # leaf => s.panes[l] = t.panes[l]
    BY <1>0, <2>1, <2>5, LeafReplaced
  <2>7. IsTree(s) /\ Leaves(s) = Leaves(t) /\ Len(s.panes) = Len(t.panes)
    BY <1>0, <2>6, LeavesOf DEF Alike
  <2>8. m \in 0 .. Len(s.panes) /\ m # Nil /\ m \in Leaves(s) /\ s.panes[m] \in ws
    <3>1. /\ m \in 0 .. Len(s.panes)
          /\ m # Nil => m \in Leaves(s) /\ s.panes[m] \in ws
          /\ m = Nil <=> \A l \in Leaves(s) : s.panes[l] \notin ws
      BY <2>2, <2>7, FoundLeaf
    <3> QED
      BY <3>1, <2>5, <2>6, <2>7
  <2>9. Marks(s, r) /\ r.code = m
    BY <2>3, <2>7, <2>8, CodeMarked
  <2>10. Replaces(t, r) /\ r.panes = s.panes
    BY <2>6, <2>9, ReplacedThenMarked DEF Marks, SamePanes
  <2> QED
    BY <2>4, <2>5, <2>6, <2>8, <2>9, <2>10 DEF Shows
<1> QED
  BY <1>1, <1>2

LEMMA Remembered ==
    ASSUME NEW t, IsTree(t)
    PROVE  LET r == RememberFocus(t)
           IN  /\ SamePanes(t, r) /\ r.focus = t.focus
               /\ Focused(t) \in CodeSlots => Located(r)
<1>0. /\ Leaves(t) = 1 .. Len(t.panes) /\ Len(t.panes) \in Nat /\ t.focus \in 1 .. Len(t.panes)
      /\ 0 \in 0 .. Len(t.panes) /\ t.focus \in 0 .. Len(t.panes) /\ t.focus # 0
      /\ t.panes[t.focus] = Focused(t) /\ "asm" \in CodeSlots
      /\ CodeSlots = SourceSlots \cup {"asm"} /\ "asm" \notin SourceSlots
      /\ "gdb" \notin CodeSlots /\ TextPanes \cap CodeSlots = {} /\ "gdb" \notin TextPanes
      /\ "asm" # "gdb"
  BY LeavesOf, WidgetKinds DEF IsTree, Focused, CodeSlots
<1>1. PICK r : r = RememberFocus(t)
  OBVIOUS
<1>k. /\ Focused(t) = "asm" => Focused(t) \notin SourceSlots /\ Focused(t) # "gdb" /\ Focused(t) \notin TextPanes
      /\ Focused(t) \in SourceSlots => Focused(t) # "gdb" /\ Focused(t) \notin TextPanes
      /\ Focused(t) = "gdb" => Focused(t) \notin TextPanes
  BY <1>0
<1>2. CASE Focused(t) = "asm" /\ t.code \notin {Nil, t.focus}
  <2>1. r = [t EXCEPT !.asm = t.focus]
    BY <1>k, <1>1, <1>2, Zenon DEF RememberFocus
  <2>2. Marks(t, r) /\ r.asm = t.focus
    BY <1>0, <2>1, AsmMarked
  <2> QED
    BY <1>0, <1>1, <1>2, <2>2 DEF Marks, SamePanes, Located, Shows, Nil
<1>3. CASE Focused(t) = "asm" /\ t.code \in {Nil, t.focus}
  <2>1. PICK u : u = [t EXCEPT !.code = t.focus]
    OBVIOUS
  <2>2. PICK v : v = [u EXCEPT !.asm = 0]
    OBVIOUS
  <2>3. r = [v EXCEPT !.last = 0]
    BY <1>k, <1>1, <1>3, <2>1, <2>2, Zenon DEF RememberFocus, Nil
  <2>4. Marks(t, u) /\ u.code = t.focus
    BY <1>0, <2>1, CodeMarked
  <2>5. Marks(u, v) /\ v.code = t.focus
    <3>1. IsTree(u) /\ 0 \in 0 .. Len(u.panes)
      BY <1>0, <2>4 DEF Marks
    <3> QED
      BY <2>2, <2>4, <3>1, AsmMarked
  <2>6. Marks(v, r) /\ r.code = t.focus
    <3>1. IsTree(v) /\ 0 \in 0 .. Len(v.panes)
      BY <1>0, <2>4, <2>5 DEF Marks
    <3> QED
      BY <2>3, <2>5, <3>1, LastMarked
  <2> QED
    BY <1>0, <1>1, <1>3, <2>4, <2>5, <2>6 DEF Marks, SamePanes, Located, Shows, Nil
<1>4. CASE Focused(t) \in SourceSlots
  <2>1. PICK u : u = [t EXCEPT !.code = t.focus]
    OBVIOUS
  <2>2. r = [u EXCEPT !.last = 0]
    BY <1>k, <1>1, <1>4, <2>1, Zenon DEF RememberFocus, Nil
  <2>3. Marks(t, u) /\ u.code = t.focus
    BY <1>0, <2>1, CodeMarked
  <2>4. Marks(u, r) /\ r.code = t.focus
    <3>1. IsTree(u) /\ 0 \in 0 .. Len(u.panes)
      BY <1>0, <2>3 DEF Marks
    <3> QED
      BY <2>2, <2>3, <3>1, LastMarked
  <2> QED
    BY <1>0, <1>1, <1>4, <2>3, <2>4 DEF Marks, SamePanes, Located, Shows, Nil
<1>5. CASE Focused(t) = "gdb"
  <2>1. r = [t EXCEPT !.gdb = t.focus]
    BY <1>k, <1>1, <1>5, Zenon DEF RememberFocus
  <2>2. SamePanes(t, r) /\ r.focus = t.focus
    BY <1>0, <2>1 DEF SamePanes, IsTree, Tree
  <2> QED
    BY <1>0, <1>1, <1>5, <2>2
<1>6. CASE Focused(t) \notin CodeSlots /\ Focused(t) # "gdb"
  <2>1. r = t \/ r = [t EXCEPT !.last = t.focus]
    BY <1>0, <1>1, <1>6 DEF RememberFocus
  <2>2. SamePanes(t, r) /\ r.focus = t.focus
    <3>1. PICK v : v = [t EXCEPT !.last = t.focus]
      OBVIOUS
    <3>2. Marks(t, v)
      BY <1>0, <3>1, LastMarked
    <3> QED
      BY <2>1, <3>1, <3>2 DEF Marks, SamePanes
  <2> QED
    BY <1>1, <1>6, <2>2
<1> QED
  BY <1>0, <1>2, <1>3, <1>4, <1>5, <1>6

LEMMA FocusReplaced ==
    ASSUME NEW t, IsTree(t), NEW w \in Widgets
    PROVE  LET r == PutFocused(t, w)
           IN  /\ Alike(t, r) /\ r.focus = t.focus
               /\ r.panes[t.focus] = w
               /\ \A l \in Leaves(t) : l # t.focus => r.panes[l] = t.panes[l]
               /\ Focused(t) \in CodeSlots => Replaces(t, r)
               /\ Focused(t) # "gdb" \/ w = "gdb" => GdbKept(t, r)
               /\ w \in CodeSlots => Located(r)
<1>1. PICK s : s = Put(t, t.focus, w)
  OBVIOUS
<1>2. PICK r : r = RememberFocus(s)
  OBVIOUS
<1>3. PutFocused(t, w) = r
  BY <1>1, <1>2 DEF PutFocused
<1>4. t.focus \in Leaves(t) /\ t.panes[t.focus] = Focused(t) /\ SamePanes(t, t)
  BY LeavesOf DEF SamePanes, Focused
<1>5. /\ Alike(t, s) /\ s.panes[t.focus] = w /\ s.focus = t.focus
      /\ \A l \in Leaves(t) : l # t.focus => s.panes[l] = t.panes[l]
      /\ Focused(t) \in CodeSlots => Replaces(t, s)
      /\ Focused(t) # "gdb" \/ w = "gdb" => GdbKept(t, s)
  BY <1>1, <1>4, LeafReplaced
<1>6. SamePanes(s, r) /\ r.focus = s.focus /\ (Focused(s) \in CodeSlots => Located(r))
  BY <1>2, <1>5, Remembered DEF Alike
<1>7. Alike(t, r) /\ r.panes = s.panes /\ Focused(s) = w
  BY <1>5, <1>6 DEF Alike, SamePanes, Focused
<1> QED
  BY <1>3, <1>5, <1>6, <1>7, ReplacedThenMarked

---------------------------------------------------------------------------
(* Placement: a stop, a frame, a disassembly *)

(* What a stop may change of the tree, and what it leaves: a place for the   *)
(* location if there was one, and a dedicated Assembly leaf.                 *)
SplitKept(t, r) ==
    HasSplit(t) /\ Shows(t, t.code, SourceSlots) => r.panes[t.asm] = "asm"

Presents(t, r) == Replaces(t, r) /\ (Located(t) => Located(r)) /\ SplitKept(t, r)

LEMMA NothingPresented ==
    ASSUME NEW t, IsTree(t)
    PROVE  Presents(t, t)
<1>1. SamePanes(t, t)
  BY DEF SamePanes
<1> QED
  BY <1>1, NothingReplaced DEF Presents, SplitKept, HasSplit, Shows

LEMMA CodeSlotsReplaced ==
    ASSUME NEW t, IsTree(t), NEW s, SamePanes(t, s), NEW r, Alike(s, r),
           \A l \in Leaves(s) : r.panes[l] = s.panes[l] \/ s.panes[l] \in CodeSlots
    PROVE  Replaces(t, r)
<1>1. s.panes = t.panes /\ Leaves(s) = Leaves(t)
  BY DEF SamePanes, Leaves
<1> QED
  BY <1>1 DEF Replaces, Alike

LEMMA FoundIs ==
    ASSUME NEW t, IsTree(t)
    PROVE  LET s == FindCodeLeaf(t)
           IN  /\ SamePanes(t, s) /\ s.focus = t.focus /\ s.gdb = t.gdb
               /\ s.code # Nil => /\ s.code \in Leaves(t) /\ t.panes[s.code] \in CodeSlots
                                  /\ Located(s)
               /\ Located(t) => s.code # Nil
               /\ Shows(t, t.code, SourceSlots) => s.code = t.code
<1>1. PICK s : s = FindCodeLeaf(t)
  OBVIOUS
<1>2. /\ Marks(t, s)
      /\ s.code # Nil => s.code \in Leaves(t) /\ t.panes[s.code] \in CodeSlots
      /\ Located(t) => s.code # Nil
      /\ Shows(t, t.code, SourceSlots) => s = t
  BY <1>1, CodeLeafFound
<1>3. SamePanes(t, s) /\ s.focus = t.focus /\ s.gdb = t.gdb
  BY <1>2 DEF Marks, SamePanes
<1>4. s.code # Nil => Located(s)
  BY <1>2, <1>3 DEF Located, Shows, SamePanes
<1> QED
  BY <1>1, <1>2, <1>3, <1>4

LEMMA SplitLeaf ==
    ASSUME NEW t, IsTree(t), HasSplit(t)
    PROVE  /\ t.asm \in Leaves(t) /\ t.panes[t.asm] = "asm" /\ t.asm # t.code
  BY LeavesOf DEF HasSplit, Shows, Nil, IsTree

LEMMA CodeIntoFoundPresents ==
    ASSUME NEW t, IsTree(t), NEW w \in SourceSlots, NEW p \in BOOLEAN
    PROVE  Presents(t, CodeIntoFound(t, w, p))
<1>1. PICK s : s = FindCodeLeaf(t)
  OBVIOUS
<1>2. PICK r : r = CodeIntoFound(t, w, p)
  OBVIOUS
<1>3. /\ SamePanes(t, s)
      /\ s.code # Nil => s.code \in Leaves(t) /\ t.panes[s.code] \in CodeSlots /\ Located(s)
      /\ Located(t) => s.code # Nil
      /\ Shows(t, t.code, SourceSlots) => s.code = t.code
  BY <1>1, FoundIs
<1>4. IsTree(s) /\ s.panes = t.panes /\ Leaves(s) = Leaves(t)
  BY <1>3 DEF SamePanes, Leaves
<1>5. w \in Widgets /\ SourceSlots \subseteq CodeSlots /\ "asm" \notin SourceSlots
  BY WidgetKinds
<1>6. HasSplit(t) => t.asm \in Leaves(t) /\ t.panes[t.asm] = "asm" /\ t.asm # t.code
  BY SplitLeaf
<1>7. CASE s.code # Nil /\ ~IsGdbLeaf(s, s.code) /\ Shows(s, s.code, {"asm"}) /\ p
  <2>1. r = s
    BY <1>1, <1>2, <1>7 DEF CodeIntoFound
  <2> QED
    BY <1>2, <1>3, <1>4, <1>6, <1>7, <2>1, NothingReplaced DEF Presents, SplitKept
<1>8. CASE s.code # Nil /\ ~IsGdbLeaf(s, s.code) /\ ~ (Shows(s, s.code, {"asm"}) /\ p)
  <2>1. PICK u : u = Put(s, s.code, w)
    OBVIOUS
  <2>2. PICK m : m = IF u.asm = s.code THEN 0 ELSE u.asm
    OBVIOUS
  <2>3. r = [u EXCEPT !.asm = m]
    BY <1>1, <1>2, <1>8, <2>1, <2>2 DEF CodeIntoFound, Nil
  <2>4. /\ Alike(t, u) /\ u.panes[s.code] = w
        /\ \A l \in Leaves(t) : l # s.code => u.panes[l] = t.panes[l]
        /\ Replaces(t, u)
    BY <1>3, <1>5, <1>8, <2>1, LeafReplaced
  <2>5. IsTree(u) /\ m \in 0 .. Len(u.panes) /\ Leaves(u) = Leaves(t)
    <3>1. IsTree(u) /\ Len(u.panes) = Len(t.panes)
      BY <2>4 DEF Alike
    <3>2. Leaves(u) = Leaves(t)
      BY <3>1, LeavesOf
    <3>3. u.asm \in 0 .. Len(u.panes) /\ 0 \in 0 .. Len(u.panes)
      BY <3>1, LeavesOf DEF IsTree
    <3> QED
      BY <2>2, <3>1, <3>2, <3>3
  <2>6. SamePanes(u, r)
    BY <2>3, <2>5, AsmMarked DEF Marks, SamePanes
  <2>7. Replaces(t, r) /\ r.panes = u.panes
    BY <2>4, <2>6, ReplacedThenMarked DEF SamePanes
  <2>8. Located(r)
    <3>1. s.code \in Leaves(r) /\ r.panes[s.code] \in SourceSlots
      BY <1>3, <1>8, <2>4, <2>5, <2>7 DEF Leaves
    <3> QED
      BY <3>1 DEF Located
  <2>9. SplitKept(t, r)
    BY <1>3, <1>6, <2>4, <2>7 DEF SplitKept
  <2> QED
    BY <1>2, <2>7, <2>8, <2>9 DEF Presents
<1>9. CASE ~ (s.code # Nil /\ ~IsGdbLeaf(s, s.code))
  <2>1. r = ReplaceMatching(s, w, SourceSlots)
    BY <1>1, <1>2, <1>9 DEF CodeIntoFound
  <2>2. /\ Replaces(s, r)
        /\ \A l \in Leaves(s) : r.panes[l] = s.panes[l] \/ (s.panes[l] \in SourceSlots /\ r.panes[l] = w)
        /\ (\E l \in Leaves(s) : s.panes[l] \in SourceSlots) => Shows(r, r.code, SourceSlots)
        /\ (\A l \in Leaves(s) : s.panes[l] \notin SourceSlots) => r = s
    BY <1>4, <1>5, <2>1, MatchReplaced
  <2>3. Replaces(t, r)
    BY <1>3, <1>5, <2>2, CodeSlotsReplaced DEF Replaces
  <2>4. Located(t) => Located(r)
    BY <1>3, <1>5, <2>2 DEF Located, Shows
  <2>5. SplitKept(t, r)
    BY <1>4, <1>5, <1>6, <2>2 DEF SplitKept
  <2> QED
    BY <1>2, <2>3, <2>4, <2>5 DEF Presents
<1> QED
  BY <1>7, <1>8, <1>9

LEMMA CodeBesideAsmPresents ==
    ASSUME NEW t, IsTree(t), NEW w \in SourceSlots, NEW p \in BOOLEAN
    PROVE  Presents(t, CodeBesideAsm(t, w, p))
<1>1. PICK s : s = FindCodeLeaf(t)
  OBVIOUS
<1>2. PICK r : r = CodeBesideAsm(t, w, p)
  OBVIOUS
<1>3. /\ SamePanes(t, s)
      /\ s.code # Nil => s.code \in Leaves(t) /\ t.panes[s.code] \in CodeSlots /\ Located(s)
      /\ Located(t) => s.code # Nil
      /\ Shows(t, t.code, SourceSlots) => s.code = t.code
  BY <1>1, FoundIs
<1>4. IsTree(s) /\ s.panes = t.panes /\ Leaves(s) = Leaves(t)
  BY <1>3 DEF SamePanes, Leaves
<1>5. w \in Widgets
  BY WidgetKinds
<1>6. HasSplit(t) => t.asm \in Leaves(t) /\ t.panes[t.asm] = "asm" /\ t.asm # t.code
  BY SplitLeaf
<1>7. r = s \/ (s.code # Nil /\ r = Put(s, s.code, w))
  BY <1>1, <1>2 DEF CodeBesideAsm
<1>8. CASE r = s
  BY <1>2, <1>3, <1>4, <1>6, <1>8, NothingReplaced DEF Presents, SplitKept
<1>9. CASE s.code # Nil /\ r = Put(s, s.code, w)
  <2>1. /\ Alike(t, r) /\ r.panes[s.code] = w
        /\ \A l \in Leaves(t) : l # s.code => r.panes[l] = t.panes[l]
        /\ Replaces(t, r)
    BY <1>3, <1>5, <1>9, LeafReplaced
  <2>2. Leaves(r) = Leaves(t)
    <3>1. IsTree(r) /\ Len(r.panes) = Len(t.panes)
      BY <2>1 DEF Alike
    <3> QED
      BY <3>1, LeavesOf
  <2>3. Located(r)
    BY <1>3, <1>9, <2>1, <2>2 DEF Located
  <2>4. SplitKept(t, r)
    BY <1>3, <1>6, <2>1 DEF SplitKept
  <2> QED
    BY <1>2, <2>1, <2>3, <2>4 DEF Presents
<1> QED
  BY <1>7, <1>8, <1>9

LEMMA PlaceCodePresents ==
    ASSUME NEW t, IsTree(t), NEW w \in SourceSlots, NEW p \in BOOLEAN
    PROVE  Presents(t, PlaceCode(t, w, p))
<1> DEFINE split == HasSplit(t)
           ownLeaf == ~IsGdbLeaf(t, t.focus) /\ Focused(t) \in CodeSlots
           beside == split /\ (t.focus = t.asm \/ Focused(t) = "asm")
<1>0. PICK r : r = PlaceCode(t, w, p)
  OBVIOUS
<1>1. CASE p /\ ~split
  BY <1>1, NothingPresented DEF PlaceCode
<1>2. CASE ~ (p /\ ~split) /\ beside
  BY <1>2, CodeBesideAsmPresents DEF PlaceCode
<1>3. CASE ~ (p /\ ~split) /\ ~beside /\ ownLeaf
  <2>1. r = PutFocused(t, w)
    BY <1>0, <1>3 DEF PlaceCode
  <2>2. w \in Widgets /\ w \in CodeSlots
    BY WidgetKinds
  <2>3. /\ Replaces(t, r) /\ Located(r)
        /\ \A l \in Leaves(t) : l # t.focus => r.panes[l] = t.panes[l]
    BY <1>3, <2>1, <2>2, FocusReplaced
  <2>4. SplitKept(t, r)
    BY <1>3, <2>3, SplitLeaf DEF SplitKept
  <2> QED
    BY <1>0, <2>3, <2>4 DEF Presents
<1>4. CASE ~ (p /\ ~split) /\ ~beside /\ ~ownLeaf
  BY <1>4, CodeIntoFoundPresents DEF PlaceCode
<1> QED
  BY <1>1, <1>2, <1>3, <1>4

LEMMA SameTwice ==
    ASSUME NEW t, NEW s, NEW r, SamePanes(t, s), SamePanes(s, r)
    PROVE  SamePanes(t, r) /\ Leaves(r) = Leaves(t)
  BY DEF SamePanes, Leaves

LEMMA PlaceAsmPresents ==
    ASSUME NEW t, IsTree(t), NEW p \in BOOLEAN, NEW a \in BOOLEAN
    PROVE  Presents(t, PlaceAsm(t, p, a))
<1> DEFINE dedicated == t.asm # Nil /\ ~IsGdbLeaf(t, t.asm)
<1>1. PICK h : h = [t EXCEPT !.asm = IF dedicated THEN Nil ELSE @]
  OBVIOUS
<1>2. PICK s : s = FindCodeLeaf(h)
  OBVIOUS
<1>3. PICK r : r = PlaceAsm(t, p, a)
  OBVIOUS
<1>0. /\ Leaves(t) = 1 .. Len(t.panes) /\ Len(t.panes) \in Nat
      /\ t.asm \in 0 .. Len(t.panes) /\ 0 \in 0 .. Len(t.panes)
      /\ "asm" \in Widgets /\ "asm" \in CodeSlots /\ CodeSlots \subseteq CodeSlots
  BY LeavesOf, WidgetKinds DEF IsTree
<1>4. /\ SamePanes(t, h) /\ h.focus = t.focus /\ h.code = t.code
      /\ h.asm = IF dedicated THEN Nil ELSE t.asm
  <2>1. PICK m : m = IF dedicated THEN Nil ELSE t.asm
    OBVIOUS
  <2>2. m \in 0 .. Len(t.panes) /\ h = [t EXCEPT !.asm = m]
    BY <1>0, <1>1, <2>1 DEF Nil
  <2>3. Marks(t, h) /\ h.code = t.code /\ h.asm = m
    BY <2>2, AsmMarked
  <2> QED
    BY <2>1, <2>3 DEF Marks, SamePanes
<1>5. IsTree(h) /\ h.panes = t.panes /\ Leaves(h) = Leaves(t)
  BY <1>4 DEF SamePanes, Leaves
<1>6. HasSplit(t) => t.asm \in Leaves(t) /\ t.panes[t.asm] = "asm"
  BY SplitLeaf
<1>7. CASE dedicated /\ t.code # t.asm
  <2>1. r = Put(t, t.asm, "asm")
    BY <1>3, <1>7 DEF PlaceAsm
  <2>2. t.asm \in Leaves(t) /\ t.panes[t.asm] # "gdb" /\ SamePanes(t, t)
    BY <1>0, <1>7 DEF IsGdbLeaf, Shows, Nil, SamePanes
  <2>3. Replaces(t, r) /\ r.panes[t.asm] = "asm" /\ r.asm = t.asm
    BY <1>0, <2>1, <2>2, LeafReplaced
  <2> QED
    BY <1>3, <1>7, <2>3 DEF Presents, SplitKept, Located, Shows
<1>8. ASSUME ~ (dedicated /\ t.code # t.asm)
      PROVE  /\ Located(t) => Located(h)
             /\ r = IF ~(p \/ a) THEN h
                    ELSE IF ~IsGdbLeaf(h, h.focus) /\ Focused(h) \in CodeSlots
                         THEN PutFocused(h, "asm")
                    ELSE IF s.code # Nil /\ ~IsGdbLeaf(s, s.code) THEN Put(s, s.code, "asm")
                    ELSE ReplaceMatching(s, "asm", CodeSlots)
  <2>1. Located(t) => Located(h)
    BY <1>0, <1>4, <1>5, <1>8 DEF Located, Shows
  <2>2. r = IF ~(p \/ a) THEN h
            ELSE IF ~IsGdbLeaf(h, h.focus) /\ Focused(h) \in CodeSlots
                 THEN PutFocused(h, "asm")
            ELSE IF s.code # Nil /\ ~IsGdbLeaf(s, s.code) THEN Put(s, s.code, "asm")
            ELSE ReplaceMatching(s, "asm", CodeSlots)
    BY <1>1, <1>2, <1>3, <1>8, Zenon DEF PlaceAsm
  <2> QED
    BY <2>1, <2>2
<1>9. /\ SamePanes(h, s) /\ (Located(h) => s.code # Nil)
      /\ s.code # Nil => s.code \in Leaves(h) /\ h.panes[s.code] \in CodeSlots /\ Located(s)
  BY <1>2, <1>5, FoundIs
<1>10. SamePanes(t, s) /\ IsTree(s) /\ s.panes = t.panes /\ Leaves(s) = Leaves(t)
  BY <1>4, <1>9, SameTwice DEF SamePanes
<1> HIDE DEF dedicated
<1>11. ASSUME Replaces(t, r),
              \A l \in Leaves(t) : r.panes[l] = t.panes[l] \/ r.panes[l] = "asm"
       PROVE  Replaces(t, r) /\ SplitKept(t, r)
  BY <1>6, <1>11 DEF SplitKept
<1>12. CASE ~ (dedicated /\ t.code # t.asm) /\ ~(p \/ a)
  <2>1. r = h /\ (Located(t) => Located(h))
    BY <1>8, <1>12
  <2> QED
    BY <1>3, <1>4, <1>5, <1>11, <2>1, NothingReplaced DEF Presents
<1>13. CASE /\ ~ (dedicated /\ t.code # t.asm) /\ (p \/ a)
            /\ ~IsGdbLeaf(h, h.focus) /\ Focused(h) \in CodeSlots
  <2>1. r = PutFocused(h, "asm")
    BY <1>8, <1>13
  <2>2. /\ Alike(h, r) /\ r.panes[h.focus] = "asm" /\ Located(r)
        /\ \A l \in Leaves(h) : l # h.focus => r.panes[l] = h.panes[l]
    BY <1>0, <1>5, <2>1, FocusReplaced
  <2>3. h.panes[h.focus] \in CodeSlots
    BY <1>13 DEF Focused
  <2>4. Replaces(t, r)
    BY <1>4, <2>2, <2>3, CodeSlotsReplaced
  <2> QED
    BY <1>3, <1>5, <1>11, <2>2, <2>4 DEF Presents
<1>14. CASE /\ ~ (dedicated /\ t.code # t.asm) /\ (p \/ a)
            /\ ~ (~IsGdbLeaf(h, h.focus) /\ Focused(h) \in CodeSlots)
            /\ s.code # Nil /\ ~IsGdbLeaf(s, s.code)
  <2>1. r = Put(s, s.code, "asm")
    BY <1>8, <1>14
  <2>2. s.code \in Leaves(t) /\ t.panes[s.code] \in CodeSlots
    BY <1>5, <1>9, <1>14
  <2>3. /\ Replaces(t, r) /\ r.panes[s.code] = "asm" /\ r.code = s.code
        /\ \A l \in Leaves(t) : l # s.code => r.panes[l] = t.panes[l]
    BY <1>0, <1>10, <2>1, <2>2, LeafReplaced
  <2>4. Located(r)
    BY <1>0, <1>14, <2>3 DEF Located, Shows
  <2> QED
    BY <1>3, <1>11, <2>3, <2>4 DEF Presents
<1>15. CASE /\ ~ (dedicated /\ t.code # t.asm) /\ (p \/ a)
            /\ ~ (~IsGdbLeaf(h, h.focus) /\ Focused(h) \in CodeSlots)
            /\ ~ (s.code # Nil /\ ~IsGdbLeaf(s, s.code))
  <2>1. r = ReplaceMatching(s, "asm", CodeSlots) /\ (Located(t) => Located(h))
    BY <1>8, <1>15
  <2>2. /\ Replaces(s, r)
        /\ \A l \in Leaves(s) : r.panes[l] = s.panes[l] \/ (s.panes[l] \in CodeSlots /\ r.panes[l] = "asm")
        /\ (\E l \in Leaves(s) : s.panes[l] \in CodeSlots) => Shows(r, r.code, CodeSlots)
    BY <1>0, <1>10, <2>1, MatchReplaced
  <2>3. Replaces(t, r)
    BY <1>10, <2>2, CodeSlotsReplaced DEF Replaces
  <2>4. Located(t) => Located(r)
    BY <1>5, <1>9, <1>10, <2>1, <2>2 DEF Located
  <2> QED
    BY <1>3, <1>10, <1>11, <2>2, <2>3, <2>4 DEF Presents
<1> QED
  BY <1>3, <1>7, <1>12, <1>13, <1>14, <1>15

---------------------------------------------------------------------------
(* Placement: the focus, the console, the program's exit *)

LEMMA PlaceLogoIs ==
    ASSUME NEW t, IsTree(t)
    PROVE  GdbKept(t, PlaceLogo(t))
<1>1. "logo" \in Widgets /\ "logo" \in CodeSlots /\ CodeWidgets \subseteq CodeSlots /\ "gdb" \notin CodeSlots
  BY WidgetKinds
<1>2. CASE Focused(t) \in CodeWidgets /\ ~IsGdbLeaf(t, t.focus)
  <2>1. PICK s : s = Put(t, t.focus, "logo")
    OBVIOUS
  <2>2. PICK m : m = FindLeaf(s, CodeSlots)
    OBVIOUS
  <2>3. PICK r : r = [s EXCEPT !.code = m]
    OBVIOUS
  <2>4. PlaceLogo(t) = r
    BY <1>2, <2>1, <2>2, <2>3 DEF PlaceLogo
  <2>5. t.focus \in Leaves(t) /\ t.panes[t.focus] # "gdb" /\ SamePanes(t, t)
    BY <1>1, <1>2, LeavesOf DEF Focused, SamePanes
  <2>6. GdbKept(t, s)
    BY <1>1, <2>1, <2>5, LeafReplaced
  <2>7. IsTree(s) /\ m \in 0 .. Len(s.panes)
    BY <2>2, <2>6, FoundLeaf DEF GdbKept, Alike
  <2>8. SamePanes(s, r)
    BY <2>3, <2>7, CodeMarked DEF Marks, SamePanes
  <2> QED
    BY <2>4, <2>6, <2>8, ReplacedThenMarked
<1>3. CASE ~ (Focused(t) \in CodeWidgets /\ ~IsGdbLeaf(t, t.focus))
  <2>1. PICK r : r = ReplaceMatching(t, "logo", CodeSlots)
    OBVIOUS
  <2>2. PlaceLogo(t) = r
    BY <1>3, <2>1 DEF PlaceLogo
  <2>3. Replaces(t, r)
    BY <1>1, <2>1, MatchReplaced
  <2> QED
    BY <2>2, <2>3, ReplacingKeepsGdb
<1> QED
  BY <1>2, <1>3

LEMMA FocusCodeIs ==
    ASSUME NEW t, IsTree(t), NEW cw \in CodeWidgets \cup {None}, NEW p \in BOOLEAN
    PROVE  LET r == FocusCode(t, cw, p)
           IN  Alike(t, r) /\ (Located(t) => GdbKept(t, r))
<1>1. PICK s : s = FindCodeLeaf(t)
  OBVIOUS
<1>2. PICK leaf : leaf = IF s.code = Nil THEN 1 ELSE s.code
  OBVIOUS
<1>3. PICK u : u = IF p /\ ~HasSplit(s) THEN Put(s, leaf, "asm")
                   ELSE IF cw # None THEN Put(s, leaf, cw) ELSE s
  OBVIOUS
<1>4. PICK v : v = [u EXCEPT !.focus = leaf]
  OBVIOUS
<1>5. PICK r : r = [v EXCEPT !.code = leaf]
  OBVIOUS
<1>6. FocusCode(t, cw, p) = r
  BY <1>1, <1>2, <1>3, <1>4, <1>5 DEF FocusCode
<1>7. /\ SamePanes(t, s) /\ Leaves(t) = 1 .. Len(t.panes) /\ Len(t.panes) >= 1 /\ Len(t.panes) \in Nat
      /\ s.code # Nil => s.code \in Leaves(t) /\ t.panes[s.code] \in CodeSlots
      /\ Located(t) => s.code # Nil
      /\ "asm" \in Widgets /\ cw # None => cw \in Widgets /\ "gdb" \notin CodeSlots
  BY <1>1, FoundIs, LeavesOf, WidgetKinds DEF IsTree
<1>8. leaf \in Leaves(t) /\ leaf \in 1 .. Len(t.panes)
  BY <1>2, <1>7
<1>9. Located(t) => t.panes[leaf] # "gdb"
  BY <1>2, <1>7, WidgetKinds
<1>10. Alike(t, u) /\ (Located(t) => GdbKept(t, u))
  <2>1. CASE u = s
    BY <1>7, <2>1, NothingReplaced, ReplacingKeepsGdb DEF Replaces
  <2>2. ASSUME NEW w \in Widgets, u = Put(s, leaf, w)
        PROVE  Alike(t, u) /\ (Located(t) => GdbKept(t, u))
    BY <1>7, <1>8, <1>9, <2>2, LeafReplaced
  <2>3. "asm" \in Widgets /\ (cw # None => cw \in Widgets)
    BY WidgetKinds
  <2> QED
    BY <1>3, <2>1, <2>2, <2>3
<1>11. IsTree(u) /\ leaf \in 1 .. Len(u.panes) /\ leaf \in 0 .. Len(u.panes) /\ leaf \in Nat
  BY <1>7, <1>8, <1>10 DEF Alike
<1>12. IsTree(v) /\ v.panes = u.panes
  <2>1. u \in Tree
    BY <1>11 DEF IsTree
  <2>2. /\ v \in Tree /\ v.panes = u.panes /\ v.focus = leaf
        /\ v.code = u.code /\ v.gdb = u.gdb /\ v.asm = u.asm /\ v.last = u.last
    BY <1>4, <1>11, <2>1 DEF Tree
  <2> QED
    BY <1>11, <2>2 DEF IsTree
<1>13. SamePanes(u, r)
  <2>1. IsTree(v) /\ leaf \in 0 .. Len(v.panes)
    BY <1>11, <1>12
  <2>2. Marks(v, r)
    BY <1>5, <2>1, CodeMarked
  <2> QED
    BY <1>12, <2>2 DEF Marks, SamePanes
<1>14. Alike(t, r)
  BY <1>10, <1>13 DEF Alike, SamePanes
<1> QED
  BY <1>6, <1>10, <1>13, <1>14, ReplacedThenMarked

LEMMA ActivateGdbIs ==
    ASSUME NEW t, IsTree(t)
    PROVE  LET r == ActivateGdb(t)
           IN  Alike(t, r) /\ \E leaf \in Leaves(r) : r.panes[leaf] = "gdb"
<1> DEFINE found == IF Shows(t, t.gdb, {"gdb"}) THEN t.gdb ELSE FindLeaf(t, {"gdb"})
           spare == {leaf \in Leaves(t) : leaf # t.code}
           first == IF spare = {} THEN 1
                    ELSE CHOOSE leaf \in spare : \A other \in spare : leaf <= other
<1>0. /\ Leaves(t) = 1 .. Len(t.panes) /\ Len(t.panes) >= 1 /\ Len(t.panes) \in Nat
      /\ t.gdb \in 0 .. Len(t.panes) /\ "gdb" \in Widgets
  BY LeavesOf, WidgetKinds DEF IsTree
<1>1. found # Nil => found \in Leaves(t)
  BY <1>0, FoundLeaf DEF Shows, Nil
<1>2. first \in Leaves(t)
  <2>1. CASE spare = {}
    BY <1>0, <2>1
  <2>2. CASE spare # {}
    <3>1. \E leaf \in spare : \A other \in spare : leaf <= other
      <4>1. spare \in SUBSET (1 .. Len(t.panes))
        BY <1>0
      <4>2. Min(spare) \in spare /\ \A y \in spare : Min(spare) <= y
        BY <1>0, <2>2, <4>1, MinIsLeast
      <4> HIDE DEF spare
      <4> QED
        BY <4>2
    <3>2. first \in spare
      <4> HIDE DEF spare
      <4> QED
        BY <2>2, <3>1
    <3> QED
      BY <3>2
  <2> QED
    BY <2>1, <2>2
<1>3. PICK leaf : leaf = IF found # Nil THEN found ELSE first
  OBVIOUS
<1>4. PICK s : s = Put(t, leaf, "gdb")
  OBVIOUS
<1>v. PICK v : v = [s EXCEPT !.focus = leaf]
  OBVIOUS
<1>5. PICK r : r = [v EXCEPT !.gdb = leaf]
  OBVIOUS
<1>6. ActivateGdb(t) = r
  BY <1>3, <1>4, <1>5, <1>v DEF ActivateGdb
<1> HIDE DEF found, first
<1>7. leaf \in Leaves(t)
  BY <1>1, <1>2, <1>3
<1>8. Alike(t, s) /\ s.panes[leaf] = "gdb"
  <2>1. "gdb" \in Widgets
    BY <1>0
  <2> QED
    BY <1>4, <1>7, <2>1, PutIs
<1>9. IsTree(r) /\ r.panes = s.panes
  <2>1. IsTree(s) /\ leaf \in 1 .. Len(s.panes) /\ leaf \in 0 .. Len(s.panes) /\ leaf \in Nat
    BY <1>0, <1>7, <1>8 DEF Alike
  <2>2. IsTree(v) /\ v.panes = s.panes
    BY <2>1, <1>v DEF IsTree, Tree
  <2>3. leaf \in Nat /\ leaf \in 0 .. Len(v.panes)
    BY <2>1, <2>2
  <2>4. v \in Tree
    BY <2>2 DEF IsTree
  <2>5. r \in Tree /\ r.panes = v.panes /\ r.gdb = leaf
    BY <1>5, <2>3, <2>4 DEF Tree
  <2>6. r.focus = v.focus /\ r.code = v.code /\ r.asm = v.asm /\ r.last = v.last
    BY <1>5, <2>4 DEF Tree
  <2> QED
    BY <2>2, <2>3, <2>5, <2>6 DEF IsTree
<1>10. Leaves(r) = Leaves(t)
  BY <1>8, <1>9, <1>0, LeavesOf DEF Alike
<1> QED
  BY <1>6, <1>7, <1>8, <1>9, <1>10 DEF Alike

---------------------------------------------------------------------------
(* Placement: panes come and go *)

(* Some leaf shows GDB. *)
GdbShown(t) == \E leaf \in Leaves(t) : t.panes[leaf] = "gdb"

LEMMA KeptIsShown ==
    ASSUME NEW t, IsTree(t), NEW r, GdbKept(t, r), GdbShown(t)
    PROVE  GdbShown(r)
<1>1. IsTree(r) /\ Leaves(r) = Leaves(t)
  BY LeavesOf DEF GdbKept, Alike
<1> QED
  BY <1>1 DEF GdbKept, GdbShown

LEMMA InsertedAt ==
    ASSUME NEW S, NEW q \in Seq(S), NEW i \in 1 .. Len(q) + 1, NEW w \in S
    PROVE  /\ InsertAt(q, i, w) \in Seq(S) /\ Len(InsertAt(q, i, w)) = Len(q) + 1
           /\ \A k \in 1 .. i - 1 : InsertAt(q, i, w)[k] = q[k]
           /\ \A k \in i .. Len(q) : InsertAt(q, i, w)[k + 1] = q[k]
<1>1. Len(q) \in Nat
  OBVIOUS
<1>2. PICK x : x = SubSeq(q, 1, i - 1)
  OBVIOUS
<1>3. PICK z : z = SubSeq(q, i, Len(q))
  OBVIOUS
<1>4. x \in Seq(S) /\ Len(x) = i - 1 /\ \A k \in 1 .. i - 1 : x[k] = q[k]
  BY <1>1, <1>2
<1>5. z \in Seq(S) /\ Len(z) = Len(q) + 1 - i /\ \A k \in 1 .. Len(q) + 1 - i : z[k] = q[k + i - 1]
  BY <1>1, <1>3
<1>6. PICK y : y = x \o <<w>>
  OBVIOUS
<1>7. /\ y \in Seq(S) /\ Len(y) = i
      /\ \A k \in 1 .. i - 1 : y[k] = x[k]
  BY <1>1, <1>4, <1>6
<1>8. PICK r : r = y \o z
  OBVIOUS
<1>9. InsertAt(q, i, w) = r
  BY <1>2, <1>3, <1>6, <1>8 DEF InsertAt
<1>10. /\ r \in Seq(S) /\ Len(r) = Len(q) + 1
       /\ \A k \in 1 .. i : r[k] = y[k]
       /\ \A k \in 1 .. Len(q) + 1 - i : r[i + k] = z[k]
  BY <1>1, <1>5, <1>7, <1>8
<1>11. \A k \in 1 .. i - 1 : r[k] = q[k]
  BY <1>1, <1>4, <1>7, <1>10
<1>12. ASSUME NEW k \in i .. Len(q)
       PROVE  r[k + 1] = q[k]
  <2>1. k - i + 1 \in 1 .. Len(q) + 1 - i
    BY <1>1
  <2>2. r[i + (k - i + 1)] = z[k - i + 1] /\ z[k - i + 1] = q[(k - i + 1) + i - 1]
    BY <1>5, <1>10, <2>1
  <2>3. i + (k - i + 1) = k + 1 /\ (k - i + 1) + i - 1 = k
    BY <1>1
  <2> QED
    BY <2>2, <2>3
<1> QED
  BY <1>9, <1>10, <1>11, <1>12

LEMMA SplitIs ==
    ASSUME NEW t, IsTree(t), NEW w \in Widgets
    PROVE  LET r == Split(t, w)
           IN  IsTree(r) /\ Len(r.panes) = Len(t.panes) + 1 /\ (GdbShown(t) => GdbShown(r))
<1> DEFINE moved(leaf) == IF leaf > t.focus THEN leaf + 1 ELSE leaf
<1>1. PICK q : q = InsertAt(t.panes, t.focus + 1, w)
  OBVIOUS
<1>2. PICK r : r = [panes |-> q, focus |-> t.focus,
                    code |-> moved(t.code), gdb |-> moved(t.gdb),
                    asm |-> moved(t.asm), last |-> moved(t.last)]
  OBVIOUS
<1>3. Split(t, w) = r
  BY <1>1, <1>2 DEF Split
<1>4. /\ t.panes \in Seq(Widgets) /\ Len(t.panes) \in Nat /\ Leaves(t) = 1 .. Len(t.panes)
      /\ t.focus \in 1 .. Len(t.panes)
      /\ t.code \in 0 .. Len(t.panes) /\ t.gdb \in 0 .. Len(t.panes)
      /\ t.asm \in 0 .. Len(t.panes) /\ t.last \in 0 .. Len(t.panes)
  BY LeavesOf DEF IsTree, Tree
<1>5. PICK i : i = t.focus + 1
  OBVIOUS
<1>6. /\ q \in Seq(Widgets) /\ Len(q) = Len(t.panes) + 1
      /\ \A k \in 1 .. t.focus : q[k] = t.panes[k]
      /\ \A k \in t.focus + 1 .. Len(t.panes) : q[k + 1] = t.panes[k]
  <2>1. i \in 1 .. Len(t.panes) + 1 /\ i - 1 = t.focus
    BY <1>4, <1>5
  <2>2. PICK z : z = t.panes
    OBVIOUS
  <2>3. z \in Seq(Widgets) /\ i \in 1 .. Len(z) + 1 /\ q = InsertAt(z, i, w)
    BY <1>1, <1>4, <1>5, <2>1, <2>2
  <2>4. /\ InsertAt(z, i, w) \in Seq(Widgets) /\ Len(InsertAt(z, i, w)) = Len(z) + 1
        /\ \A k \in 1 .. i - 1 : InsertAt(z, i, w)[k] = z[k]
        /\ \A k \in i .. Len(z) : InsertAt(z, i, w)[k + 1] = z[k]
    BY <2>3, InsertedAt
  <2> QED
    BY <1>5, <2>1, <2>2, <2>3, <2>4
<1>7. \A leaf \in 0 .. Len(t.panes) : moved(leaf) \in 0 .. Len(q)
  BY <1>4, <1>6
<1> HIDE DEF moved
<1>8. /\ r.panes = q /\ r.focus = t.focus /\ r.code = moved(t.code) /\ r.gdb = moved(t.gdb)
      /\ r.asm = moved(t.asm) /\ r.last = moved(t.last)
  BY <1>2
<1>9. /\ moved(t.code) \in 0 .. Len(q) /\ moved(t.gdb) \in 0 .. Len(q)
      /\ moved(t.asm) \in 0 .. Len(q) /\ moved(t.last) \in 0 .. Len(q)
      /\ t.focus \in 1 .. Len(q) /\ Len(q) >= 1 /\ Len(q) \in Nat
  <2>1. t.focus \in 1 .. Len(q) /\ Len(q) >= 1 /\ Len(q) \in Nat
    BY <1>4, <1>6
  <2> QED
    BY <1>4, <1>7, <2>1
<1>10. r \in Tree
  <2>1. /\ moved(t.code) \in Nat /\ moved(t.gdb) \in Nat
        /\ moved(t.asm) \in Nat /\ moved(t.last) \in Nat /\ t.focus \in Nat
    BY <1>9
  <2> QED
    BY <1>2, <1>6, <2>1 DEF Tree
<1>11. IsTree(r)
  BY <1>8, <1>9, <1>10 DEF IsTree
<1>12. ASSUME GdbShown(t) PROVE GdbShown(r)
  <2>1. PICK leaf \in Leaves(t) : t.panes[leaf] = "gdb"
    BY <1>12 DEF GdbShown
  <2>2. PICK k \in 1 .. Len(q) : q[k] = "gdb"
    <3>1. leaf \in 1 .. Len(t.panes) /\ Len(t.panes) \in Nat /\ t.focus \in 1 .. Len(t.panes)
      BY <1>4, <2>1
    <3>2. CASE leaf \in 1 .. t.focus
      <4>1. q[leaf] = "gdb" /\ leaf \in 1 .. Len(q)
        BY <1>6, <2>1, <3>1, <3>2
      <4> QED
        BY <4>1
    <3>3. CASE leaf \in t.focus + 1 .. Len(t.panes)
      <4>1. q[leaf + 1] = "gdb" /\ leaf + 1 \in 1 .. Len(q)
        BY <1>6, <2>1, <3>1, <3>3
      <4> QED
        BY <4>1
    <3> QED
      BY <3>1, <3>2, <3>3
  <2>3. k \in Leaves(r) /\ r.panes[k] = "gdb"
    BY <1>8, <1>11, <2>2, LeavesOf
  <2> QED
    BY <2>3 DEF GdbShown
<1> QED
  BY <1>3, <1>6, <1>8, <1>11, <1>12

LEMMA AsmSplitIs ==
    ASSUME NEW t, IsTree(t)
    PROVE  LET r == AsmSplitOf(t)
           IN  /\ IsTree(r) /\ (GdbShown(t) => GdbShown(r))
               /\ Len(r.panes) \in {Len(t.panes), Len(t.panes) + 1}
<1>1. PICK s : s = Split(t, "asm")
  OBVIOUS
<1>2. IsTree(s) /\ Len(s.panes) = Len(t.panes) + 1 /\ (GdbShown(t) => GdbShown(s))
  BY <1>1, SplitIs, WidgetKinds
<1>3. PICK m : m = FindLeaf(s, {"asm"})
  OBVIOUS
<1>4. PICK u : u = [s EXCEPT !.code = s.focus]
  OBVIOUS
<1>5. PICK r : r = [u EXCEPT !.asm = m]
  OBVIOUS
<1>6. AsmSplitOf(t) = IF IsGdbLeaf(t, t.focus) THEN t ELSE r
  BY <1>1, <1>3, <1>4, <1>5 DEF AsmSplitOf
<1>7. m \in 0 .. Len(s.panes) /\ s.focus \in 0 .. Len(s.panes)
  BY <1>2, <1>3, FoundLeaf DEF IsTree
<1>8. IsTree(u) /\ u.panes = s.panes
  BY <1>2, <1>4, <1>7, CodeMarked DEF Marks
<1>9. IsTree(r) /\ r.panes = s.panes
  <2>1. m \in 0 .. Len(u.panes)
    BY <1>7, <1>8
  <2> QED
    BY <1>5, <1>8, <2>1, AsmMarked DEF Marks
<1>10. GdbShown(s) => GdbShown(r)
  BY <1>9 DEF GdbShown, Leaves
<1> QED
  BY <1>2, <1>6, <1>9, <1>10

LEMMA PreparedIs ==
    ASSUME NEW t, IsTree(t), NEW cw \in CodeWidgets \cup {None}
    PROVE  LET r == Prepared(t, cw)
           IN  GdbKept(t, r) /\ (Located(t) => Located(r))
<1>1. PICK s : s = FindCodeLeaf(t)
  OBVIOUS
<1>2. PICK w : w = IF cw = None THEN "logo" ELSE cw
  OBVIOUS
<1>3. PICK r : r = Prepared(t, cw)
  OBVIOUS
<1>4. /\ SamePanes(t, s)
      /\ s.code # Nil => s.code \in Leaves(t) /\ t.panes[s.code] \in CodeSlots /\ Located(s)
      /\ Located(t) => s.code # Nil
  BY <1>1, FoundIs
<1>5. w \in SourceSlots /\ w \in Widgets /\ "gdb" \notin CodeSlots
  BY <1>2, WidgetKinds
<1>6. CASE Shows(s, s.code, {"asm"})
  <2>1. r = Put(s, s.code, w)
    BY <1>1, <1>2, <1>3, <1>6 DEF Prepared
  <2>2. s.code \in Leaves(t) /\ t.panes[s.code] # "gdb"
    BY <1>4, <1>5, <1>6 DEF Shows
  <2>3. GdbKept(t, r) /\ r.panes[s.code] = w
    BY <1>4, <1>5, <2>1, <2>2, LeafReplaced
  <2>4. Leaves(r) = Leaves(t)
    BY <2>3, LeavesOf DEF GdbKept, Alike
  <2> QED
    BY <1>3, <1>5, <2>2, <2>3, <2>4 DEF Located
<1>7. CASE ~ Shows(s, s.code, {"asm"})
  <2>1. r = s
    BY <1>1, <1>3, <1>7 DEF Prepared
  <2> QED
    BY <1>3, <1>4, <2>1, NothingReplaced, ReplacingKeepsGdb
<1> QED
  BY <1>6, <1>7

LEMMA OnlyLeafIs ==
    ASSUME NEW t, IsTree(t)
    PROVE  LET r == OnlyLeaf(t)
           IN  IsTree(r) /\ Len(r.panes) = 1
<1> DEFINE kept(leaf) == IF leaf = t.focus THEN 1 ELSE Nil
<1>1. PICK q : q = <<Focused(t)>>
  OBVIOUS
<1>2. PICK r : r = [panes |-> q, focus |-> 1,
                    code |-> kept(t.code), gdb |-> kept(t.gdb),
                    asm |-> kept(t.asm), last |-> kept(t.last)]
  OBVIOUS
<1>3. OnlyLeaf(t) = r
  BY <1>1, <1>2 DEF OnlyLeaf
<1>4. q \in Seq(Widgets) /\ Len(q) = 1
  BY <1>1, LeavesOf
<1>5. \A leaf : kept(leaf) \in 0 .. 1 /\ kept(leaf) \in Nat
  BY DEF Nil
<1> HIDE DEF kept
<1>6. /\ r.panes = q /\ r.focus = 1 /\ r.code = kept(t.code) /\ r.gdb = kept(t.gdb)
      /\ r.asm = kept(t.asm) /\ r.last = kept(t.last)
  BY <1>2
<1>7. r \in Tree
  BY <1>2, <1>4, <1>5 DEF Tree
<1>8. /\ kept(t.code) \in 0 .. 1 /\ kept(t.gdb) \in 0 .. 1
      /\ kept(t.asm) \in 0 .. 1 /\ kept(t.last) \in 0 .. 1
  BY <1>5
<1>9. IsTree(r)
  <2>1. Len(r.panes) = 1 /\ r.focus \in 1 .. 1
    BY <1>4, <1>6
  <2>2. r.code \in 0 .. 1 /\ r.gdb \in 0 .. 1 /\ r.asm \in 0 .. 1 /\ r.last \in 0 .. 1
    BY <1>6, <1>8
  <2> QED
    BY <1>7, <2>1, <2>2 DEF IsTree
<1> QED
  BY <1>3, <1>4, <1>6, <1>9

LEMMA RemovedAt ==
    ASSUME NEW S, NEW q \in Seq(S), NEW i \in 1 .. Len(q)
    PROVE  RemoveAt(q, i) \in Seq(S) /\ Len(RemoveAt(q, i)) = Len(q) - 1
<1>1. PICK x : x = SubSeq(q, 1, i - 1)
  OBVIOUS
<1>2. PICK y : y = SubSeq(q, i + 1, Len(q))
  OBVIOUS
<1>3. RemoveAt(q, i) = x \o y
  BY <1>1, <1>2 DEF RemoveAt
<1>4. Len(q) \in Nat
  OBVIOUS
<1>5. x \in Seq(S) /\ Len(x) = i - 1
  BY <1>1, <1>4
<1>6. y \in Seq(S) /\ Len(y) = Len(q) - i
  BY <1>2, <1>4
<1>7. x \o y \in Seq(S) /\ Len(x \o y) = Len(x) + Len(y)
  BY <1>5, <1>6
<1>8. Len(x) + Len(y) = Len(q) - 1
  BY <1>4, <1>5, <1>6
<1> QED
  BY <1>3, <1>7, <1>8

LEMMA DeleteIs ==
    ASSUME NEW t, IsTree(t), NEW next \in Leaves(t) \ {t.focus}
    PROVE  LET r == Delete(t, next)
           IN  IsTree(r) /\ Len(r.panes) = Len(t.panes) - 1
<1> DEFINE moved(leaf) == CASE leaf = t.focus -> Nil
                            [] leaf > t.focus -> leaf - 1
                            [] OTHER          -> leaf
<1>1. PICK q : q = RemoveAt(t.panes, t.focus)
  OBVIOUS
<1>2. PICK r : r = [panes |-> q, focus |-> moved(next),
                    code |-> moved(t.code), gdb |-> moved(t.gdb),
                    asm |-> moved(t.asm), last |-> moved(t.last)]
  OBVIOUS
<1>3. Delete(t, next) = r
  BY <1>1, <1>2 DEF Delete
<1>4. /\ t.panes \in Seq(Widgets) /\ Len(t.panes) \in Nat /\ Leaves(t) = 1 .. Len(t.panes)
      /\ t.focus \in 1 .. Len(t.panes) /\ next \in 1 .. Len(t.panes) /\ next # t.focus
      /\ t.code \in 0 .. Len(t.panes) /\ t.gdb \in 0 .. Len(t.panes)
      /\ t.asm \in 0 .. Len(t.panes) /\ t.last \in 0 .. Len(t.panes)
  BY LeavesOf DEF IsTree, Tree
<1>5. q \in Seq(Widgets) /\ Len(q) = Len(t.panes) - 1
  <2>1. PICK z : z = t.panes
    OBVIOUS
  <2>2. z \in Seq(Widgets) /\ t.focus \in 1 .. Len(z) /\ q = RemoveAt(z, t.focus)
    BY <1>1, <1>4, <2>1
  <2>3. RemoveAt(z, t.focus) \in Seq(Widgets) /\ Len(RemoveAt(z, t.focus)) = Len(z) - 1
    BY <2>2, RemovedAt
  <2> QED
    BY <2>1, <2>2, <2>3
<1>6. /\ \A leaf \in 0 .. Len(t.panes) : moved(leaf) \in 0 .. Len(q)
      /\ moved(next) \in 1 .. Len(q)
  <2>1. ASSUME NEW leaf \in 0 .. Len(t.panes)
        PROVE  /\ moved(leaf) \in 0 .. Len(q)
               /\ leaf \in 1 .. Len(t.panes) /\ leaf # t.focus => moved(leaf) \in 1 .. Len(q)
    <3>1. CASE leaf = t.focus
      BY <1>4, <1>5, <3>1 DEF Nil
    <3>2. CASE leaf > t.focus
      BY <1>4, <1>5, <3>2
    <3>3. CASE leaf < t.focus
      BY <1>4, <1>5, <3>3
    <3> QED
      BY <1>4, <3>1, <3>2, <3>3
  <2>2. next \in 0 .. Len(t.panes)
    BY <1>4
  <2> HIDE DEF moved
  <2> QED
    BY <1>4, <2>1, <2>2
<1> HIDE DEF moved
<1>7. /\ r.panes = q /\ r.focus = moved(next) /\ r.code = moved(t.code) /\ r.gdb = moved(t.gdb)
      /\ r.asm = moved(t.asm) /\ r.last = moved(t.last)
  BY <1>2
<1>8. /\ moved(t.code) \in 0 .. Len(q) /\ moved(t.gdb) \in 0 .. Len(q)
      /\ moved(t.asm) \in 0 .. Len(q) /\ moved(t.last) \in 0 .. Len(q)
      /\ moved(next) \in 1 .. Len(q) /\ Len(q) >= 1 /\ Len(q) \in Nat
  <2>1. /\ moved(t.code) \in 0 .. Len(q) /\ moved(t.gdb) \in 0 .. Len(q)
        /\ moved(t.asm) \in 0 .. Len(q) /\ moved(t.last) \in 0 .. Len(q)
        /\ moved(next) \in 1 .. Len(q)
    BY <1>4, <1>6
  <2>2. Len(q) >= 1 /\ Len(q) \in Nat
    BY <1>4, <1>5
  <2> QED
    BY <2>1, <2>2
<1>9. r \in Tree
  <2>1. /\ moved(t.code) \in Nat /\ moved(t.gdb) \in Nat
        /\ moved(t.asm) \in Nat /\ moved(t.last) \in Nat /\ moved(next) \in Nat
    BY <1>8
  <2> QED
    BY <1>2, <1>5, <2>1 DEF Tree
<1> QED
  BY <1>3, <1>5, <1>7, <1>8, <1>9 DEF IsTree

LEMMA FreshIs ==
    ASSUME NEW q \in Seq(Widgets), NEW l \in 1 .. Len(q), q[l] = "gdb"
    PROVE  LET r == Fresh(q)
           IN  IsTree(r) /\ r.panes = q /\ GdbShown(r)
<1> DEFINE CodeSet == {i \in 1 .. Len(q) : q[i] \in CodeSlots}
           GdbSet  == {i \in 1 .. Len(q) : q[i] = "gdb"}
<1>1. PICK c : c = IF CodeSet # {} THEN Min(CodeSet) ELSE 0
  OBVIOUS
<1>2. PICK g : g = IF GdbSet # {} THEN Min(GdbSet) ELSE 0
  OBVIOUS
<1>3. PICK r : r = [panes |-> q, focus |-> g, code |-> c, gdb |-> g, asm |-> 0, last |-> 0]
  OBVIOUS
<1>4. Fresh(q) = r
  BY <1>1, <1>2, <1>3 DEF Fresh, SelectInSeq, Nil
<1>5. Len(q) \in Nat
  OBVIOUS
<1>6. c \in 0 .. Len(q)
  <2>1. CASE CodeSet = {}
    BY <1>1, <1>5, <2>1
  <2>2. CASE CodeSet # {}
    <3>1. CodeSet \in SUBSET (1 .. Len(q))
      BY <1>5
    <3> HIDE DEF CodeSet
    <3>2. c \in CodeSet
      BY <1>1, <1>5, <2>2, <3>1, MinIsLeast
    <3> QED
      BY <1>5, <3>1, <3>2
  <2> QED
    BY <2>1, <2>2
<1>7. g \in 1 .. Len(q) /\ q[g] = "gdb"
  <2>1. GdbSet # {} /\ GdbSet \in SUBSET (1 .. Len(q))
    BY <1>5
  <2>2. Min(GdbSet) \in GdbSet
    <3> HIDE DEF GdbSet
    <3> QED
      BY <1>5, <2>1, MinIsLeast
  <2> QED
    BY <1>2, <2>1, <2>2
<1> HIDE DEF CodeSet, GdbSet
<1>8. r.panes = q /\ r.focus = g /\ r.code = c /\ r.gdb = g /\ r.asm = 0 /\ r.last = 0
  BY <1>3
<1>9. r \in Tree
  BY <1>3, <1>5, <1>6, <1>7 DEF Tree
<1>10. IsTree(r)
  BY <1>5, <1>6, <1>7, <1>8, <1>9 DEF IsTree
<1>11. GdbShown(r)
  BY <1>7, <1>8, <1>10, LeavesOf DEF GdbShown
<1> QED
  BY <1>4, <1>8, <1>10, <1>11

---------------------------------------------------------------------------
(* Placement: the steps *)

(* The part of the invariant that is not about the tree. *)
RestOK ==
    /\ jumps \in Seq(Widgets) /\ Len(jumps) <= JumpMax
    /\ prefer \in BOOLEAN /\ auto \in BOOLEAN
    /\ bufs \in [Files -> {"none", "source", "banner", "empty"}]
    /\ primary \in Files \cup {None} /\ current \in Files \cup {None}
    /\ lastText \in TextPanes \cup {None} /\ commands \in 0..MaxCommands

PlacementInv == IsTree(lay) /\ Len(lay.panes) <= MaxPanes /\ RestOK

LEMMA InvTypes == PlacementInv => PlacementTypeOK
<1> SUFFICES ASSUME PlacementInv PROVE PlacementTypeOK
  OBVIOUS
<1>1. /\ lay.panes \in Seq(Widgets) /\ Len(lay.panes) \in Nat /\ Len(lay.panes) >= 1
      /\ lay.focus \in Leaves(lay) /\ Len(lay.panes) <= MaxPanes
  BY LeavesOf DEF PlacementInv, IsTree, Tree
<1>2. Len(lay.panes) \in 1..MaxPanes
  BY <1>1, PlacementAssumption
<1>3. \A m \in {lay.code, lay.gdb, lay.asm, lay.last} : m \in 0..Len(lay.panes)
  BY DEF PlacementInv, IsTree
<1> QED
  BY <1>1, <1>2, <1>3 DEF PlacementInv, RestOK, PlacementTypeOK

(* What every step does to the tree. *)
Sourced(t) == \E leaf \in Leaves(t) : t.panes[leaf] \in SourceSlots

LayStep(t, r) ==
    /\ IsTree(r) /\ Len(r.panes) <= MaxPanes
    /\ Len(t.panes) <= Len(r.panes) /\ Sourced(t) /\ GdbShown(t) => GdbShown(r)

Keeps(t, r) == Alike(t, r) /\ (Located(t) => GdbKept(t, r))

LEMMA KeptStep ==
    ASSUME NEW t, IsTree(t), Len(t.panes) <= MaxPanes, NEW r, Keeps(t, r)
    PROVE  LayStep(t, r)
<1>1. Sourced(t) => Located(t)
  BY DEF Sourced, Located
<1>2. IsTree(r) /\ Len(r.panes) <= MaxPanes
  BY DEF Keeps, Alike
<1>3. Located(t) /\ GdbShown(t) => GdbShown(r)
  BY KeptIsShown DEF Keeps
<1> QED
  BY <1>1, <1>2, <1>3 DEF LayStep

LEMMA SameKeeps ==
    ASSUME NEW t, IsTree(t), NEW r, SamePanes(t, r)
    PROVE  Keeps(t, r)
<1>1. GdbKept(t, r)
  BY NothingReplaced, ReplacingKeepsGdb
<1> QED
  BY <1>1 DEF Keeps, GdbKept

LEMMA KeptKeeps ==
    ASSUME NEW t, NEW r, GdbKept(t, r)
    PROVE  Keeps(t, r)
  BY DEF Keeps, GdbKept

LEMMA PresentedKeeps ==
    ASSUME NEW t, IsTree(t), NEW r, Presents(t, r)
    PROVE  Keeps(t, r) /\ IsTree(r)
<1>1. GdbKept(t, r)
  BY ReplacingKeepsGdb DEF Presents
<1> QED
  BY <1>1 DEF Keeps, GdbKept, Alike

LEMMA LocatedThenFocused ==
    ASSUME NEW t, IsTree(t), NEW s, GdbKept(t, s), Located(t) => Located(s),
           NEW cw \in CodeWidgets \cup {None}, NEW p \in BOOLEAN
    PROVE  Keeps(t, FocusCode(s, cw, p)) /\ IsTree(FocusCode(s, cw, p))
<1>1. PICK r : r = FocusCode(s, cw, p)
  OBVIOUS
<1>2. IsTree(s) /\ Len(s.panes) = Len(t.panes)
  BY DEF GdbKept, Alike
<1>3. Alike(s, r) /\ (Located(s) => GdbKept(s, r))
  BY <1>1, <1>2, FocusCodeIs
<1>4. Alike(t, r)
  BY <1>2, <1>3 DEF Alike
<1>5. Located(t) => GdbKept(t, r)
  BY <1>3, KeptTwice
<1> QED
  BY <1>1, <1>4, <1>5 DEF Keeps, Alike

LEMMA PresentedThenFocused ==
    ASSUME NEW t, IsTree(t), NEW s, Presents(t, s),
           NEW cw \in CodeWidgets \cup {None}, NEW p \in BOOLEAN
    PROVE  Keeps(t, FocusCode(s, cw, p))
<1>1. GdbKept(t, s) /\ (Located(t) => Located(s))
  BY ReplacingKeepsGdb DEF Presents
<1> QED
  BY <1>1, LocatedThenFocused

LEMMA ActiveCodeType ==
    ASSUME NEW t, NEW bs, NEW prim \in Files \cup {None}, NEW cur \in Files \cup {None}
    PROVE  ActiveCode(t, bs, prim, cur) \subseteq CodeWidgets \cup {None}
<1>1. Files \subseteq CodeWidgets
  BY DEF CodeWidgets
<1>2. CASE Focused(t) \in CodeWidgets
  BY <1>2 DEF ActiveCode
<1>3. CASE Focused(t) \notin CodeWidgets /\ cur # None
  BY <1>1, <1>3 DEF ActiveCode
<1>4. CASE Focused(t) \notin CodeWidgets /\ cur = None
  <2>1. OneOf({f \in Files : bs[f] # "none"}) \subseteq Files \cup {None}
    BY DEF OneOf
  <2>2. ActiveCode(t, bs, prim, cur)
          = IF prim # None THEN {prim} ELSE OneOf({f \in Files : bs[f] # "none"})
    BY <1>4, Zenon DEF ActiveCode
  <2> QED
    BY <1>1, <2>1, <2>2
<1> QED
  BY <1>2, <1>3, <1>4

LEMMA FocusPaneStep ==
    ASSUME PlacementInv, NEW leaf, NEW mouse \in BOOLEAN, FocusPane(leaf, mouse)
    PROVE  LayStep(lay, lay') /\ RestOK'
<1>1. PICK s : s = FocusLeaf(lay, leaf)
  OBVIOUS
<1>2. IsTree(lay) /\ Len(lay.panes) <= MaxPanes /\ leaf \in 0 .. Len(lay.panes)
  BY LeavesOf DEF PlacementInv, FocusPane
<1>3. Alike(lay, s) /\ s.panes = lay.panes
  BY <1>1, <1>2, Focusing
<1>4. IsTree(s) /\ SamePanes(lay, s)
  BY <1>3 DEF Alike, SamePanes
<1>5. SamePanes(s, lay')
  BY <1>1, <1>4, Remembered DEF FocusPane
<1>6. LayStep(lay, lay')
  <2>1. SamePanes(lay, lay')
    BY <1>4, <1>5, SameTwice
  <2> QED
    BY <1>2, <2>1, SameKeeps, KeptStep
<1>7. lastText' \in TextPanes \cup {None}
  BY DEF FocusPane, NoteText, PlacementInv, RestOK
<1>8. UNCHANGED <<jumps, prefer, auto, bufs, primary, current, commands>>
  BY DEF FocusPane, buffers
<1> QED
  BY <1>6, <1>7, <1>8 DEF RestOK, PlacementInv

LEMMA EscapeStep ==
    ASSUME PlacementInv, Escape
    PROVE  LayStep(lay, lay') /\ RestOK'
<1>1. IsTree(lay) /\ Len(lay.panes) <= MaxPanes /\ lay.last \in 0 .. Len(lay.panes)
  BY DEF PlacementInv, IsTree
<1>2. CASE lay' = FocusLeaf(lay, lay.last)
  <2>1. SamePanes(lay, lay')
    BY <1>1, <1>2, Focusing DEF Alike, SamePanes
  <2>2. LayStep(lay, lay')
    BY <1>1, <2>1, SameKeeps, KeptStep
  <2> QED
    BY <2>2 DEF PlacementInv, RestOK, Escape, buffers
<1>3. CASE \E cw \in ActiveCode(lay, bufs, primary, current) : lay' = FocusCode(lay, cw, prefer)
  <2>1. PICK cw \in ActiveCode(lay, bufs, primary, current) : lay' = FocusCode(lay, cw, prefer)
    BY <1>3
  <2>2. cw \in CodeWidgets \cup {None} /\ prefer \in BOOLEAN
    BY ActiveCodeType DEF PlacementInv, RestOK
  <2>3. Keeps(lay, lay')
    BY <1>1, <2>1, <2>2, FocusCodeIs DEF Keeps
  <2>4. LayStep(lay, lay')
    BY <1>1, <2>3, KeptStep
  <2> QED
    BY <2>4 DEF PlacementInv, RestOK, Escape, buffers
<1> QED
  BY <1>2, <1>3 DEF Escape

LEMMA ShownStep ==
    ASSUME NEW t, IsTree(t), Len(t.panes) <= MaxPanes, NEW s, SamePanes(t, s)
    PROVE  LayStep(t, ActivateGdb(s))
<1>1. PICK r : r = ActivateGdb(s)
  OBVIOUS
<1>2. IsTree(s) /\ Len(s.panes) = Len(t.panes)
  BY DEF SamePanes
<1>3. Alike(s, r) /\ GdbShown(r)
  BY <1>1, <1>2, ActivateGdbIs DEF GdbShown
<1> QED
  BY <1>1, <1>2, <1>3 DEF Alike, LayStep

LEMMA InsertKeyStep ==
    ASSUME PlacementInv, InsertKey
    PROVE  LayStep(lay, lay') /\ RestOK'
<1>1. PICK back : back = FindLeaf(lay, {lastText})
  OBVIOUS
<1>2. IsTree(lay) /\ Len(lay.panes) <= MaxPanes /\ back \in 0 .. Len(lay.panes) /\ SamePanes(lay, lay)
  BY <1>1, FoundLeaf DEF PlacementInv, SamePanes
<1>3. PICK s : s = RememberFocus(lay)
  OBVIOUS
<1>4. SamePanes(lay, s)
  BY <1>2, <1>3, Remembered
<1>5. IsTree(s) /\ back \in 0 .. Len(s.panes)
  BY <1>2, <1>4 DEF SamePanes
<1>7. ASSUME lay' = FocusLeaf(s, back) PROVE LayStep(lay, lay')
  <2>1. SamePanes(s, lay')
    BY <1>5, <1>7, Focusing DEF Alike, SamePanes
  <2>2. SamePanes(lay, lay')
    BY <1>4, <2>1, SameTwice
  <2> QED
    BY <1>2, <2>2, SameKeeps, KeptStep
<1>8. ASSUME lay' = ActivateGdb(s) PROVE LayStep(lay, lay')
  BY <1>2, <1>4, <1>8, ShownStep
<1>9. LayStep(lay, lay')
  <2>1. lay' = lay \/ lay' = FocusLeaf(s, back) \/ lay' = ActivateGdb(s)
    BY <1>1, <1>3 DEF InsertKey
  <2>2. ASSUME lay' = lay PROVE LayStep(lay, lay')
    BY <1>2, <2>2, SameKeeps, KeptStep
  <2> QED
    BY <1>7, <1>8, <2>1, <2>2
<1>10. lastText' \in TextPanes \cup {None}
  BY DEF InsertKey, NoteText, PlacementInv, RestOK
<1> QED
  BY <1>9, <1>10 DEF RestOK, PlacementInv, InsertKey, buffers

LEMMA BufferGdbStep ==
    ASSUME PlacementInv, BufferGdb
    PROVE  LayStep(lay, lay') /\ RestOK'
<1>1. IsTree(lay) /\ Len(lay.panes) <= MaxPanes /\ SamePanes(lay, lay)
  BY DEF PlacementInv, SamePanes
<1>2. LayStep(lay, lay')
  BY <1>1, ShownStep DEF BufferGdb
<1> QED
  BY <1>2 DEF RestOK, PlacementInv, BufferGdb, buffers

LEMMA Bounds == MaxPanes \in Nat /\ MaxPanes >= 3
  BY PlacementAssumption

LEMMA PushedType ==
    ASSUME RestOK, NEW w \in Widgets
    PROVE  Pushed(w) \in Seq(Widgets) /\ Len(Pushed(w)) <= JumpMax
<1>1. jumps \in Seq(Widgets) /\ Len(jumps) \in Nat /\ Len(jumps) <= JumpMax /\ JumpMax \in Nat
  BY PlacementAssumption DEF RestOK
<1>2. PICK longer : longer = Append(jumps, w)
  OBVIOUS
<1>3. longer \in Seq(Widgets) /\ Len(longer) = Len(jumps) + 1 /\ longer # <<>>
  BY <1>1, <1>2
<1>4. PICK tail : tail = Tail(longer)
  OBVIOUS
<1>5. tail \in Seq(Widgets) /\ Len(tail) = Len(jumps)
  BY <1>1, <1>3, <1>4
<1>6. Pushed(w) = jumps \/ Pushed(w) = tail \/ (Pushed(w) = longer /\ ~ (Len(longer) > JumpMax))
  BY <1>2, <1>4 DEF Pushed
<1>7. ~ (Len(longer) > JumpMax) => Len(longer) <= JumpMax
  BY <1>1, <1>3
<1> QED
  BY <1>1, <1>3, <1>5, <1>6, <1>7

LEMMA SwappedKeeps ==
    ASSUME PlacementInv, NEW w \in Widgets, MaySwap(w)
    PROVE  Keeps(lay, Swapped(w)) /\ IsTree(Swapped(w))
<1>1. IsTree(lay) /\ lay.panes[lay.focus] = Focused(lay) /\ lay.focus # 0
  BY LeavesOf DEF PlacementInv, Focused
<1>2. Focused(lay) # "gdb" \/ w = "gdb"
  BY <1>1 DEF MaySwap, IsGdbLeaf, Shows, Nil
<1>3. PICK r : r = PutFocused(lay, w)
  OBVIOUS
<1>4. GdbKept(lay, r)
  BY <1>1, <1>2, <1>3, FocusReplaced
<1> QED
  BY <1>3, <1>4 DEF Swapped, Keeps, GdbKept, Alike

LEMMA CommandTypes ==
    ASSUME RestOK, Command PROVE commands' \in 0 .. MaxCommands
  BY PlacementAssumption DEF RestOK, Command

LEMMA BufferNameStep ==
    ASSUME PlacementInv, NEW w \in Others \cup Files, BufferName(w)
    PROVE  LayStep(lay, lay') /\ RestOK'
<1>1. IsTree(lay) /\ Len(lay.panes) <= MaxPanes /\ RestOK
  BY DEF PlacementInv
<1>2. w \in Widgets
  BY WidgetKinds
<1>3. Keeps(lay, lay')
  BY <1>2, SwappedKeeps DEF BufferName
<1>4. LayStep(lay, lay')
  BY <1>1, <1>3, KeptStep
<1>5. jumps' \in Seq(Widgets) /\ Len(jumps') <= JumpMax
  <2>1. Focused(lay) \in Widgets
    BY <1>1, LeavesOf
  <2> QED
    BY <1>1, <2>1, PushedType DEF BufferName
<1>6. commands' \in 0 .. MaxCommands
  BY <1>1, CommandTypes DEF BufferName
<1> QED
  BY <1>1, <1>4, <1>5, <1>6 DEF RestOK, BufferName, buffers

LEMMA LoadedType == \A f \in Files : Loaded(f) \in {"none", "source", "banner", "empty"}
  BY DEF Loaded

LEMMA EditFileStep ==
    ASSUME PlacementInv, NEW f \in Files, EditFile(f)
    PROVE  LayStep(lay, lay') /\ RestOK'
<1>1. IsTree(lay) /\ Len(lay.panes) <= MaxPanes /\ RestOK /\ SamePanes(lay, lay)
  BY DEF PlacementInv, SamePanes
<1>2. f \in Widgets
  BY WidgetKinds
<1>3. ASSUME MaySwap(f)
      PROVE  LayStep(lay, lay') /\ jumps' \in Seq(Widgets) /\ Len(jumps') <= JumpMax
  <2>1. PICK s : s = Swapped(f)
    OBVIOUS
  <2>2. Keeps(lay, s) /\ IsTree(s)
    BY <1>2, <1>3, <2>1, SwappedKeeps
  <2>3. PICK m : m = FindLeaf(s, {f})
    OBVIOUS
  <2>4. lay' = [s EXCEPT !.code = m]
    BY <1>3, <2>1, <2>3 DEF EditFile
  <2>5. m \in 0 .. Len(s.panes)
    BY <2>2, <2>3, FoundLeaf
  <2>6. SamePanes(s, lay')
    BY <2>2, <2>4, <2>5, CodeMarked DEF Marks, SamePanes
  <2>7. Keeps(lay, lay')
    <3>1. Alike(lay, lay')
      BY <2>2, <2>6 DEF Keeps, Alike, SamePanes
    <3> QED
      BY <2>2, <2>6, <3>1, ReplacedThenMarked DEF Keeps
  <2>8. Focused(lay) \in Widgets
    BY <1>1, LeavesOf
  <2>9. jumps' = Pushed(Focused(lay))
    BY <1>3 DEF EditFile
  <2> QED
    BY <1>1, <2>7, <2>8, <2>9, KeptStep, PushedType
<1>4. ASSUME ~MaySwap(f)
      PROVE  LayStep(lay, lay') /\ jumps' \in Seq(Widgets) /\ Len(jumps') <= JumpMax
  <2>1. lay' = lay /\ jumps' = jumps
    BY <1>4 DEF EditFile
  <2> QED
    BY <1>1, <2>1, SameKeeps, KeptStep DEF RestOK
<1>5. bufs' \in [Files -> {"none", "source", "banner", "empty"}]
  BY <1>1, LoadedType DEF EditFile, RestOK
<1>6. commands' \in 0 .. MaxCommands
  BY <1>1, CommandTypes DEF EditFile
<1>7. primary' \in Files \cup {None}
  BY DEF EditFile
<1> QED
  BY <1>1, <1>3, <1>4, <1>5, <1>6, <1>7 DEF RestOK, EditFile

LEMMA JumpBackStep ==
    ASSUME PlacementInv, JumpBack
    PROVE  LayStep(lay, lay') /\ RestOK'
<1>1. /\ IsTree(lay) /\ Len(lay.panes) <= MaxPanes /\ RestOK /\ SamePanes(lay, lay)
      /\ lay.focus \in Leaves(lay) /\ lay.focus # 0
  BY LeavesOf DEF PlacementInv, SamePanes
<1>2. PICK w : w = jumps[Len(jumps)]
  OBVIOUS
<1>3. /\ w # "gdb" => ~IsGdbLeaf(lay, lay.focus)
      /\ lay' = Put(lay, lay.focus, w)
  BY <1>2 DEF JumpBack
<1>4. jumps \in Seq(Widgets) /\ jumps # <<>> /\ Len(jumps) \in Nat /\ Len(jumps) > 0
  BY <1>1 DEF RestOK, JumpBack
<1>5. w \in Widgets
  BY <1>2, <1>4
<1>6. lay.panes[lay.focus] # "gdb" \/ w = "gdb"
  BY <1>1, <1>3 DEF IsGdbLeaf, Shows, Nil
<1>7. GdbKept(lay, lay')
  BY <1>1, <1>3, <1>5, <1>6, LeafReplaced
<1>8. LayStep(lay, lay')
  BY <1>1, <1>7, KeptKeeps, KeptStep
<1>9. jumps' \in Seq(Widgets) /\ Len(jumps') <= JumpMax
  <2>1. jumps' = SubSeq(jumps, 1, Len(jumps) - 1)
    BY DEF JumpBack
  <2>n. PICK n : n = Len(jumps) - 1
    OBVIOUS
  <2>m. n \in 0 .. Len(jumps) /\ jumps' = SubSeq(jumps, 1, n)
    BY <1>4, <2>1, <2>n
  <2>s. PICK q : q = SubSeq(jumps, 1, n)
    OBVIOUS
  <2>q. q \in Seq(Widgets) /\ Len(q) = n
    <3>1. jumps \in Seq(Widgets) /\ n \in 0 .. Len(jumps)
      BY <1>4, <2>m
    <3> QED
      BY <2>s, <3>1
  <2>2. jumps' \in Seq(Widgets) /\ Len(jumps') = Len(jumps) - 1
    BY <2>n, <2>m, <2>s, <2>q
  <2> QED
    BY <1>1, <1>4, <2>2, PlacementAssumption DEF RestOK
<1>10. commands' \in 0 .. MaxCommands
  BY <1>1, CommandTypes DEF JumpBack
<1> QED
  BY <1>1, <1>8, <1>9, <1>10 DEF RestOK, JumpBack, buffers

LEMMA BufferCodeStep ==
    ASSUME PlacementInv, NEW fromLua \in BOOLEAN, BufferCode(fromLua)
    PROVE  LayStep(lay, lay') /\ RestOK'
<1> DEFINE p == fromLua /\ prefer
           placed(cw) == IF cw = None THEN lay ELSE PlaceCode(lay, cw, p)
           prim(cw) == IF cw = None THEN primary ELSE cw
<1>1. IsTree(lay) /\ Len(lay.panes) <= MaxPanes /\ RestOK /\ SamePanes(lay, lay)
  BY DEF PlacementInv, SamePanes
<1>2. p \in BOOLEAN /\ (fromLua /\ auto) \in BOOLEAN
  OBVIOUS
<1>3. PICK cw \in CodeForB :
        /\ primary' = prim(cw)
        /\ IF cw = None /\ ~fromLua THEN UNCHANGED lay
           ELSE \E active \in ActiveCode(placed(cw), bufs, prim(cw), current) :
                   lay' = FocusCode(placed(cw), active, p)
  BY DEF BufferCode
<1>4. cw \in Files \cup {None}
  BY <1>1 DEF CodeForB, Opened, OneOf, RestOK
<1>5. prim(cw) \in Files \cup {None} /\ current \in Files \cup {None}
  BY <1>1, <1>4 DEF RestOK
<1>6. Presents(lay, placed(cw))
  <2>1. CASE cw = None
    BY <1>1, <2>1, NothingPresented
  <2>2. CASE cw # None
    <3>1. cw \in SourceSlots
      BY <1>4, <2>2, WidgetKinds
    <3> QED
      BY <1>1, <1>2, <2>2, <3>1, PlaceCodePresents
  <2> QED
    BY <2>1, <2>2
<1>7. LayStep(lay, lay')
  <2>1. CASE UNCHANGED lay
    BY <1>1, <2>1, SameKeeps, KeptStep
  <2>2. CASE \E active \in ActiveCode(placed(cw), bufs, prim(cw), current) :
                lay' = FocusCode(placed(cw), active, p)
    <3>1. PICK active \in ActiveCode(placed(cw), bufs, prim(cw), current) :
             lay' = FocusCode(placed(cw), active, p)
      BY <2>2
    <3> HIDE DEF p, placed, prim
    <3>2. active \in CodeWidgets \cup {None}
      BY <1>5, ActiveCodeType
    <3>3. Keeps(lay, lay')
      BY <1>1, <1>2, <1>6, <3>1, <3>2, PresentedThenFocused
    <3> QED
      BY <1>1, <3>3, KeptStep
  <2> QED
    BY <1>3, <2>1, <2>2
<1>8. primary' \in Files \cup {None}
  BY <1>3, <1>5
<1>9. prefer' \in BOOLEAN /\ auto' \in BOOLEAN
  BY <1>2 DEF BufferCode
<1> QED
  BY <1>1, <1>7, <1>8, <1>9 DEF RestOK, BufferCode

LEMMA BufferAsmStep ==
    ASSUME PlacementInv, BufferAsm
    PROVE  LayStep(lay, lay') /\ RestOK'
<1>1. IsTree(lay) /\ Len(lay.panes) <= MaxPanes /\ RestOK /\ lay.asm \in 0 .. Len(lay.panes)
  BY DEF PlacementInv, IsTree
<1>2. CASE HasSplit(lay)
  <2>1. lay' = FocusLeaf(lay, lay.asm) /\ UNCHANGED <<prefer, auto>>
    BY <1>2 DEF BufferAsm
  <2>2. SamePanes(lay, lay')
    BY <1>1, <2>1, Focusing DEF Alike, SamePanes
  <2>3. LayStep(lay, lay')
    BY <1>1, <2>2, SameKeeps, KeptStep
  <2> QED
    BY <1>1, <2>1, <2>3 DEF RestOK, BufferAsm, buffers
<1>3. CASE ~HasSplit(lay)
  <2>1. PICK placed : placed = PlaceAsm(lay, TRUE, FALSE)
    OBVIOUS
  <2>2. /\ prefer' = TRUE /\ auto' = FALSE
        /\ \E cw \in ActiveCode(placed, bufs, primary, current) : lay' = FocusCode(placed, cw, TRUE)
    BY <1>3, <2>1 DEF BufferAsm
  <2>3. PICK cw \in ActiveCode(placed, bufs, primary, current) : lay' = FocusCode(placed, cw, TRUE)
    BY <2>2
  <2>4. cw \in CodeWidgets \cup {None}
    BY <1>1, ActiveCodeType DEF RestOK
  <2>5. Presents(lay, placed)
    BY <1>1, <2>1, PlaceAsmPresents
  <2>6. Keeps(lay, lay')
    BY <1>1, <2>3, <2>4, <2>5, PresentedThenFocused
  <2>7. LayStep(lay, lay')
    BY <1>1, <2>6, KeptStep
  <2> QED
    BY <1>1, <2>2, <2>7 DEF RestOK, BufferAsm, buffers
<1> QED
  BY <1>2, <1>3

LEMMA GrownStep ==
    ASSUME NEW t, IsTree(t), NEW s, Keeps(t, s), IsTree(s), NEW r, IsTree(r), Len(r.panes) <= MaxPanes,
           GdbShown(s) => GdbShown(r)
    PROVE  LayStep(t, r)
<1>1. Sourced(t) /\ GdbShown(t) => GdbShown(s)
  BY KeptIsShown DEF Keeps, Sourced, Located
<1> QED
  BY <1>1 DEF LayStep

LEMMA SplitAsmStep ==
    ASSUME PlacementInv, SplitAsm
    PROVE  LayStep(lay, lay') /\ RestOK'
<1>1. IsTree(lay) /\ Len(lay.panes) <= MaxPanes /\ RestOK /\ lay.asm \in 0 .. Len(lay.panes)
  BY DEF PlacementInv, IsTree
<1>2. CASE HasSplit(lay)
  <2>1. lay' = FocusLeaf(lay, lay.asm) /\ UNCHANGED <<prefer, auto, commands>>
    BY <1>2 DEF SplitAsm
  <2>2. SamePanes(lay, lay')
    BY <1>1, <2>1, Focusing DEF Alike, SamePanes
  <2>3. LayStep(lay, lay')
    BY <1>1, <2>2, SameKeeps, KeptStep
  <2> QED
    BY <1>1, <2>1, <2>3 DEF RestOK, SplitAsm, buffers
<1>3. CASE ~HasSplit(lay)
  <2>1. /\ Command /\ Len(lay.panes) < MaxPanes /\ prefer' = FALSE /\ auto' = FALSE
        /\ \E cw \in IF CodeForB = {None} THEN {primary} ELSE CodeForB :
              \E active \in ActiveCode(Prepared(lay, cw), bufs, primary, current) :
                 lay' = AsmSplitOf(FocusCode(Prepared(lay, cw), active, FALSE))
    BY <1>3 DEF SplitAsm
  <2>2. PICK cw \in IF CodeForB = {None} THEN {primary} ELSE CodeForB :
           \E active \in ActiveCode(Prepared(lay, cw), bufs, primary, current) :
              lay' = AsmSplitOf(FocusCode(Prepared(lay, cw), active, FALSE))
    BY <2>1
  <2>3. PICK s : s = Prepared(lay, cw)
    OBVIOUS
  <2>4. PICK active \in ActiveCode(s, bufs, primary, current) :
           lay' = AsmSplitOf(FocusCode(s, active, FALSE))
    BY <2>2, <2>3
  <2>5. PICK u : u = FocusCode(s, active, FALSE)
    OBVIOUS
  <2>6. cw \in CodeWidgets \cup {None} /\ active \in CodeWidgets \cup {None}
    <3>1. primary \in Files \cup {None} /\ current \in Files \cup {None}
      BY <1>1 DEF RestOK
    <3>2. cw \in Files \cup {None}
      BY <3>1 DEF CodeForB, Opened, OneOf
    <3> QED
      BY <3>1, <3>2, ActiveCodeType DEF CodeWidgets
  <2>7. GdbKept(lay, s) /\ (Located(lay) => Located(s))
    BY <1>1, <2>3, <2>6, PreparedIs
  <2>8. Keeps(lay, u) /\ IsTree(u)
    BY <1>1, <2>5, <2>6, <2>7, LocatedThenFocused
  <2>9. /\ IsTree(lay') /\ (GdbShown(u) => GdbShown(lay'))
        /\ Len(lay'.panes) \in {Len(u.panes), Len(u.panes) + 1}
    BY <2>4, <2>5, <2>8, AsmSplitIs
  <2>10. Len(lay'.panes) <= MaxPanes
    <3>1. Len(u.panes) = Len(lay.panes) /\ Len(lay.panes) \in Nat
      BY <1>1, <2>8, LeavesOf DEF Keeps, Alike
    <3>2. PICK n : n = Len(lay.panes)
      OBVIOUS
    <3>3. Len(lay'.panes) \in {n, n + 1} /\ n \in Nat /\ n < MaxPanes
      BY <2>1, <2>9, <3>1, <3>2
    <3> QED
      BY <3>3, Bounds
  <2>11. LayStep(lay, lay')
    BY <1>1, <2>8, <2>9, <2>10, GrownStep
  <2>12. commands' \in 0 .. MaxCommands
    BY <1>1, <2>1, CommandTypes
  <2> QED
    BY <1>1, <2>1, <2>11, <2>12 DEF RestOK, SplitAsm, buffers
<1> QED
  BY <1>2, <1>3

LEMMA SplitPaneStep ==
    ASSUME PlacementInv, NEW w \in {"noname", "logger"}, SplitPane(w)
    PROVE  LayStep(lay, lay') /\ RestOK'
<1>1. /\ IsTree(lay) /\ RestOK /\ w \in Widgets /\ lay' = Split(lay, w)
      /\ Len(lay.panes) < MaxPanes /\ Len(lay.panes) \in Nat
  BY WidgetKinds, LeavesOf DEF PlacementInv, SplitPane
<1>2. IsTree(lay') /\ Len(lay'.panes) = Len(lay.panes) + 1 /\ (GdbShown(lay) => GdbShown(lay'))
  BY <1>1, SplitIs
<1>3. Len(lay'.panes) <= MaxPanes
  BY <1>1, <1>2, PlacementAssumption
<1>4. commands' \in 0 .. MaxCommands
  BY <1>1, CommandTypes DEF SplitPane
<1> QED
  BY <1>1, <1>2, <1>3, <1>4 DEF LayStep, RestOK, SplitPane, buffers

LEMMA ClosePaneStep ==
    ASSUME PlacementInv, NEW next, ClosePane(next)
    PROVE  LayStep(lay, lay') /\ RestOK'
<1>1. /\ IsTree(lay) /\ RestOK /\ lay' = Delete(lay, next) /\ next \in Leaves(lay) \ {lay.focus}
      /\ Len(lay.panes) <= MaxPanes /\ Len(lay.panes) \in Nat
  BY LeavesOf DEF PlacementInv, ClosePane
<1>2. IsTree(lay') /\ Len(lay'.panes) = Len(lay.panes) - 1
  BY <1>1, DeleteIs
<1>3. Len(lay'.panes) <= MaxPanes /\ ~ (Len(lay.panes) <= Len(lay'.panes))
  BY <1>1, <1>2, PlacementAssumption
<1>4. commands' \in 0 .. MaxCommands
  BY <1>1, CommandTypes DEF ClosePane
<1> QED
  BY <1>1, <1>2, <1>3, <1>4 DEF LayStep, RestOK, ClosePane, buffers

LEMMA OnlyFocusStep ==
    ASSUME PlacementInv, OnlyFocus
    PROVE  LayStep(lay, lay') /\ RestOK'
<1>1. PICK s : s = OnlyLeaf(lay)
  OBVIOUS
<1>2. /\ IsTree(lay) /\ RestOK /\ lay' = RememberFocus(s) /\ Len(lay.panes) > 1
      /\ Len(lay.panes) <= MaxPanes /\ Len(lay.panes) \in Nat
  BY <1>1, LeavesOf DEF PlacementInv, OnlyFocus
<1>3. IsTree(s) /\ Len(s.panes) = 1
  BY <1>1, <1>2, OnlyLeafIs
<1>4. IsTree(lay') /\ Len(lay'.panes) = 1
  BY <1>2, <1>3, Remembered DEF SamePanes
<1>5. Len(lay'.panes) <= MaxPanes /\ ~ (Len(lay.panes) <= Len(lay'.panes))
  BY <1>2, <1>4, PlacementAssumption
<1>6. commands' \in 0 .. MaxCommands
  BY <1>2, CommandTypes DEF OnlyFocus
<1> QED
  BY <1>2, <1>4, <1>5, <1>6 DEF LayStep, RestOK, OnlyFocus, buffers

LEMMA LayoutIs ==
    ASSUME NEW name \in {"classic", "default", "wide"}, NEW w \in Widgets
    PROVE  LET r == Fresh(Layout(name, w))
           IN  IsTree(r) /\ Len(r.panes) <= MaxPanes /\ GdbShown(r)
<1>1. "gdb" \in Widgets /\ "output" \in Widgets
  BY WidgetKinds
<1>2. PICK q : q = Layout(name, w)
  OBVIOUS
<1>3. q = <<w, "gdb">> \/ q = <<w, "gdb", "output">> \/ q = <<w, "output", "gdb">>
  BY <1>2 DEF Layout
<1>4. q \in Seq(Widgets) /\ Len(q) \in 2 .. 3 /\ \E l \in 1 .. Len(q) : q[l] = "gdb"
  <2>1. CASE q = <<w, "gdb">>
    BY <1>1, <2>1
  <2>2. CASE q = <<w, "gdb", "output">>
    BY <1>1, <2>2
  <2>3. CASE q = <<w, "output", "gdb">>
    <3>1. q \in Seq(Widgets)
      BY <1>1, <2>3
    <3>2. Len(q) = 3 /\ q[3] = "gdb" /\ 3 \in 1 .. 3
      BY <2>3
    <3> QED
      BY <3>1, <3>2
  <2> QED
    BY <1>3, <2>1, <2>2, <2>3
<1>5. PICK r : r = Fresh(q)
  OBVIOUS
<1>6. IsTree(r) /\ r.panes = q /\ GdbShown(r)
  BY <1>4, <1>5, FreshIs
<1>7. Len(q) <= MaxPanes
  <2>1. PICK n : n = Len(q)
    OBVIOUS
  <2>2. n \in 2 .. 3
    BY <1>4, <2>1
  <2> QED
    BY <2>1, <2>2, Bounds
<1> QED
  BY <1>2, <1>5, <1>6, <1>7

LEMMA ApplyLayoutStep ==
    ASSUME PlacementInv, NEW name \in {"classic", "default", "wide"}, ApplyLayout(name)
    PROVE  LayStep(lay, lay') /\ RestOK'
<1>1. RestOK /\ primary \in Files \cup {None} /\ current \in Files \cup {None}
  BY DEF PlacementInv, RestOK
<1>2. LayoutCode \in Widgets
  BY <1>1, WidgetKinds DEF LayoutCode
<1>3. IsTree(lay') /\ Len(lay'.panes) <= MaxPanes /\ GdbShown(lay')
  <2>1. PICK w : w = LayoutCode
    OBVIOUS
  <2>2. w \in Widgets /\ lay' = Fresh(Layout(name, w))
    BY <1>2, <2>1 DEF ApplyLayout
  <2> QED
    BY <2>2, LayoutIs
<1>4. commands' \in 0 .. MaxCommands
  BY <1>1, CommandTypes DEF ApplyLayout
<1> QED
  BY <1>1, <1>3, <1>4 DEF LayStep, RestOK, ApplyLayout, buffers

LEMMA PresentedIs ==
    ASSUME PlacementInv, NEW f \in Files \cup {None}
    PROVE  Presents(lay, Presented(f))
<1>1. IsTree(lay) /\ prefer \in BOOLEAN /\ TRUE \in BOOLEAN /\ FALSE \in BOOLEAN
  BY DEF PlacementInv, RestOK
<1>2. f # None => f \in SourceSlots
  BY WidgetKinds
<1>3. f \in Readable => f # None
  BY PlacementAssumption DEF None
<1>4. Presents(lay, lay) /\ Presents(lay, PlaceAsm(lay, TRUE, FALSE)) /\ Presents(lay, PlaceAsm(lay, FALSE, TRUE))
  BY <1>1, NothingPresented, PlaceAsmPresents
<1>5. f # None => Presents(lay, PlaceCode(lay, f, prefer)) /\ Presents(lay, PlaceCode(lay, f, FALSE))
  BY <1>1, <1>2, PlaceCodePresents
<1>6. \/ Presented(f) = lay
      \/ f # None /\ Presented(f) = PlaceCode(lay, f, prefer)
      \/ f # None /\ Presented(f) = PlaceCode(lay, f, FALSE)
      \/ Presented(f) = PlaceAsm(lay, TRUE, FALSE)
      \/ Presented(f) = PlaceAsm(lay, FALSE, TRUE)
  <2>1. CASE HasSplit(lay)
    BY <1>3, <2>1 DEF Presented
  <2>2. CASE ~HasSplit(lay) /\ prefer
    BY <2>2 DEF Presented
  <2>3. CASE ~HasSplit(lay) /\ ~prefer
    BY <2>3 DEF Presented
  <2> QED
    BY <2>1, <2>2, <2>3
<1> QED
  BY <1>4, <1>5, <1>6

LEMMA PresentStep ==
    ASSUME PlacementInv, NEW f \in Files \cup {None}, NEW named \in BOOLEAN, NEW focus \in BOOLEAN,
           Present(f, named, focus)
    PROVE  LayStep(lay, lay') /\ RestOK'
<1>1. IsTree(lay) /\ Len(lay.panes) <= MaxPanes /\ RestOK
  BY DEF PlacementInv
<1>2. PICK s : s = Presented(f)
  OBVIOUS
<1>3. Presents(lay, s)
  BY <1>2, PresentedIs
<1>4. primary' \in Files \cup {None} /\ current' \in Files \cup {None}
  BY <1>1 DEF Present, RestOK
<1>5. bufs' \in [Files -> {"none", "source", "banner", "empty"}]
  BY <1>1, LoadedType DEF Present, RestOK
<1>6. auto' \in BOOLEAN
  BY <1>1 DEF Present, RestOK
<1>7. Keeps(lay, lay')
  <2>1. CASE focus
    <3>1. PICK cw \in ActiveCode(s, bufs', primary', current') : lay' = FocusCode(s, cw, prefer)
      BY <1>2, <2>1 DEF Present
    <3>2. cw \in CodeWidgets \cup {None}
      BY <1>4, ActiveCodeType
    <3>3. prefer \in BOOLEAN
      BY <1>1 DEF RestOK
    <3> QED
      BY <1>1, <1>3, <3>1, <3>2, <3>3, PresentedThenFocused
  <2>2. CASE ~focus
    <3>1. lay' = s
      BY <1>2, <2>2 DEF Present
    <3> QED
      BY <1>1, <1>3, <3>1, PresentedKeeps
  <2> QED
    BY <2>1, <2>2
<1>8. LayStep(lay, lay')
  BY <1>1, <1>7, KeptStep
<1>9. UNCHANGED <<jumps, prefer, lastText, commands>>
  BY DEF Present
<1> QED
  BY <1>1, <1>4, <1>5, <1>6, <1>8, <1>9 DEF RestOK

LEMMA ActivateAddressStep ==
    ASSUME PlacementInv, ActivateAddress
    PROVE  LayStep(lay, lay') /\ RestOK' /\ \E s : Presents(lay, s) /\ SamePanes(s, lay')
<1>1. IsTree(lay) /\ Len(lay.panes) <= MaxPanes /\ RestOK /\ prefer \in BOOLEAN
  BY DEF PlacementInv, RestOK
<1>2. auto' \in BOOLEAN
  BY <1>1 DEF ActivateAddress, RestOK
<1>3. PICK s : s = PlaceAsm(lay, prefer, auto')
  OBVIOUS
<1>4. Presents(lay, s)
  BY <1>1, <1>2, <1>3, PlaceAsmPresents
<1>5. Keeps(lay, s) /\ IsTree(s)
  BY <1>1, <1>4, PresentedKeeps
<1>6. lay' = IF HasSplit(s) THEN FocusLeaf(s, s.asm) ELSE s
  BY <1>3 DEF ActivateAddress
<1>7. SamePanes(s, lay')
  <2>1. s.asm \in 0 .. Len(s.panes)
    BY <1>5 DEF IsTree
  <2> QED
    BY <1>5, <1>6, <2>1, Focusing DEF Alike, SamePanes
<1>8. Keeps(lay, lay')
  <2>1. Alike(lay, lay')
    BY <1>5, <1>7 DEF Keeps, Alike, SamePanes
  <2> QED
    BY <1>5, <1>7, <2>1, ReplacedThenMarked DEF Keeps
<1>9. LayStep(lay, lay')
  BY <1>1, <1>8, KeptStep
<1>10. UNCHANGED <<jumps, prefer, bufs, primary, current, lastText, commands>>
  BY DEF ActivateAddress, buffers
<1> QED
  BY <1>1, <1>2, <1>4, <1>7, <1>9, <1>10 DEF RestOK

LEMMA RefreshAsmStep ==
    ASSUME PlacementInv, RefreshAsm
    PROVE  LayStep(lay, lay') /\ RestOK' /\ Presents(lay, lay')
<1>1. IsTree(lay) /\ Len(lay.panes) <= MaxPanes /\ RestOK /\ prefer \in BOOLEAN /\ auto \in BOOLEAN
  BY DEF PlacementInv, RestOK
<1>2. Presents(lay, lay')
  BY <1>1, PlaceAsmPresents DEF RefreshAsm
<1>3. LayStep(lay, lay')
  BY <1>1, <1>2, PresentedKeeps, KeptStep
<1> QED
  BY <1>1, <1>2, <1>3 DEF RestOK, RefreshAsm, buffers

LEMMA ExitStep ==
    ASSUME PlacementInv, Exit
    PROVE  LayStep(lay, lay') /\ RestOK'
<1>1. IsTree(lay) /\ Len(lay.panes) <= MaxPanes /\ RestOK
  BY DEF PlacementInv
<1>2. GdbKept(lay, lay')
  BY <1>1, PlaceLogoIs DEF Exit
<1>3. LayStep(lay, lay')
  BY <1>1, <1>2, KeptKeeps, KeptStep
<1>4. bufs' \in [Files -> {"none", "source", "banner", "empty"}]
  BY DEF Exit
<1>5. primary' = None /\ current' = None
  BY DEF Exit
<1> QED
  BY <1>1, <1>3, <1>4, <1>5 DEF RestOK, Exit

LEMMA StillStep ==
    ASSUME PlacementInv, UNCHANGED placementVars
    PROVE  LayStep(lay, lay') /\ RestOK'
<1>1. /\ UNCHANGED <<lay, jumps, prefer, auto, bufs, primary, current, lastText, commands>>
      /\ IsTree(lay) /\ Len(lay.panes) <= MaxPanes /\ RestOK
  BY DEF placementVars, buffers, PlacementInv
<1>2. LayStep(lay, lay')
  <2>1. SamePanes(lay, lay)
    BY <1>1 DEF SamePanes
  <2> QED
    BY <1>1, <2>1, SameKeeps, KeptStep
<1> QED
  BY <1>1, <1>2 DEF RestOK

LEMMA StepKeeps ==
    ASSUME PlacementInv, [PlacementNext]_placementVars
    PROVE  PlacementInv' /\ LayStep(lay, lay')
<1> SUFFICES LayStep(lay, lay') /\ RestOK'
  BY DEF PlacementInv, LayStep
<1>1. ASSUME NEW leaf \in 1..MaxPanes, NEW mouse \in BOOLEAN, FocusPane(leaf, mouse)
      PROVE  LayStep(lay, lay') /\ RestOK'
  BY <1>1, FocusPaneStep
<1>2. CASE Escape
  BY <1>2, EscapeStep
<1>3. CASE InsertKey
  BY <1>3, InsertKeyStep
<1>4. CASE BufferGdb
  BY <1>4, BufferGdbStep
<1>5. ASSUME NEW w \in Others \cup Files, BufferName(w) PROVE LayStep(lay, lay') /\ RestOK'
  BY <1>5, BufferNameStep
<1>6. ASSUME NEW f \in Files, EditFile(f) PROVE LayStep(lay, lay') /\ RestOK'
  BY <1>6, EditFileStep
<1>7. CASE JumpBack
  BY <1>7, JumpBackStep
<1>8. ASSUME NEW fromLua \in BOOLEAN, BufferCode(fromLua) PROVE LayStep(lay, lay') /\ RestOK'
  BY <1>8, BufferCodeStep
<1>9. CASE BufferAsm
  BY <1>9, BufferAsmStep
<1>10. CASE SplitAsm
  BY <1>10, SplitAsmStep
<1>11. ASSUME NEW w \in {"noname", "logger"}, SplitPane(w) PROVE LayStep(lay, lay') /\ RestOK'
  BY <1>11, SplitPaneStep
<1>12. ASSUME NEW next \in 1..MaxPanes, ClosePane(next) PROVE LayStep(lay, lay') /\ RestOK'
  BY <1>12, ClosePaneStep
<1>13. CASE OnlyFocus
  BY <1>13, OnlyFocusStep
<1>14. ASSUME NEW name \in {"classic", "default", "wide"}, ApplyLayout(name)
       PROVE  LayStep(lay, lay') /\ RestOK'
  BY <1>14, ApplyLayoutStep
<1>15. CASE Show
  <2>1. ASSUME NEW f \in Files \cup {None}, NEW named \in BOOLEAN, NEW focus \in BOOLEAN,
               Present(f, named, focus)
        PROVE  LayStep(lay, lay') /\ RestOK'
    BY <2>1, PresentStep
  <2> QED
    BY <1>15, <2>1, ActivateAddressStep, RefreshAsmStep DEF Show
<1>16. CASE Exit
  BY <1>16, ExitStep
<1>17. CASE UNCHANGED placementVars
  BY <1>17, StillStep
<1> QED
  BY <1>1, <1>2, <1>3, <1>4, <1>5, <1>6, <1>7, <1>8, <1>9, <1>10, <1>11, <1>12, <1>13, <1>14,
     <1>15, <1>16, <1>17 DEF PlacementNext

LEMMA InvInit == ASSUME PlacementInit PROVE PlacementInv
<1>1. "logo" \in Widgets
  BY WidgetKinds
<1>2. IsTree(lay) /\ Len(lay.panes) <= MaxPanes
  <2>1. PICK name : name = "wide"
    OBVIOUS
  <2>2. PICK w : w = "logo"
    OBVIOUS
  <2>3. name \in {"classic", "default", "wide"} /\ w \in Widgets /\ lay = Fresh(Layout(name, w))
    BY <1>1, <2>1, <2>2 DEF PlacementInit
  <2> QED
    BY <2>3, LayoutIs
<1>3. JumpMax \in Nat /\ MaxCommands \in Nat
  BY PlacementAssumption
<1>4. jumps \in Seq(Widgets) /\ Len(jumps) <= JumpMax
  <2>1. jumps = <<>>
    BY DEF PlacementInit
  <2>2. jumps \in Seq(Widgets) /\ Len(jumps) = 0
    BY <2>1
  <2> QED
    BY <1>3, <2>2
<1>5. RestOK
  <2>1. bufs \in [Files -> {"none", "source", "banner", "empty"}]
    BY DEF PlacementInit
  <2>2. commands \in 0..MaxCommands
    BY <1>3 DEF PlacementInit
  <2>3. /\ prefer \in BOOLEAN /\ auto \in BOOLEAN /\ lastText \in TextPanes \cup {None}
        /\ primary \in Files \cup {None} /\ current \in Files \cup {None}
    BY DEF PlacementInit
  <2> QED
    BY <1>4, <2>1, <2>2, <2>3 DEF RestOK
<1> QED
  BY <1>2, <1>5 DEF PlacementInv

LEMMA InvHolds == PlacementSpec => []PlacementInv
<1>1. PlacementInit => PlacementInv
  BY InvInit
<1>2. PlacementInv /\ [PlacementNext]_placementVars => PlacementInv'
  BY StepKeeps
<1> QED
  BY <1>1, <1>2, PTL DEF PlacementSpec

(* Every pane shows a widget, the focus and the marks are leaves of the     *)
(* tree, and the jumps, the buffers and the panes stay within their bounds: *)
(* what a split, a closed pane or a new layout leaves of the LayoutShell.   *)
THEOREM PlacementTypes == PlacementSpec => []PlacementTypeOK
  BY InvHolds, InvTypes, PTL

(* While a leaf shows source, no command and no stop takes the last GDB     *)
(* console away: the guards of SwapBuffer and FocusCode's fallback hold.    *)
THEOREM ConsoleIsKept == PlacementSpec => ConsoleStays
<1>1. ASSUME PlacementInv, [PlacementNext]_placementVars
      PROVE  [ Len(lay.panes) <= Len(lay'.panes) /\ FindLeaf(lay, SourceSlots) # Nil
                 /\ FindLeaf(lay, {"gdb"}) # Nil
                   => FindLeaf(lay', {"gdb"}) # Nil ]_placementVars
  <2>1. LayStep(lay, lay') /\ IsTree(lay)
    BY <1>1, StepKeeps DEF PlacementInv
  <2>2. /\ FindLeaf(lay, SourceSlots) # Nil => Sourced(lay)
        /\ FindLeaf(lay, {"gdb"}) # Nil => GdbShown(lay)
    BY <2>1, FoundLeaf DEF Sourced, GdbShown
  <2>3. IsTree(lay')
    BY <2>1 DEF LayStep
  <2>4. GdbShown(lay') => FindLeaf(lay', {"gdb"}) # Nil
    BY <2>3, FoundLeaf DEF GdbShown
  <2> QED
    BY <2>1, <2>2, <2>4 DEF LayStep
<1> QED
  BY <1>1, InvHolds, PTL DEF PlacementSpec, ConsoleStays

LEMMA ShowOnlyPresents ==
    ASSUME PlacementInv, ShowOnly
    PROVE  Replaces(lay, lay') /\ SplitKept(lay, lay')
<1>1. ASSUME NEW f \in Files \cup {None}, NEW named \in BOOLEAN, Present(f, named, FALSE)
      PROVE  Presents(lay, lay')
  BY <1>1, PresentedIs DEF Present
<1>2. ASSUME ActivateAddress PROVE Replaces(lay, lay') /\ SplitKept(lay, lay')
  <2>1. PICK s : Presents(lay, s) /\ SamePanes(s, lay')
    BY <1>2, ActivateAddressStep
  <2>2. Replaces(lay, lay')
    BY <2>1, ReplacedThenMarked DEF Presents
  <2> QED
    BY <2>1, <2>2 DEF Presents, SamePanes, SplitKept
<1>3. ASSUME RefreshAsm PROVE Presents(lay, lay')
  BY <1>3, RefreshAsmStep
<1> QED
  BY <1>1, <1>2, <1>3 DEF ShowOnly, Presents

(* presentLocation and a late disassembly change only leaves that showed    *)
(* Code, the logo or Assembly, and the leaf marked asm.                     *)
THEOREM NoPaneIsStolen == PlacementSpec => StopsStealNoPane
<1>1. ASSUME PlacementInv PROVE [Taken # {} => ~ShowOnly]_placementVars
  <2>1. ASSUME ShowOnly PROVE Taken = {}
    BY <1>1, <2>1, ShowOnlyPresents DEF Replaces, Taken
  <2> QED
    BY <2>1
<1> QED
  BY <1>1, InvHolds, PTL DEF StopsStealNoPane

(* A dedicated Assembly leaf survives every stop, frame and disassembly     *)
(* while the code leaf shows source.                                        *)
THEOREM SplitIsKept == PlacementSpec => SplitSurvives
<1>1. ASSUME PlacementInv PROVE [SplitLost => ~ShowOnly]_placementVars
  <2>1. ASSUME ShowOnly, SplitLost PROVE FALSE
    <3>1. SplitKept(lay, lay')
      BY <1>1, <2>1, ShowOnlyPresents
    <3>2. lay.asm # Nil
      BY <2>1 DEF SplitLost, HasSplit, Shows
    <3> QED
      BY <2>1, <3>1, <3>2 DEF SplitLost, SplitKept, Shows
  <2> QED
    BY <2>1
<1> QED
  BY <1>1, InvHolds, PTL DEF SplitSurvives
=============================================================================
