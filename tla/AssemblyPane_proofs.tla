------------------------ MODULE AssemblyPane_proofs ------------------------
(***************************************************************************)
(* Proofs about AssemblyPane, for any memory, any functions, any number of *)
(* refreshes at once, of stops, of faults and of acts of the user: the     *)
(* guard of the fetch comes down, and the mark of $pc is the program's.    *)
(***************************************************************************)
EXTENDS AssemblyPane, SequenceTheorems, TLAPS

(***************************************************************************)
(* The widget: moving the caret and the view leaves the rest alone.        *)
(***************************************************************************)
Widget(p)  == {"items", "pc", "fetching", "sel", "func", "ctx", "top", "dir", "keep", "h"} = DOMAIN p
Moved(p, q) == /\ DOMAIN q = DOMAIN p /\ Widget(q)
               /\ q.items = p.items /\ q.pc = p.pc /\ q.fetching = p.fetching

LEMMA Movings ==
    ASSUME NEW p, Widget(p)
    PROVE  /\ Moved(p, EnsureCursorVisible(p))
           /\ Moved(p, EnsureEndsVisible(p))
           /\ Moved(p, RevealSel(p))
           /\ \A fr : Moved(p, paintStackContext(p, fr))
           /\ \A i : Moved(p, [p EXCEPT !.sel = i])
           /\ \A d, k : Moved(p, [p EXCEPT !.dir = d, !.keep = k])
           /\ \A h : Moved(p, [p EXCEPT !.keep = -1, !.dir = 0, !.h = h])
<1>1. Moved(p, EnsureCursorVisible(p))
  BY DEF Moved, Widget, EnsureCursorVisible
<1>2. Moved(p, EnsureEndsVisible(p))
  <2>1. \A t : Moved(p, [p EXCEPT !.top = t])
    BY DEF Moved, Widget
  <2> QED
    BY <2>1 DEF EnsureEndsVisible
<1>3. Moved(p, RevealSel(p))
  <2>1. \A t : Moved(p, [p EXCEPT !.top = t]) /\ Moved(p, [p EXCEPT !.top = t, !.keep = -1, !.dir = 0])
    BY DEF Moved, Widget
  <2> QED
    BY <2>1, <1>1 DEF RevealSel
<1>4. \A fr : Moved(p, paintStackContext(p, fr))
  BY DEF Moved, Widget, paintStackContext
<1> QED
  BY <1>1, <1>2, <1>3, <1>4 DEF Moved, Widget

LEMMA MovedTwice ==
    ASSUME NEW p, NEW q, NEW r, Widget(p), Moved(p, q), Moved(q, r)
    PROVE  Moved(p, r) /\ Widget(q) /\ Widget(r)
BY DEF Moved, Widget

(* An answer takes the guard down and brings its own $pc, an error only
   takes it down. *)
Replaced(q, pc) == Widget(q) /\ q.fetching = FALSE /\ q.pc = pc

LEMMA Answered ==
    ASSUME NEW p, NEW items, NEW pc, NEW sel, NEW func, Widget(p)
    PROVE  Replaced(SetItems(p, items, pc, sel, func), pc)
<1> DEFINE q == SetItems(p, items, pc, sel, func)
<1>1. PICK i : q = RevealSel([p EXCEPT !.items = items, !.pc = pc, !.func = func,
                                       !.fetching = FALSE, !.sel = i])
  BY DEF SetItems
<1> DEFINE s == [p EXCEPT !.items = items, !.pc = pc, !.func = func,
                          !.fetching = FALSE, !.sel = i]
<1>2. Widget(s) /\ s.fetching = FALSE /\ s.pc = pc
  BY DEF Widget
<1>3. Widget(q) /\ q.fetching = FALSE /\ q.pc = pc
  <2> HIDE DEF s
  <2>1. q = RevealSel(s)
    BY <1>1 DEF s
  <2> HIDE DEF q
  <2>2. Moved(s, q)
    BY <2>1, <1>2, Movings
  <2> QED
    BY <2>2, <1>2 DEF Moved, Widget
<1> QED
  BY <1>3 DEF Replaced

LEMMA Refused ==
    ASSUME NEW p, Widget(p)
    PROVE  Widget(ClearFetchAck(p)) /\ ClearFetchAck(p).fetching = FALSE
BY DEF ClearFetchAck, Widget

(***************************************************************************)
(* The invariant.  What a goroutine or a message says of the last stop is  *)
(* true, whatever else it carries.                                         *)
(***************************************************************************)
JobFields == {"step", "center", "rows", "reset", "hint", "dir", "keep", "pc", "at"}
OfItsStop(x, g) == x.at \in Nat /\ x.at <= g.stops /\ (x.at = g.stops => x.pc = g.pc)

JobOK(j, g) == \/ j = NoJob
               \/ /\ DOMAIN j = JobFields /\ j.step \in {"ask", "have"}
                  /\ j.step = "have" => OfItsStop(j, g)
Sound(m, g) == ~m.err => OfItsStop(m, g)

GdbOK    == DOMAIN gdb = {"stopped", "pc", "stops"} /\ gdb.stops \in Nat
SpentOK  == DOMAIN spent = {"user", "draws", "faults", "lost"}
PaneOK   == Widget(pane)
JobsOK   == DOMAIN jobs = Slots /\ \A s \in Slots : JobOK(jobs[s], gdb)
EventsOK == \E S : events \in Seq(S) /\ \A m \in S : Sound(m, gdb)
Fresh    == Idle /\ ~unseen /\ shown /\ ~spoiled /\ pane.items # <<>> => pane.pc = gdb.pc

Shape == GdbOK /\ SpentOK /\ PaneOK /\ JobsOK /\ EventsOK
IInv  == Shape /\ GuardIsAnswered /\ Fresh

LEMMA InitIInv == Init => IInv
<1> SUFFICES ASSUME Init PROVE IInv
  OBVIOUS
<1>1. GdbOK /\ SpentOK /\ PaneOK /\ pane.fetching = FALSE /\ pane.items = <<>>
  <2>1. GdbOK
    BY DEF Init, GdbOK
  <2>2. SpentOK
    BY DEF Init, SpentOK
  <2>3. PaneOK /\ pane.fetching = FALSE /\ pane.items = <<>>
    BY DEF Init, PaneOK, Widget
  <2> QED
    BY <2>1, <2>2, <2>3
<1>2. JobsOK
  BY DEF Init, JobsOK, JobOK
<1>3. EventsOK
  <2>1. events \in Seq({}) /\ \A m \in {} : Sound(m, gdb)
    BY DEF Init
  <2> QED
    BY <2>1 DEF EventsOK
<1> QED
  BY <1>1, <1>2, <1>3 DEF IInv, Shape, GuardIsAnswered, Fresh

(* A refresh that starts is under way. *)
LEMMA NewJobs ==
    ASSUME NEW g, NEW c, NEW r, NEW b, NEW f, NEW d, NEW k
    PROVE  JobOK(Job(c, r, b, f, d, k), g) /\ Job(c, r, b, f, d, k) # NoJob
<1>1. Job(c, r, b, f, d, k).step = "ask" /\ DOMAIN Job(c, r, b, f, d, k) = JobFields
  BY DEF Job, JobFields
<1> QED
  BY <1>1 DEF JobOK, NoJob

LEMMA Started ==
    ASSUME JobsOK, NEW job, JobOK(job, gdb), job # NoJob, Start(job), UNCHANGED gdb
    PROVE  JobsOK' /\ ~Idle'
<1>1. PICK s \in Free : jobs' = [jobs EXCEPT ![s] = job]
  BY DEF Start
<1>2. s \in Slots /\ DOMAIN jobs = Slots
  BY <1>1 DEF Free, JobsOK
<1>3. jobs'[s] = job /\ DOMAIN jobs' = Slots
  BY <1>1, <1>2
<1>4. \A t \in Slots : jobs'[t] = job \/ jobs'[t] = jobs[t]
  BY <1>1, <1>2
<1> QED
  BY <1>2, <1>3, <1>4 DEF JobsOK, Idle

(* The fetch of a slide: the guard goes up with a goroutine, or nothing is
   started. *)
LEMMA Browsed ==
    ASSUME JobsOK, PaneOK, UNCHANGED gdb, NEW p, Moved(pane, p), Widget(p), NEW rows,
           requestBrowse(p, rows)
    PROVE  /\ PaneOK' /\ JobsOK'
           /\ ~Idle' \/ (UNCHANGED jobs /\ Moved(pane, pane'))
<1>1. CASE p.fetching \/ CompleteDump(p) \/ p.items = <<>>
  <2>1. pane' = p /\ jobs' = jobs
    BY <1>1 DEF requestBrowse
  <2> QED
    BY <2>1 DEF PaneOK, JobsOK, Moved
<1>2. CASE ~(p.fetching \/ CompleteDump(p) \/ p.items = <<>>)
  <2>1. /\ pane' = [p EXCEPT !.fetching = TRUE]
        /\ Start(Job(SelAddr(p), Rows(rows), FALSE, p.func, p.dir, p.keep))
    BY <1>2 DEF requestBrowse
  <2>2. PaneOK'
    BY <2>1 DEF PaneOK, Widget
  <2> QED
    BY <2>1, <2>2, NewJobs, Started
<1> QED
  BY <1>1, <1>2

(* A step of the pane that starts a refresh, or leaves the refreshes and
   what the widget shows alone, preserves the rest. *)
LEMMA Preserved ==
    ASSUME IInv, SpentOK', PaneOK', JobsOK', UNCHANGED <<gdb, events, spoiled>>,
           spent.lost => spent'.lost,
           \/ ~Idle'
           \/ UNCHANGED <<jobs, unseen>> /\ Moved(pane, pane') /\ (shown' => shown)
    PROVE  IInv'
<1>1. GdbOK' /\ EventsOK'
  BY DEF IInv, Shape, GdbOK, EventsOK
<1>2. GuardIsAnswered'
  BY DEF IInv, GuardIsAnswered, Idle, Moved
<1>3. Fresh'
  BY DEF IInv, Shape, PaneOK, Fresh, Idle, Moved
<1> QED
  BY <1>1, <1>2, <1>3 DEF IInv, Shape

(***************************************************************************)
(* The user.                                                               *)
(***************************************************************************)
LEMMA UserSpends ==
    ASSUME SpentOK, User
    PROVE  SpentOK' /\ spent'.lost = spent.lost
BY DEF SpentOK, User

LEMMA StepBrowse == ASSUME IInv, Browse PROVE IInv'
<1> USE DEF IInv, Shape
<1>1. ASSUME NEW delta \in Keys, MoveSel(delta) PROVE IInv'
  <2> DEFINE next == pane.sel + delta
             last == Len(pane.items) - 1
             p    == EnsureCursorVisible([pane EXCEPT !.sel = AtLeast(0, AtMost(last, next))])
             q    == [p EXCEPT !.dir = IF delta < 0 THEN -1 ELSE 1, !.keep = AtLeast(0, ScreenRow(p))]
  <2>1. Widget(pane) /\ User /\ UNCHANGED <<gdb, unseen, shown, events, spoiled>>
    BY <1>1 DEF MoveSel, PaneOK
  <2>2. \/ pane' = EnsureEndsVisible(p) /\ UNCHANGED jobs
        \/ pane' = p /\ UNCHANGED jobs
        \/ requestBrowse(q, p.h)
    BY <1>1 DEF MoveSel
  <2> DEFINE r == [pane EXCEPT !.sel = AtLeast(0, AtMost(last, next))]
  <2>3. Moved(pane, p) /\ Widget(p)
    <3>1. Moved(pane, r) /\ Widget(r)
      BY <2>1, Movings DEF Moved
    <3>2. Moved(r, EnsureCursorVisible(r))
      BY <3>1, Movings
    <3> QED
      BY <2>1, <3>1, <3>2, MovedTwice
  <2> HIDE DEF p
  <2>4. Moved(pane, EnsureEndsVisible(p)) /\ Moved(pane, q) /\ Widget(q)
    <3>1. Moved(p, EnsureEndsVisible(p)) /\ Moved(p, q)
      BY <2>3, Movings
    <3> QED
      BY <2>1, <2>3, <3>1, MovedTwice
  <2> HIDE DEF q
  <2>5. SpentOK' /\ spent'.lost = spent.lost
    BY <2>1, UserSpends
  <2>6. /\ PaneOK' /\ JobsOK'
        /\ ~Idle' \/ (UNCHANGED jobs /\ Moved(pane, pane'))
    <3>1. CASE pane' = EnsureEndsVisible(p) /\ UNCHANGED jobs
      BY <3>1, <2>1, <2>4 DEF PaneOK, JobsOK, Moved, Widget
    <3>2. CASE pane' = p /\ UNCHANGED jobs
      BY <3>2, <2>1, <2>3 DEF PaneOK, JobsOK, Moved, Widget
    <3>3. CASE requestBrowse(q, p.h)
      BY <3>3, <2>1, <2>4, Browsed
    <3> QED
      BY <2>2, <3>1, <3>2, <3>3
  <2> QED
    BY <2>1, <2>5, <2>6, Preserved
<1>2. ASSUME NEW line \in pane.top .. pane.top + pane.h - 1, Click(line) PROVE IInv'
  <2> DEFINE p == [pane EXCEPT !.sel = AtLeast(0, AtMost(Len(pane.items) - 1, line - Prefix(pane)))]
             q == [p EXCEPT !.dir = IF p.sel = 0 THEN -1 ELSE 1, !.keep = AtLeast(0, ScreenRow(p))]
  <2>1. Widget(pane) /\ User /\ UNCHANGED <<gdb, unseen, shown, events, spoiled>>
    BY <1>2 DEF Click, PaneOK
  <2>2. (pane' = p /\ UNCHANGED jobs) \/ requestBrowse(q, p.h)
    BY <1>2 DEF Click
  <2>3. Moved(pane, p) /\ Widget(p)
    BY <2>1, Movings DEF Moved
  <2> HIDE DEF p
  <2>4. Moved(pane, q) /\ Widget(q)
    <3>1. Moved(p, q)
      BY <2>3, Movings
    <3> QED
      BY <2>1, <2>3, <3>1, MovedTwice
  <2> HIDE DEF q
  <2>5. SpentOK' /\ spent'.lost = spent.lost
    BY <2>1, UserSpends
  <2>6. /\ PaneOK' /\ JobsOK'
        /\ ~Idle' \/ (UNCHANGED jobs /\ Moved(pane, pane'))
    <3>1. CASE pane' = p /\ UNCHANGED jobs
      BY <3>1, <2>1, <2>3 DEF PaneOK, JobsOK, Moved, Widget
    <3>2. CASE requestBrowse(q, p.h)
      BY <3>2, <2>1, <2>4, Browsed
    <3> QED
      BY <2>2, <3>1, <3>2
  <2> QED
    BY <2>1, <2>5, <2>6, Preserved
<1>3. ASSUME NEW i \in 0 .. Len(pane.items) - 1, SearchJump(i) PROVE IInv'
  <2> DEFINE p == [pane EXCEPT !.sel = i]
  <2>1. /\ Widget(pane) /\ User /\ UNCHANGED <<gdb, unseen, shown, jobs, events, spoiled>>
        /\ pane' = EnsureCursorVisible(p)
    BY <1>3 DEF SearchJump, PaneOK
  <2>2. Moved(pane, p) /\ Widget(p)
    BY <2>1, Movings DEF Moved
  <2> HIDE DEF p
  <2>3. Moved(pane, pane') /\ Widget(pane')
    BY <2>1, <2>2, Movings, MovedTwice
  <2>4. PaneOK' /\ JobsOK'
    BY <2>1, <2>3 DEF PaneOK, JobsOK, Moved
  <2> QED
    BY <2>1, <2>3, <2>4, UserSpends, Preserved
<1>4. ASSUME NEW h \in Heights, Draw(h) PROVE IInv'
  <2> DEFINE p == [pane EXCEPT !.keep = -1, !.dir = 0, !.h = h]
  <2>1. /\ Widget(pane) /\ UNCHANGED <<gdb, unseen, shown, events, spoiled>>
        /\ requestBrowse(p, pane.h)
    BY <1>4 DEF Draw, PaneOK
  <2>2. Moved(pane, p) /\ Widget(p)
    BY <2>1, Movings, ZenonT(60) DEF Moved
  <2> HIDE DEF p
  <2>3. SpentOK' /\ spent'.lost = spent.lost
    BY <1>4 DEF Draw, SpentOK
  <2>4. /\ PaneOK' /\ JobsOK'
        /\ ~Idle' \/ (UNCHANGED jobs /\ Moved(pane, pane'))
    BY <2>1, <2>2, Browsed
  <2> QED
    BY <2>1, <2>3, <2>4, Preserved
<1> QED
  BY <1>1, <1>2, <1>3, <1>4 DEF Browse

LEMMA StepBuffer == ASSUME IInv, openBuffer \/ Hide PROVE IInv'
<1> USE DEF IInv, Shape
<1>1. CASE openBuffer
  <2>1. JobsOK' /\ ~Idle'
    BY <1>1, NewJobs, Started DEF openBuffer, armRefresh
  <2>2. PaneOK'
    BY <1>1 DEF openBuffer, PaneOK
  <2>3. SpentOK' /\ spent'.lost = spent.lost
    BY <1>1, UserSpends DEF openBuffer
  <2> QED
    BY <1>1, <2>1, <2>2, <2>3, Preserved DEF openBuffer
<1>2. CASE Hide
  <2>1. JobsOK' /\ PaneOK' /\ Moved(pane, pane')
    BY <1>2 DEF Hide, JobsOK, PaneOK, Moved
  <2>2. SpentOK' /\ spent'.lost = spent.lost
    BY <1>2, UserSpends DEF Hide
  <2> QED
    BY <1>2, <2>1, <2>2, Preserved DEF Hide
<1> QED
  BY <1>1, <1>2

LEMMA StepSelectFrame == ASSUME IInv, NEW fr, SelectFrame(fr) PROVE IInv'
<1> USE DEF IInv, Shape
<1>1. JobsOK' /\ ~Idle'
  BY NewJobs, Started DEF SelectFrame, syncToFrame
<1>2. PaneOK'
  <2>1. pane' = paintStackContext(pane, fr)
    BY DEF SelectFrame, syncToFrame
  <2> QED
    BY <2>1, Movings DEF PaneOK, Moved, Widget
<1>3. SpentOK' /\ spent'.lost = spent.lost
  BY UserSpends DEF SelectFrame
<1> QED
  BY <1>1, <1>2, <1>3, Preserved DEF SelectFrame

(***************************************************************************)
(* The program.                                                            *)
(***************************************************************************)
LEMMA StepProgram ==
    ASSUME IInv, Resume \/ \E pc \in StopAddrs : Stop(pc)
    PROVE  IInv'
<1> USE DEF IInv, Shape
<1>1. CASE Resume
  <2>1. gdb' = [gdb EXCEPT !.stopped = FALSE] /\ UNCHANGED <<unseen, shown, pane, jobs, events, spoiled, spent>>
    BY <1>1 DEF Resume
  <2>2. GdbOK' /\ gdb'.stops = gdb.stops /\ gdb'.pc = gdb.pc
    BY <2>1 DEF GdbOK
  <2>3. \A x : JobOK(x, gdb) <=> JobOK(x, gdb')
    BY <2>2 DEF JobOK, OfItsStop
  <2>4. \A x : Sound(x, gdb) <=> Sound(x, gdb')
    BY <2>2 DEF Sound, OfItsStop
  <2>5. JobsOK'
    BY <2>1, <2>3 DEF JobsOK
  <2>6. EventsOK'
    BY <2>1, <2>4 DEF EventsOK
  <2>7. SpentOK' /\ PaneOK' /\ GuardIsAnswered' /\ Fresh'
    BY <2>1, <2>2 DEF SpentOK, PaneOK, GuardIsAnswered, Fresh, Idle
  <2> QED
    BY <2>2, <2>5, <2>6, <2>7
<1>2. ASSUME NEW pc \in StopAddrs, Stop(pc) PROVE IInv'
  <2>1. /\ gdb' = [stopped |-> TRUE, pc |-> pc, stops |-> gdb.stops + 1]
        /\ unseen' = TRUE /\ UNCHANGED <<shown, pane, jobs, events, spent>>
    BY <1>2 DEF Stop
  <2>2. GdbOK' /\ gdb'.stops = gdb.stops + 1 /\ gdb.stops \in Nat
    BY <2>1 DEF GdbOK
  <2>3. \A x : JobOK(x, gdb) => JobOK(x, gdb')
    BY <2>2 DEF JobOK, OfItsStop
  <2>4. \A x : Sound(x, gdb) => Sound(x, gdb')
    BY <2>2 DEF Sound, OfItsStop
  <2>5. JobsOK'
    BY <2>1, <2>3 DEF JobsOK
  <2>6. EventsOK'
    BY <2>1, <2>4 DEF EventsOK
  <2>7. SpentOK' /\ PaneOK' /\ GuardIsAnswered' /\ Fresh'
    BY <2>1 DEF SpentOK, PaneOK, GuardIsAnswered, Fresh, Idle
  <2> QED
    BY <2>2, <2>5, <2>6, <2>7
<1> QED
  BY <1>1, <1>2

LEMMA StepStackReload == ASSUME IInv, refreshAfterStackReload PROVE IInv'
<1> USE DEF IInv, Shape
<1>1. UNCHANGED <<gdb, shown, events, spoiled, spent>> /\ SpentOK'
  BY DEF refreshAfterStackReload, SpentOK
<1>2. CASE ~shown /\ UNCHANGED <<ctx, pane, jobs>>
  <2>1. JobsOK' /\ PaneOK' /\ GdbOK' /\ EventsOK' /\ GuardIsAnswered'
    BY <1>1, <1>2 DEF JobsOK, PaneOK, GdbOK, EventsOK, GuardIsAnswered, Idle
  <2> QED
    BY <2>1, <1>1, <1>2 DEF Fresh
<1>3. CASE shown /\ syncToFrame(FrameAt(gdb.pc))
  <2>1. JobsOK' /\ ~Idle'
    BY <1>1, <1>3, NewJobs, Started DEF syncToFrame
  <2>2. PaneOK'
    BY <1>3, Movings DEF syncToFrame, PaneOK, Moved, Widget
  <2> QED
    BY <1>1, <2>1, <2>2, Preserved
<1>4. CASE pane' = paintStackContext(pane, ctx) /\ armRefresh
  <2>1. JobsOK' /\ ~Idle'
    BY <1>1, <1>4, NewJobs, Started DEF armRefresh
  <2>2. PaneOK'
    BY <1>4, Movings DEF PaneOK, Moved, Widget
  <2> QED
    BY <1>1, <2>1, <2>2, Preserved
<1> QED
  BY <1>2, <1>3, <1>4 DEF refreshAfterStackReload

(***************************************************************************)
(* The goroutines and their answers.                                       *)
(***************************************************************************)
LEMMA Appended ==
    ASSUME EventsOK, UNCHANGED gdb, NEW msg, Sound(msg, gdb), events' = Append(events, msg)
    PROVE  EventsOK' /\ events' # <<>>
<1>1. PICK S : events \in Seq(S) /\ \A m \in S : Sound(m, gdb)
  BY DEF EventsOK
<1> DEFINE T == S \union {msg}
<1>2. events \in Seq(T) /\ msg \in T /\ \A m \in T : Sound(m, gdb')
  BY <1>1, SeqMonotonic
<1>3. events' \in Seq(T) /\ events' # <<>>
  BY <1>2, AppendProperties
<1> QED
  BY <1>2, <1>3 DEF EventsOK

LEMMA Posted ==
    ASSUME IInv, NEW s \in Slots, NEW msg, Sound(msg, gdb), Post(s, msg), SpentOK',
           UNCHANGED <<gdb, unseen, shown, pane>>
    PROVE  IInv'
<1> USE DEF IInv, Shape
<1>1. jobs' = [jobs EXCEPT ![s] = NoJob] /\ events' = Append(events, msg)
  BY DEF Post
<1>2. JobsOK'
  <2>1. DOMAIN jobs' = Slots /\ \A t \in Slots : jobs'[t] = NoJob \/ jobs'[t] = jobs[t]
    BY <1>1 DEF JobsOK
  <2> QED
    BY <2>1 DEF JobsOK, JobOK
<1>3. EventsOK' /\ events' # <<>>
  BY <1>1, Appended
<1> QED
  BY <1>2, <1>3 DEF GdbOK, PaneOK, GuardIsAnswered, Fresh, Idle

LEMMA StepQueryPC == ASSUME IInv, NEW s \in Slots, QueryPC(s) PROVE IInv'
<1> USE DEF IInv, Shape
<1>1. jobs[s] # NoJob /\ UNCHANGED <<gdb, unseen, shown, ctx, pane>>
  BY DEF QueryPC
<1>2. Sound(Failed(jobs[s]), gdb)
  BY DEF Sound, Failed
<1>3. ASSUME NEW c,
             jobs' = [jobs EXCEPT ![s].step = "have", ![s].pc = gdb.pc, ![s].at = gdb.stops,
                                  ![s].center = c],
             UNCHANGED <<events, spoiled, spent>>
      PROVE  IInv'
  <2> DEFINE j == [jobs[s] EXCEPT !.step = "have", !.pc = gdb.pc, !.at = gdb.stops, !.center = c]
  <2>1. DOMAIN jobs[s] = JobFields
    BY <1>1 DEF JobsOK, JobOK
  <2>2. DOMAIN j = JobFields /\ j.step = "have" /\ j.pc = gdb.pc /\ j.at = gdb.stops
    BY <2>1 DEF JobFields
  <2>3. jobs' = [jobs EXCEPT ![s] = j]
    BY <1>3 DEF JobsOK
  <2> HIDE DEF j
  <2>4. JobOK(j, gdb) /\ j # NoJob
    BY <2>2 DEF JobOK, OfItsStop, GdbOK, NoJob
  <2>5. DOMAIN jobs' = Slots /\ jobs'[s] = j /\ \A t \in Slots : jobs'[t] = j \/ jobs'[t] = jobs[t]
    BY <2>3 DEF JobsOK
  <2>6. JobsOK' /\ ~Idle'
    BY <1>1, <2>4, <2>5 DEF JobsOK, Idle
  <2>7. SpentOK' /\ PaneOK'
    BY <1>1, <1>3 DEF SpentOK, PaneOK
  <2> QED
    BY <1>1, <1>3, <2>6, <2>7, Preserved
<1>4. CASE Post(s, Failed(jobs[s])) /\ UNCHANGED spent
  <2>1. SpentOK'
    BY <1>4 DEF SpentOK
  <2> QED
    BY <1>1, <1>2, <1>4, <2>1, Posted
<1>5. CASE Fault(FALSE) /\ Post(s, Failed(jobs[s]))
  <2>1. SpentOK'
    BY <1>5 DEF SpentOK, Fault
  <2> QED
    BY <1>1, <1>2, <1>5, <2>1, Posted
<1>6. \/ \E c : jobs' = [jobs EXCEPT ![s].step = "have", ![s].pc = gdb.pc, ![s].at = gdb.stops,
                                      ![s].center = c]
                /\ UNCHANGED <<events, spoiled, spent>>
      \/ Post(s, Failed(jobs[s])) /\ UNCHANGED spent
      \/ Fault(FALSE) /\ Post(s, Failed(jobs[s]))
  BY DEF QueryPC
<1> QED
  BY <1>3, <1>4, <1>5, <1>6

LEMMA StepQueryInsns == ASSUME IInv, NEW s \in Slots, QueryInsns(s) PROVE IInv'
<1> USE DEF IInv, Shape
<1>1. /\ jobs[s] # NoJob /\ jobs[s].step = "have"
      /\ UNCHANGED <<gdb, unseen, shown, ctx, pane, spent>>
  BY DEF QueryInsns
<1>2. SpentOK'
  BY <1>1 DEF SpentOK
<1>3. Sound(Failed(jobs[s]), gdb)
  BY DEF Sound, Failed
<1>4. \A items, func : Sound(Answer(jobs[s], items, func), gdb)
  <2>1. OfItsStop(jobs[s], gdb)
    BY <1>1 DEF JobsOK, JobOK
  <2> QED
    BY <2>1 DEF Sound, Answer, OfItsStop
<1>5. Post(s, Failed(jobs[s])) \/ \E items, func : Post(s, Answer(jobs[s], items, func))
  BY DEF QueryInsns
<1> QED
  BY <1>1, <1>2, <1>3, <1>4, <1>5, Posted

LEMMA StepPostIsLost == ASSUME IInv, NEW s \in Slots, PostIsLost(s) PROVE IInv'
<1> USE DEF IInv, Shape
<1>1. /\ jobs' = [jobs EXCEPT ![s] = NoJob] /\ spoiled' = TRUE
      /\ UNCHANGED <<gdb, unseen, shown, ctx, pane, events>>
  BY DEF PostIsLost
<1>2. SpentOK' /\ spent'.lost
  BY DEF PostIsLost, Fault, SpentOK
<1>3. JobsOK'
  <2>1. DOMAIN jobs' = Slots /\ \A t \in Slots : jobs'[t] = NoJob \/ jobs'[t] = jobs[t]
    BY <1>1 DEF JobsOK
  <2> QED
    BY <1>1, <2>1 DEF JobsOK, JobOK
<1>4. GdbOK' /\ PaneOK' /\ EventsOK'
  BY <1>1 DEF GdbOK, PaneOK, EventsOK
<1> QED
  BY <1>1, <1>2, <1>3, <1>4 DEF GuardIsAnswered, Fresh

LEMMA StepApply == ASSUME IInv, applyRefresh PROVE IInv'
<1> USE DEF IInv, Shape
<1> DEFINE msg == Head(events)
           p   == paintStackContext(pane, ctx)
<1>1. /\ events # <<>> /\ events' = Tail(events)
      /\ UNCHANGED <<gdb, unseen, shown, ctx, jobs, spent>>
      /\ spoiled' = (msg.err \/ msg.at # gdb.stops)
  BY DEF applyRefresh
<1>2. PICK sel : pane' = IF msg.err THEN ClearFetchAck(p)
                         ELSE SetItems(p, msg.items, msg.pc, sel, msg.func)
  BY DEF applyRefresh
<1>3. Widget(p)
  BY Movings DEF PaneOK, Moved
<1>4. Sound(msg, gdb) /\ EventsOK'
  <2>1. PICK S : events \in Seq(S) /\ \A m \in S : Sound(m, gdb)
    BY DEF EventsOK
  <2>2. msg \in S /\ Tail(events) \in Seq(S)
    BY <1>1, <2>1, HeadTailProperties
  <2> QED
    BY <1>1, <2>1, <2>2 DEF EventsOK
<1> HIDE DEF msg, p
<1>5. Widget(pane') /\ pane'.fetching = FALSE /\ (~msg.err => pane'.pc = msg.pc)
  <2>1. CASE msg.err
    <3>1. pane' = ClearFetchAck(p)
      BY <1>2, <2>1
    <3> QED
      BY <2>1, <3>1, <1>3, Refused
  <2>2. CASE ~msg.err
    <3>1. pane' = SetItems(p, msg.items, msg.pc, sel, msg.func)
      BY <1>2, <2>2
    <3>2. Replaced(SetItems(p, msg.items, msg.pc, sel, msg.func), msg.pc)
      BY <1>3, Answered
    <3> QED
      BY <3>1, <3>2 DEF Replaced
  <2> QED
    BY <2>1, <2>2
<1>6. SpentOK' /\ GdbOK' /\ JobsOK' /\ PaneOK'
  BY <1>1, <1>5 DEF SpentOK, GdbOK, JobsOK, PaneOK
<1>7. GuardIsAnswered'
  BY <1>5 DEF GuardIsAnswered
<1>8. ~spoiled' => pane'.pc = gdb'.pc
  BY <1>1, <1>4, <1>5 DEF Sound, OfItsStop
<1> QED
  BY <1>4, <1>6, <1>7, <1>8 DEF Fresh

LEMMA NextIInv == ASSUME IInv, [Next]_vars PROVE IInv'
<1>1. CASE UNCHANGED vars
  BY <1>1 DEF vars, IInv, Shape, GdbOK, SpentOK, PaneOK, JobsOK, EventsOK,
              GuardIsAnswered, Fresh, Idle
<1>2. ASSUME NEW s \in Slots, Goroutine(s) PROVE IInv'
  BY <1>2, StepQueryPC, StepQueryInsns, StepPostIsLost DEF Goroutine
<1> QED
  BY <1>1, <1>2, StepBrowse, StepBuffer, StepSelectFrame, StepProgram, StepStackReload,
     StepApply DEF Next

(* The guard that keeps the pane from fetching twice comes down: as long as
   it is up there is a refresh under way, or an answer the screen had no
   room for. *)
THEOREM GuardComesDown == Spec => []GuardIsAnswered
<1>1. IInv => GuardIsAnswered
  BY DEF IInv
<1> QED
  BY <1>1, InitIInv, NextIInv, PTL DEF Spec

(* When nothing is under way and the last answer was of the last stop, the
   only instruction that can have the mark is GDB's $pc. *)
THEOREM MarkFollowsGdb == Spec => []MarkIsCurrent
<1>1. IInv => MarkIsCurrent
  BY DEF IInv, Fresh, MarkIsCurrent, Marked
<1> QED
  BY <1>1, InitIInv, NextIInv, PTL DEF Spec
=============================================================================
