---------------------------- MODULE AssemblyPane ----------------------------
(***************************************************************************)
(* The Assembly pane (app/assembly.go, widgets/assembly_widget.go): a      *)
(* stop, a selected frame or a caret at the edge of the window starts a    *)
(* goroutine that asks GDB for $pc and for instructions, and posts them to *)
(* the UI thread, where they replace the pane's whatever was done since.   *)
(*                                                                         *)
(* A function that GDB knows by name is shown whole; elsewhere the pane    *)
(* has a window of memory that slides when the caret runs into its edge,   *)
(* and is to keep the caret on its screen row meanwhile.                   *)
(***************************************************************************)
EXTENDS AsmWindow

CONSTANTS
    Code,            \* the addresses of instructions, in order
    StopAddrs,       \* those at which the program stops, or a frame is
    Readable,        \* addresses GDB can read
    FuncOf,          \* the function of each, NoFunc for ??
    SrcOf,           \* whether the source line of the frame there can be read
    NoFunc, NoAddr,
    Heights,         \* heights the pane may be given
    Slots,           \* bound: refreshes at once
    MaxStops, MaxUser, MaxDraws, MaxFaults   \* bounds: stops, acts of the user, resizes, faults

Insns == {Code[i] : i \in DOMAIN Code}

ASSUME AssemblyPaneAssumption ==
    /\ Code \in Seq(Nat) /\ \A i, j \in DOMAIN Code : i < j => Code[i] < Code[j]
    /\ StopAddrs \subseteq Insns /\ SrcOf \in [StopAddrs -> BOOLEAN]
    /\ Insns \subseteq Readable /\ Readable \subseteq 0 .. AddrMax
    /\ DOMAIN FuncOf = Insns
    /\ NoAddr \notin Int
    /\ Heights \subseteq Nat
    /\ {MaxStops, MaxUser, MaxDraws, MaxFaults} \subseteq Nat

VARIABLES
    gdb,        \* the program: stopped?, $pc, how often it has stopped
    unseen,     \* a stop the UI thread has not handled
    shown,      \* Assembly has a split or owns the location leaf
    ctx,        \* ctxFrame: the frame last synced to, or NoFrame
    pane,       \* the widget
    jobs,       \* the goroutines of runRefresh
    events,     \* what they posted
    spoiled,    \* auxiliary: the last answer is missing, or older than the stop
    spent       \* auxiliary: acts of the user, resizes, faults, a lost post

vars == <<gdb, unseen, shown, ctx, pane, jobs, events, spoiled, spent>>

Funcs  == {FuncOf[a] : a \in Insns} \union {NoFunc}
Named(f) == f # NoFunc
NoFrame == [addr |-> NoAddr, func |-> NoFunc, src |-> FALSE]
FrameAt(a) == [addr |-> a, func |-> FuncOf[a], src |-> SrcOf[a]]
Frames  == {FrameAt(a) : a \in StopAddrs}

(***************************************************************************)
(* The widget.                                                             *)
(***************************************************************************)
CompleteDump(p) == Named(p.func)
Prefix(p)  == p.ctx + (IF CompleteDump(p) /\ p.items # <<>> THEN 1 ELSE 0)
Cursor(p)  == p.sel + Prefix(p)
SelAddr(p) == IF p.items = <<>> THEN NoAddr ELSE At(p.items, p.sel)
ScreenRow(p) == Cursor(p) - p.top

EnsureCursorVisible(p) ==
    [p EXCEPT !.top = IF p.h = 0 THEN @ ELSE AtLeast(Cursor(p) - p.h + 1, AtMost(Cursor(p), @))]

(* Both ends of a whole function show its header and its end as well. *)
EnsureEndsVisible(p) ==
    LET end == Prefix(p) + Len(p.items)
        top == IF p.sel = 0 THEN 0 ELSE p.top
    IN  [p EXCEPT !.top = IF p.sel = Len(p.items) - 1 /\ end >= top + Rows(p.h)
                          THEN AtLeast(0, end - Rows(p.h) + 1) ELSE top]

RevealSel(p) ==
    IF p.keep >= 0 THEN [p EXCEPT !.top = AtLeast(0, Cursor(p) - p.keep), !.keep = -1, !.dir = 0]
    ELSE IF SelAddr(p) = p.pc
    THEN [p EXCEPT !.top = IF CompleteDump(p) /\ Cursor(p) < Rows(p.h) THEN 0
                           ELSE AtLeast(0, Cursor(p) - (Rows(p.h) \div 2))]
    ELSE EnsureCursorVisible(p)

SetItems(p, items, pc, sel, func) ==
    LET found == {i \in {IndexOfAddr(items, sel), IndexOfAddr(items, pc)} : i >= 0}
        index == IF IndexOfAddr(items, sel) >= 0 THEN IndexOfAddr(items, sel)
                 ELSE IF found # {} THEN IndexOfAddr(items, pc)
                 ELSE Len(items) \div 2
    IN  RevealSel([p EXCEPT !.items = items, !.pc = pc, !.func = func,
                            !.fetching = FALSE, !.sel = index])

(* Bug: an error leaves the guard up. *)
ClearFetchAck_Slide(p) == [p EXCEPT !.keep = -1, !.dir = 0]

ClearFetchAck(p) == [p EXCEPT !.fetching = FALSE, !.keep = -1, !.dir = 0]

(* The lines above the dump: the frame, and its source line. *)
ContextLines(fr) == IF ~Named(fr.func) THEN 0 ELSE IF fr.src THEN 2 ELSE 1
paintStackContext(p, fr) == [p EXCEPT !.ctx = ContextLines(fr)]

(* The instructions drawn with the mark of $pc. *)
Marked(p) == {p.items[i] : i \in DOMAIN p.items} \intersect {p.pc}

(***************************************************************************)
(* Starting a refresh.                                                     *)
(***************************************************************************)
NoJob == [step |-> "none"]
Job(center, rows, reset, hint, dir, keep) ==
    [step |-> "ask", center |-> center, rows |-> rows, reset |-> reset, hint |-> hint,
     dir |-> dir, keep |-> keep, pc |-> NoAddr, at |-> 0]

Free == {s \in Slots : jobs[s] = NoJob}
Start(job) ==
    /\ Free # {}
    /\ jobs' = [jobs EXCEPT ![CHOOSE s \in Free : TRUE] = job]

requestBrowse(p, rows) ==
    IF p.fetching \/ CompleteDump(p) \/ p.items = <<>>
    THEN pane' = p /\ UNCHANGED jobs
    ELSE /\ pane' = [p EXCEPT !.fetching = TRUE]
         /\ Start(Job(SelAddr(p), Rows(rows), FALSE, p.func, p.dir, p.keep))

(* resetToPC only: the other callers pass an address of their own. *)
armRefresh == Start(Job(NoAddr, pane.h, TRUE, NoFunc, 0, -1))

(* Bug: a frame of the function shown needs no query. *)
syncToFrame_SameFunc(fr) ==
    /\ ctx' = fr
    /\ pane' = paintStackContext(pane, fr)
    /\ IF Named(fr.func) /\ fr.func = pane.func THEN UNCHANGED jobs
       ELSE Start(Job(fr.addr, pane.h, FALSE, fr.func, 0, -1))

syncToFrame(fr) ==
    /\ ctx' = fr
    /\ pane' = paintStackContext(pane, fr)
    /\ Start(Job(fr.addr, pane.h, FALSE, fr.func, 0, -1))

(***************************************************************************)
(* The user at the pane.                                                   *)
(***************************************************************************)
User == spent.user < MaxUser /\ spent' = [spent EXCEPT !.user = @ + 1]

MoveSel(delta) ==
    /\ User /\ shown /\ pane.items # <<>>
    /\ LET next == pane.sel + delta
           last == Len(pane.items) - 1
           p    == EnsureCursorVisible([pane EXCEPT !.sel = AtLeast(0, AtMost(last, next))])
       IN  IF CompleteDump(p) THEN pane' = EnsureEndsVisible(p) /\ UNCHANGED jobs
           ELSE IF next \in 0 .. last THEN pane' = p /\ UNCHANGED jobs
           ELSE requestBrowse([p EXCEPT !.dir = IF delta < 0 THEN -1 ELSE 1,
                                        !.keep = AtLeast(0, ScreenRow(p))], p.h)
    /\ UNCHANGED <<gdb, unseen, shown, ctx, events, spoiled>>

Keys == IF pane.h < 1 THEN {1, -1, 10, -10} ELSE {1, -1, pane.h, -pane.h}

(* A click on a line of the screen. *)
Click(line) ==
    /\ User /\ shown /\ pane.items # <<>>
    /\ line \in pane.top .. pane.top + pane.h - 1
    /\ LET last == Len(pane.items) - 1
           p    == [pane EXCEPT !.sel = AtLeast(0, AtMost(last, line - Prefix(pane)))]
           dir  == IF p.sel = 0 THEN -1 ELSE 1
       IN  IF CompleteDump(p) \/ p.sel = pane.sel \/ p.sel \in 1 .. last - 1
           THEN pane' = p /\ UNCHANGED jobs
           ELSE requestBrowse([p EXCEPT !.dir = dir, !.keep = AtLeast(0, ScreenRow(p))], p.h)
    /\ UNCHANGED <<gdb, unseen, shown, ctx, events, spoiled>>

(* A match of / or n: the view follows the cursor, nothing is fetched. *)
SearchJump(i) ==
    /\ User /\ shown /\ i \in 0 .. Len(pane.items) - 1
    /\ pane' = EnsureCursorVisible([pane EXCEPT !.sel = i])
    /\ UNCHANGED <<gdb, unseen, shown, ctx, jobs, events, spoiled>>

(* Draw at another height: the rows asked for are those of the last draw. *)
Draw(h) ==
    /\ shown /\ h # pane.h
    /\ spent.draws < MaxDraws /\ spent' = [spent EXCEPT !.draws = @ + 1]
    /\ LET p == [pane EXCEPT !.keep = -1, !.dir = 0, !.h = h]
       IN  requestBrowse(p, pane.h)
    /\ UNCHANGED <<gdb, unseen, shown, ctx, events, spoiled>>

openBuffer ==
    /\ User
    /\ shown' = TRUE
    /\ armRefresh
    /\ UNCHANGED <<gdb, unseen, ctx, pane, events, spoiled>>

Hide ==
    /\ User /\ shown
    /\ shown' = FALSE
    /\ UNCHANGED <<gdb, unseen, ctx, pane, jobs, events, spoiled>>

(* A frame selected in Call Stack: $pc stays where it is. *)
SelectFrame(fr) ==
    /\ User /\ shown /\ ~unseen
    /\ syncToFrame(fr)
    /\ UNCHANGED <<gdb, unseen, shown, events, spoiled>>

(***************************************************************************)
(* The program, and the UI thread's handlers of its stops.                 *)
(***************************************************************************)
Resume ==
    /\ gdb.stopped /\ gdb.stops < MaxStops
    /\ gdb' = [gdb EXCEPT !.stopped = FALSE]
    /\ UNCHANGED <<unseen, shown, ctx, pane, jobs, events, spoiled, spent>>

Stop(pc) ==
    /\ ~gdb.stopped
    /\ gdb' = [stopped |-> TRUE, pc |-> pc, stops |-> gdb.stops + 1]
    /\ unseen' = TRUE
    /\ spoiled' = FALSE
    /\ UNCHANGED <<shown, ctx, pane, jobs, events, spent>>

(* The refresh of the stack has a frame 0, or it failed. *)
refreshAfterStackReload ==
    /\ unseen
    /\ unseen' = FALSE
    /\ \/ ~shown /\ UNCHANGED <<ctx, pane, jobs>>
       \/ shown /\ syncToFrame(FrameAt(gdb.pc))
       \/ shown /\ pane' = paintStackContext(pane, ctx) /\ armRefresh /\ UNCHANGED ctx
    /\ UNCHANGED <<gdb, shown, events, spoiled, spent>>

(***************************************************************************)
(* runRefresh.  A query fails if the program runs, or at a fault; a post   *)
(* fails if the queue of the screen is full, which nobody looks at.        *)
(***************************************************************************)
Fault(loses) ==
    /\ spent.faults < MaxFaults
    /\ spent' = [spent EXCEPT !.faults = @ + 1, !.lost = @ \/ loses]

Failed(job) == [err |-> TRUE, at |-> job.at]
Post(s, msg) ==
    /\ jobs' = [jobs EXCEPT ![s] = NoJob]
    /\ events' = Append(events, msg)
    /\ UNCHANGED spoiled

Reads(range) == (range.first .. range.past - 1) \subseteq Readable

(* A decoding that starts inside an instruction may miss the center. *)
Listings(range, center) ==
    LET all == SelectSeq(Code, LAMBDA a : range.first <= a /\ a < range.past)
    IN  {all, [i \in DOMAIN all |-> IF all[i] = center THEN center + 1 ELSE all[i]]}

QueryPC(s) ==
    /\ jobs[s] # NoJob /\ jobs[s].step = "ask"
    /\ \/ /\ gdb.stopped
          /\ LET job == jobs[s]
             IN  jobs' = [jobs EXCEPT ![s].step = "have", ![s].pc = gdb.pc, ![s].at = gdb.stops,
                              ![s].center = IF job.reset \/ @ = NoAddr THEN gdb.pc ELSE @]
          /\ UNCHANGED <<events, spoiled, spent>>
       \/ /\ ~gdb.stopped
          /\ Post(s, Failed(jobs[s])) /\ UNCHANGED spent
       \/ Fault(FALSE) /\ Post(s, Failed(jobs[s]))
    /\ UNCHANGED <<gdb, unseen, shown, ctx, pane>>

Answer(job, items, func) ==
    [err |-> FALSE, at |-> job.at, pc |-> job.pc, sel |-> job.center, items |-> items,
     func |-> func, dir |-> job.dir, keep |-> job.keep]

(* The whole function, if the caller had a name and GDB has one there. *)
WholeFunction(job) == Named(job.hint) /\ job.center \in Insns /\ Named(FuncOf[job.center])

QueryInsns(s) ==
    /\ jobs[s] # NoJob /\ jobs[s].step = "have"
    /\ LET job   == jobs[s]
           rows  == FetchRows(Rows(job.rows))
           range == DisassembleRange(job.center, rows)
           away  == job.center # job.pc
       IN  \/ /\ gdb.stopped /\ WholeFunction(job)
              /\ Post(s, Answer(job, SelectSeq(Code, LAMBDA a : FuncOf[a] = FuncOf[job.center]), job.hint))
           \/ /\ gdb.stopped /\ ~WholeFunction(job) /\ Reads(range)
              /\ \E all \in Listings(range, job.center) :
                    LET anchor == BrowseAnchor(job.dir, job.keep, Rows(job.rows), rows)
                    IN  Post(s, Answer(job, IF away THEN WindowAtAnchor(all, job.center, rows, anchor)
                                            ELSE WindowAround(all, job.pc, rows), NoFunc))
           \/ /\ gdb.stopped => ~WholeFunction(job) /\ ~Reads(range)
              /\ Post(s, Failed(job))
    /\ UNCHANGED <<gdb, unseen, shown, ctx, pane, spent>>

(* PostEvent answers ErrEventQFull. *)
PostIsLost(s) ==
    /\ jobs[s] # NoJob /\ Fault(TRUE)
    /\ jobs' = [jobs EXCEPT ![s] = NoJob]
    /\ spoiled' = TRUE
    /\ UNCHANGED <<gdb, unseen, shown, ctx, pane, events>>

applyRefresh ==
    /\ events # <<>>
    /\ events' = Tail(events)
    /\ LET msg == Head(events)
           p   == paintStackContext(pane, ctx)
           sel == IF IndexOfAddr(msg.items, SelAddr(p)) >= 0 THEN SelAddr(p) ELSE msg.sel
       IN  /\ pane' = IF msg.err THEN ClearFetchAck(p)
                      ELSE SetItems(p, msg.items, msg.pc, sel, msg.func)
           /\ spoiled' = (msg.err \/ msg.at # gdb.stops)
    /\ UNCHANGED <<gdb, unseen, shown, ctx, jobs, spent>>

(***************************************************************************)
(* Specification.                                                          *)
(***************************************************************************)
Init ==
    /\ gdb \in [stopped : {TRUE}, pc : StopAddrs, stops : {0}]
    /\ unseen = FALSE /\ shown \in BOOLEAN /\ ctx = NoFrame
    /\ pane = [items |-> <<>>, pc |-> NoAddr, sel |-> 0, func |-> NoFunc, ctx |-> 0, top |-> 0,
               fetching |-> FALSE, dir |-> 0, keep |-> -1, h |-> 0]
    /\ jobs = [s \in Slots |-> NoJob]
    /\ events = <<>>
    /\ spoiled = FALSE
    /\ spent = [user |-> 0, draws |-> 0, faults |-> 0, lost |-> FALSE]

Browse == \/ \E delta \in Keys : MoveSel(delta)
          \/ \E line \in pane.top .. pane.top + pane.h - 1 : Click(line)
          \/ \E i \in 0 .. Len(pane.items) - 1 : SearchJump(i)
          \/ \E h \in Heights : Draw(h)

Goroutine(s) == QueryPC(s) \/ QueryInsns(s) \/ PostIsLost(s)

Next ==
    \/ Browse \/ openBuffer \/ Hide
    \/ \E fr \in Frames : SelectFrame(fr)
    \/ Resume
    \/ \E pc \in StopAddrs : Stop(pc)
    \/ refreshAfterStackReload
    \/ \E s \in Slots : Goroutine(s)
    \/ applyRefresh

Spec == Init /\ [][Next]_vars

(***************************************************************************)
(* Properties.                                                             *)
(***************************************************************************)
(* The caret is on an instruction, an answer has instructions, and is of a
   stop that was. *)
TypeOK ==
    /\ gdb.pc \in Insns /\ gdb.stops \in 0 .. MaxStops
    /\ ctx \in Frames \union {NoFrame}
    /\ pane.sel \in 0 .. AtLeast(0, Len(pane.items) - 1)
    /\ pane.keep \in Nat \union {-1} /\ pane.dir \in {-1, 0, 1} /\ pane.top \in Nat
    /\ \A i \in DOMAIN events : events[i].at <= gdb.stops /\ (events[i].err \/ events[i].items # <<>>)
    /\ pane.func \in Funcs /\ {shown, unseen, spoiled, pane.fetching} \subseteq BOOLEAN

Idle == events = <<>> /\ \A s \in Slots : jobs[s] = NoJob

(* When nothing is under way and the last answer was of the last stop, the
   pane's $pc is GDB's, whatever was fetched, browsed and dropped before:
   no other line has the mark, and that line has it if it is in the window. *)
MarkIsCurrent ==
    Idle /\ ~unseen /\ shown /\ ~spoiled /\ gdb.stopped /\ pane.items # <<>>
    => pane.pc = gdb.pc /\ Marked(pane) \subseteq {gdb.pc}

(* A slide that nothing disturbed leaves the caret on its instruction and
   on its row, and lets it go on unless memory ends: the lines above may
   only be too few. *)
Undisturbed(msg) ==
    /\ ~msg.err /\ msg.keep >= 0 /\ msg.func = NoFunc
    /\ msg.sel = SelAddr(pane) /\ msg.sel # msg.pc
    /\ IndexOfAddr(msg.items, msg.sel) >= 0
    /\ pane.dir = msg.dir /\ pane.keep = msg.keep /\ ScreenRow(pane) = msg.keep
SlideGoesOn ==
    [][ events # <<>> /\ events' = Tail(events) /\ Undisturbed(Head(events)) =>
        /\ SelAddr(pane') = SelAddr(pane)
        /\ ScreenRow(pane') = ScreenRow(pane) \/ Cursor(pane') < ScreenRow(pane)
        /\ pane.dir < 0 => pane'.sel > 0 \/ ~\E a \in Insns : a < SelAddr(pane)
        /\ pane.dir > 0 => pane'.sel < Len(pane'.items) - 1 \/ ~\E a \in Insns : a > SelAddr(pane)
      ]_vars

(* The guard that keeps the pane from fetching twice is up only while a
   refresh is under way that will bring it down: else the window would
   never slide again.  A post the screen had no room for leaves it up. *)
GuardIsAnswered == pane.fetching => ~Idle \/ spent.lost
=============================================================================
