---------------------------- MODULE QueryCapture ----------------------------
(***************************************************************************)
(* Queries over the debugger's shared channel: queryCapture of             *)
(* mcp/gdb_service.go and querySilent of gdb/complete.go, and the two      *)
(* coalesced refreshes that use them (app/debug_info.go,                   *)
(* app/breakpoints.go).                                                    *)
(*                                                                         *)
(* Replies carry no token.  A query subscribes to all of GDB's output,     *)
(* drops what comes for a moment, takes the write lock, sends, and takes   *)
(* what its channel holds up to the first chunk with a prompt, or until a  *)
(* timer fires.  So it may end with another's reply, with a notification,  *)
(* or with nothing, and leave its own to the next.                         *)
(*                                                                         *)
(* now counts the changes of the debugged program (a stop, a breakpoint    *)
(* made or deleted); a reply is as good as the count GDB sent it at.  A    *)
(* chunk holds at most one reply, and GDB refuses no query.  The goroutine *)
(* that queries breakpoints after a stop is in Breakpoints; no stop here   *)
(* names a breakpoint.                                                     *)
(***************************************************************************)
EXTENDS Naturals, Sequences

CONSTANTS
    Tools,      \* completions, agents, scripts: anyone else who queries
    Agents,     \* those of them that use GdbCommand
    Cap,        \* chunks a subscriber's channel holds; more are dropped
    Tries,      \* debugInfoCtl.runRefresh: attempts (6)
    MaxChanges, \* bound: changes of the debugged program
    MaxOthers   \* bound: commands sent without waiting for a reply, queries
                \* of the tools, queries given up before their reply is in

ASSUME QueryCaptureAssumption ==
    /\ Tools \cap {"threads", "breaks", "free"} = {} /\ Agents \subseteq Tools
    /\ {Cap, Tries} \subseteq Nat \ {0} /\ {MaxChanges, MaxOthers} \subseteq Nat

VARIABLES
    now,        \* changes so far
    last,       \* last[r]: the last change that matters to refresher r
    cmds,       \* the MI PTY: commands GDB has not answered
    lock,       \* the holder of the write lock
    chan,       \* chan[c]: the channel of c's subscription
    job,        \* job[c]: the query c makes, and its attempts
    again,      \* CoalesceRunner: a trailing run is asked for
    noted,      \* events read that the UI thread has not handled
    model,      \* what the panes show, by kind
    ok,         \* auxiliary: the last refresh of r got all it asked for
    hung,       \* GDB answers no command
    spent       \* how much of MaxOthers is used

world   == <<now, last>>
aux     == <<hung, ok>>
vars == <<world, cmds, lock, chan, job, again, noted, model, aux, spent>>
---------------------------------------------------------------------------
Refreshers == {"threads", "breaks"}
Clients    == Refreshers \cup Tools
Free       == "free"

Kinds  == {"threads", "stack", "breaks", "other"}
Events == {"stop", "note"}
Bodies == Kinds \cup Events \cup {"none"}
Chunk  == [body: Bodies, prompt: BOOLEAN, ver: Nat]

(* What a refresh asks, and how often it tries: runRefresh of each. *)
Plan(c) == CASE c = "threads" -> <<"threads", "stack">>
             [] c = "breaks" -> <<"breaks">>
             [] OTHER -> <<"other">>
Attempts(c) == IF c = "threads" THEN Tries ELSE 1
Event(r)    == IF r = "threads" THEN "stop" ELSE "note"

(* What passes for a reply: "stack=", but also the stopped-threads= of a   *)
(* stop for "threads=", and the bkpt={ of a notification for the table.    *)
Accepts(k) == {k} \cup (CASE k = "threads" -> {"stop"}
                          [] k = "breaks" -> {"note"}
                          [] OTHER -> {})

Nothing == [ver |-> 0, of |-> "none"]
Found   == [ver: Nat, of: Bodies]
Pcs     == {"off", "drain", "wait", "capture", "apply"}

Job  == [pc: Pcs, step: 1 .. 2, tries: Nat, found: [Kinds -> Found], told: BOOLEAN]
at(pc, n) == [pc |-> pc, step |-> 1, tries |-> n, told |-> FALSE,
              found |-> [k \in Kinds |-> Nothing]]
idle      == at("off", 0)
begun(n)  == at("drain", n)

Asked(c) == Plan(c)[job[c].step]

TypeOK ==
    /\ now \in 0 .. MaxChanges /\ last \in [Refreshers -> 0 .. now]
    /\ cmds \in Seq(Kinds \cup {"none"})
    /\ lock \in Clients \cup {Free}
    /\ chan \in [Clients -> Seq(Chunk)]
    /\ job \in [Clients -> Job]
    /\ again \in [Refreshers -> BOOLEAN] /\ noted \in [Refreshers -> BOOLEAN]
    /\ model \in [Kinds -> Found]
    /\ hung \in BOOLEAN /\ ok \in [Refreshers -> BOOLEAN]
    /\ spent \in 0 .. MaxOthers
    /\ \A c \in Clients :
         /\ job[c].step \in DOMAIN Plan(c) /\ job[c].tries < Attempts(c)
         /\ (lock = c) <=> (job[c].pc = "capture")

Init ==
    /\ now = 0 /\ last = [r \in Refreshers |-> 0]
    /\ cmds = <<>> /\ lock = Free
    /\ chan = [c \in Clients |-> <<>>] /\ job = [c \in Clients |-> idle]
    /\ again = [r \in Refreshers |-> FALSE] /\ noted = [r \in Refreshers |-> FALSE]
    /\ model = [k \in Kinds |-> Nothing]
    /\ ok = [r \in Refreshers |-> FALSE] /\ hung \in BOOLEAN
    /\ spent = 0

Spend == spent < MaxOthers /\ spent' = spent + 1
---------------------------------------------------------------------------
(* GDB *)

Subscribed(c) == job[c].pc \in {"wait", "capture"}

(* Output is read and handed to every subscriber with room for it; the UI  *)
(* thread is taken to have room.  All see it in one order, so the time it  *)
(* takes is as good as spent before GDB prints it.                         *)
Prints(body, prompt, ver) ==
    /\ chan' = [c \in Clients |->
                 IF Subscribed(c) /\ Len(chan[c]) < Cap
                 THEN Append(chan[c], [body |-> body, prompt |-> prompt, ver |-> ver])
                 ELSE chan[c]]
    /\ noted' = [r \in Refreshers |-> noted[r] \/ body = Event(r)]

(* The program stops, or a breakpoint is made or deleted, by whatever way. *)
(* GDB prints a prompt after a stop, none after a notification.            *)
Change(r) ==
    /\ now < MaxChanges
    /\ now' = now + 1 /\ last' = [last EXCEPT ![r] = now + 1]
    /\ Prints(Event(r), r = "threads", now + 1)
    /\ UNCHANGED <<cmds, lock, job, again, model, aux, spent>>

(* GDB answers a command, then prints its prompt: read at once, these are  *)
(* two steps with nothing in between.  A prompt owed is "none" in cmds.    *)
GdbReads ==
    /\ ~hung /\ cmds # <<>>
    /\ cmds' = IF Head(cmds) = "none" THEN Tail(cmds) ELSE <<"none">> \o Tail(cmds)
    /\ Prints(Head(cmds), Head(cmds) = "none", now)
    /\ UNCHANGED <<world, lock, job, again, model, aux, spent>>
---------------------------------------------------------------------------
(* The UI thread *)

(* A mutation: a request that comes while a refresh runs is forgotten. *)
Schedule_NoTrailing(r) ==
    /\ job' = IF job[r].pc = "off" THEN [job EXCEPT ![r] = begun(0)] ELSE job
    /\ UNCHANGED again

(* coalesce.Schedule: run, or ask the running refresh for a trailing run. *)
Schedule(r) ==
    IF job[r].pc = "off"
    THEN job' = [job EXCEPT ![r] = begun(0)] /\ UNCHANGED again
    ELSE again' = [again EXCEPT ![r] = TRUE] /\ UNCHANGED job

(* The handler of a stop's prompt, or of a breakpoint notification. *)
Handle(r) ==
    /\ noted[r] /\ noted' = [noted EXCEPT ![r] = FALSE]
    /\ Schedule(r)
    /\ UNCHANGED <<world, cmds, lock, chan, model, aux, spent>>

(* SendCmd, execUI: the lock is let go before GDB has answered. *)
SendCmd ==
    /\ Spend
    /\ lock = Free
    /\ cmds' = Append(cmds, "other")
    /\ UNCHANGED <<world, lock, chan, job, again, noted, model, aux>>

(* Tab at a prompt, a tool of the agent, a script. *)
Ask(c) ==
    /\ Spend
    /\ c \in Tools /\ job[c].pc = "off"
    /\ job' = [job EXCEPT ![c] = begun(0)]
    /\ UNCHANGED <<world, cmds, lock, chan, again, noted, model, aux>>
---------------------------------------------------------------------------
(* queryCapture, and the attempts around it *)

(* Subscribe, then ptyx.Drain for 20 ms: in effect a subscription begins   *)
(* with what comes after the drain.                                        *)
Drain(c) ==
    /\ job[c].pc = "drain"
    /\ chan' = [chan EXCEPT ![c] = <<>>]
    /\ job' = [job EXCEPT ![c].pc = "wait"]
    /\ UNCHANGED <<world, cmds, lock, again, noted, model, aux, spent>>

Send(c) ==
    /\ job[c].pc = "wait" /\ lock = Free
    /\ lock' = c
    /\ cmds' = Append(cmds, Asked(c))
    /\ job' = [job EXCEPT ![c].pc = "capture"]
    /\ UNCHANGED <<world, chan, again, noted, model, aux, spent>>

(* The parsers look for a reply anywhere in what was captured; what tools *)
(* do with theirs is not here.                                             *)
Parsed(found, k, chunk) ==
    IF chunk.body \in Accepts(k) /\ found[k].of # k
    THEN [found EXCEPT ![k] = [ver |-> chunk.ver, of |-> chunk.body]]
    ELSE found

(* A query is over: the lock is let go, the subscription ends.  Next comes *)
(* another query of the plan, or what was found is applied.  An agent that *)
(* has captured a notification publishes it.                               *)
Over(c, j) ==
    /\ lock' = IF lock = c THEN Free ELSE lock
    /\ chan' = [chan EXCEPT ![c] = <<>>]
    /\ job' = [job EXCEPT ![c] =
         IF j.step < Len(Plan(c)) THEN [j EXCEPT !.step = @ + 1, !.pc = "drain"]
                                  ELSE [j EXCEPT !.pc = "apply"]]
    /\ noted' = [r \in Refreshers |-> noted[r] \/ (r = "breaks" /\ c \in Agents /\ j.told)]

With(c, chunk) ==
    IF c \in Refreshers THEN [job[c] EXCEPT !.found = Parsed(@, Asked(c), chunk)]
                        ELSE [job[c] EXCEPT !.told = @ \/ chunk.body = "note"]

(* capture takes a chunk; a prompt in it ends the reply. *)
Take(c) ==
    /\ job[c].pc = "capture" /\ chan[c] # <<>>
    /\ LET chunk == Head(chan[c]) IN
         IF chunk.prompt
         THEN Over(c, With(c, chunk))
         ELSE /\ job' = [job EXCEPT ![c] = With(c, chunk)]
              /\ chan' = [chan EXCEPT ![c] = Tail(@)]
              /\ UNCHANGED <<lock, noted>>
    /\ UNCHANGED <<world, cmds, again, model, aux, spent>>

(* A mutation: only a prompt ends a capture. *)
Timeout_Never(c) ==
    FALSE /\ UNCHANGED vars

(* The idle timer, or the one for the whole reply. *)
Timeout(c) ==
    /\ job[c].pc = "capture"
    /\ IF hung \/ (cmds = <<>> /\ chan[c] = <<>>) THEN UNCHANGED spent ELSE Spend
    /\ Over(c, job[c])
    /\ UNCHANGED <<world, cmds, again, model, aux>>

(* The context ends before the lock is free. *)
GiveUp(c) ==
    /\ job[c].pc = "wait" /\ lock # Free /\ Spend
    /\ Over(c, job[c])
    /\ UNCHANGED <<world, cmds, again, model, aux>>

Got(c, k) == job[c].found[k].of # "none"
Asks(c)   == {Plan(c)[i] : i \in DOMAIN Plan(c)}

(* After a run, a refresh that was asked again runs again. *)
After(c) == IF c \in Refreshers /\ again[c] THEN begun(0) ELSE idle

(* What a pane shows after a run.  A stop taken for a list of threads is   *)
(* an empty one, and empties the stack too.                                *)
Shown(c, k) ==
    CASE Got(c, k) -> job[c].found[k]
      [] k = "stack" /\ ~Got(c, k) /\ job[c].found["threads"].of = "stop" ->
            job[c].found["threads"]
      [] OTHER -> model[k]

(* What was found goes to the model; with a gap, the attempt is repeated. *)
Apply(c) ==
    /\ job[c].pc = "apply"
    /\ model' = [k \in Kinds |-> Shown(c, k)]
    /\ LET all == \A k \in Asks(c) : Got(c, k) IN
         IF all \/ job[c].tries + 1 = Attempts(c)
         THEN /\ job' = [job EXCEPT ![c] = After(c)]
              /\ again' = [r \in Refreshers |-> again[r] /\ r # c]
              /\ ok' = [r \in Refreshers |-> IF r = c THEN all ELSE ok[r]]
         ELSE /\ job' = [job EXCEPT ![c] = begun(job[c].tries + 1)]
              /\ UNCHANGED <<again, ok>>
    /\ UNCHANGED <<world, cmds, lock, chan, noted, hung, spent>>
---------------------------------------------------------------------------
Query(c) ==
    \/ Drain(c) \/ Send(c) \/ Take(c) \/ Timeout(c)
    \/ GiveUp(c) \/ Apply(c)

Next ==
    \/ \E r \in Refreshers : Change(r)
    \/ GdbReads
    \/ \E r \in Refreshers : Handle(r)
    \/ SendCmd
    \/ \E c \in Clients : Ask(c) \/ Query(c)

Spec == Init /\ [][Next]_vars

(* Goroutines and the UI thread are scheduled, timers fire, and GDB        *)
(* answers unless it hangs.                                                *)
FairSpec ==
    /\ Spec
    /\ \A c \in Clients : WF_vars(Query(c))
    /\ \A r \in Refreshers : WF_vars(Handle(r))
    /\ WF_vars(GdbReads)
---------------------------------------------------------------------------
(* Properties *)

Pending(r) == noted[r] \/ again[r]

(* Once the events of a refresher are handled and its last run got all it  *)
(* asked for, the panes show replies, not what passes for one, none older  *)
(* than the last change: however replies were swapped, late or lost, a     *)
(* capture reaches back no further than its subscription, and the          *)
(* stop or a notification taken for a reply leads to another query.        *)
SettledIsCurrent ==
    \A r \in Refreshers : job[r].pc = "off" /\ ok[r] /\ ~Pending(r) =>
        \A k \in Asks(r) : model[k].of = k /\ model[k].ver >= last[r]

(* The write lock is let go and every refresh ends, even if GDB is silent. *)
QueriesEnd == []<>(\A c \in Clients : job[c].pc = "off")
===========================================================================
