---------------------- MODULE QueriesAndModes_proofs ----------------------
(***************************************************************************)
(* Proofs about two components that share no state.                        *)
(*                                                                         *)
(* QueryCapture, for any tools, any channel capacity, any number of        *)
(* attempts and of changes: types with the exclusive write lock, and that  *)
(* the panes of a settled refresh are current.                             *)
(*                                                                         *)
(* Modes, for any length of the cmdline and of its queue of posts: the     *)
(* keys have a reader, two Escs lead home, and nothing is left open.       *)
(***************************************************************************)
EXTENDS QueryCapture, Modes, TLAPS

(* A place a client may be in: its record, and its place in its plan. *)
Fits(c, j) == j \in Job /\ j.step \in DOMAIN Plan(c) /\ j.tries < Attempts(c)

Holds(c) == (lock = c) <=> (job[c].pc = "capture")

LEMMA Plans ==
    ASSUME NEW c \in Clients
    PROVE  /\ Plan(c) \in Seq(Kinds) /\ Len(Plan(c)) \in 1 .. 2
           /\ Attempts(c) \in Nat \ {0} /\ c # Free
           /\ \A i \in DOMAIN Plan(c) : Plan(c)[i] \in Kinds /\ i \in 1 .. 2
<1>1. c # Free /\ Attempts(c) \in Nat \ {0}
  BY QueryCaptureAssumption DEF Attempts, Free, Clients, Refreshers
<1>2. CASE c = "threads"
  <2>1. Plan(c) = <<"threads", "stack">>
    BY <1>2 DEF Plan
  <2> QED
    BY <1>1, <2>1 DEF Kinds
<1>3. CASE c = "breaks"
  <2>1. Plan(c) = <<"breaks">>
    BY <1>3 DEF Plan
  <2> QED
    BY <1>1, <2>1 DEF Kinds
<1>4. CASE c \notin Refreshers
  <2>1. Plan(c) = <<"other">>
    BY <1>4 DEF Plan, Refreshers
  <2> QED
    BY <1>1, <2>1 DEF Kinds
<1> QED
  BY <1>2, <1>3, <1>4 DEF Refreshers

(* Where everybody starts a run, an attempt, or rests. *)
LEMMA Starts ==
    ASSUME NEW c \in Clients, NEW n \in Nat, n < Attempts(c)
    PROVE  /\ Fits(c, begun(n)) /\ begun(n).pc = "drain" /\ begun(n).step = 1
           /\ \A k \in Kinds : begun(n).found[k] = Nothing
           /\ Fits(c, idle) /\ idle.pc = "off" /\ idle.tries = 0
           /\ \A k \in Kinds : idle.found[k] = Nothing
           /\ idle.told = FALSE /\ begun(n).told = FALSE
<1>1. Nothing \in Found
  BY DEF Nothing, Found, Bodies
<1>2. 1 \in DOMAIN Plan(c) /\ 0 < Attempts(c)
  BY Plans
<1>3. idle \in Job
  BY <1>1 DEF idle, at, Job, Pcs
<1>4. begun(n) = [pc |-> "drain", step |-> 1, tries |-> n,
                  found |-> [k \in Kinds |-> Nothing], told |-> FALSE]
  BY DEF begun, at
<1>5. begun(n) \in Job
  <2>1. [k \in Kinds |-> Nothing] \in [Kinds -> Found]
    BY <1>1
  <2> HIDE DEF Nothing, Found
  <2> QED
    BY <1>4, <2>1 DEF Job, Pcs
<1>6. Fits(c, begun(n)) /\ begun(n).pc = "drain" /\ begun(n).step = 1
  BY <1>2, <1>4, <1>5 DEF Fits
<1>7. Fits(c, idle) /\ idle.pc = "off" /\ idle.tries = 0 /\ idle.told = FALSE
  BY <1>2, <1>3 DEF Fits, idle, at
<1>8. \A k \in Kinds : begun(n).found[k] = Nothing /\ idle.found[k] = Nothing
  BY <1>4 DEF idle, at
<1>9. begun(n).told = FALSE
  BY <1>4
<1> QED
  BY <1>6, <1>7, <1>8, <1>9

(* A step that moves one client leaves the others. *)
LEMMA OneMoves ==
    ASSUME job \in [Clients -> Job], NEW c \in Clients, NEW j \in Job,
           job' = [job EXCEPT ![c] = j]
    PROVE  /\ job' \in [Clients -> Job] /\ job'[c] = j
           /\ \A d \in Clients \ {c} : job'[d] = job[d]
  OBVIOUS

LEMMA TypeParts ==
    ASSUME TypeOK
    PROVE  /\ job \in [Clients -> Job]
           /\ \A c \in Clients : Fits(c, job[c]) /\ Holds(c)
  BY DEF TypeOK, Fits, Holds

(* What a step that moves client c has to respect. *)
LEMMA MovesKeepTypes ==
    ASSUME TypeOK, NEW c \in Clients, NEW j, Fits(c, j),
           job' = [job EXCEPT ![c] = j],
           lock' = IF j.pc = "capture" THEN c ELSE IF lock = c THEN Free ELSE lock,
           j.pc = "capture" => lock \in {c, Free}
    PROVE  /\ job' \in [Clients -> Job] /\ lock' \in Clients \cup {Free}
           /\ \A d \in Clients : Fits(d, job'[d]) /\ Holds(d)'
<1>1. /\ job' \in [Clients -> Job] /\ job'[c] = j
      /\ \A d \in Clients \ {c} : job'[d] = job[d]
  BY TypeParts, OneMoves DEF Fits
<1>2. ASSUME NEW d \in Clients PROVE Fits(d, job'[d]) /\ Holds(d)'
  <2>1. CASE d = c
    BY <1>1, <2>1, Plans DEF Holds
  <2>2. CASE d # c
    <3>1. (lock = d) <=> (lock' = d)
      BY <2>2, Plans, TypeParts DEF Holds
    <3> QED
      BY <1>1, <2>2, <3>1, TypeParts DEF Holds
  <2> QED
    BY <2>1, <2>2
<1> QED
  BY <1>1, <1>2 DEF TypeOK

LEMMA TypesAgain ==
    ASSUME now' \in 0 .. MaxChanges, last' \in [Refreshers -> 0 .. now'],
           cmds' \in Seq(Kinds \cup {"none"}), lock' \in Clients \cup {Free},
           chan' \in [Clients -> Seq(Chunk)], job' \in [Clients -> Job],
           again' \in [Refreshers -> BOOLEAN], noted' \in [Refreshers -> BOOLEAN],
           model' \in [Kinds -> Found], hung' \in BOOLEAN,
           ok' \in [Refreshers -> BOOLEAN], spent' \in 0 .. MaxOthers,
           \A d \in Clients : Fits(d, job'[d]) /\ Holds(d)'
    PROVE  TypeOK'
  BY DEF TypeOK, Fits, Holds

LEMMA TypeInit == Init => TypeOK
<1> SUFFICES ASSUME Init PROVE TypeOK
  OBVIOUS
<1>1. \A c \in Clients : Fits(c, idle) /\ idle.pc = "off" /\ c # Free
  <2> SUFFICES ASSUME NEW c \in Clients PROVE Fits(c, idle) /\ idle.pc = "off" /\ c # Free
    OBVIOUS
  <2>1. 0 \in Nat /\ 0 < Attempts(c) /\ c # Free
    BY Plans
  <2> QED
    BY <2>1, Starts
<1>2. Nothing \in Found
  BY DEF Nothing, Found, Bodies
<1>3. \A c \in Clients : idle \in Job /\ job[c] = idle
  BY <1>1 DEF Init, Fits
<1>4. job \in [Clients -> Job] /\ chan \in [Clients -> Seq(Chunk)]
  BY <1>3 DEF Init
<1>5. \A c \in Clients : Fits(c, job[c]) /\ Holds(c)
  BY <1>1, <1>3 DEF Init, Holds
<1>6. /\ now \in 0 .. MaxChanges /\ last \in [Refreshers -> 0 .. now]
      /\ spent \in 0 .. MaxOthers
  BY QueryCaptureAssumption DEF Init
<1>7. cmds \in Seq(Kinds \cup {"none"}) /\ lock \in Clients \cup {Free}
  BY DEF Init
<1>8. model \in [Kinds -> Found]
  BY <1>2 DEF Init
<1>9. /\ again \in [Refreshers -> BOOLEAN] /\ noted \in [Refreshers -> BOOLEAN]
      /\ hung \in BOOLEAN /\ ok \in [Refreshers -> BOOLEAN]
  BY DEF Init
<1> QED
  BY <1>4, <1>5, <1>6, <1>7, <1>8, <1>9 DEF TypeOK, Fits, Holds

(* Where a query goes on. *)
LEMMA PcMoves ==
    ASSUME NEW c \in Clients, NEW j, Fits(c, j), NEW p \in Pcs
    PROVE  LET n == [j EXCEPT !.pc = p] IN
           /\ Fits(c, n) /\ n.pc = p /\ n.step = j.step /\ n.tries = j.tries
           /\ n.found = j.found /\ n.told = j.told
  BY DEF Fits, Job

LEMMA StepMoves ==
    ASSUME NEW c \in Clients, NEW j, Fits(c, j), j.step < Len(Plan(c))
    PROVE  LET n == [j EXCEPT !.step = @ + 1, !.pc = "drain"] IN
           /\ Fits(c, n) /\ n.pc = "drain" /\ n.found = j.found /\ n.told = j.told
<1> DEFINE n == [j EXCEPT !.step = @ + 1, !.pc = "drain"]
<1>1. j.step + 1 \in DOMAIN Plan(c) /\ j.step + 1 \in 1 .. 2
  BY Plans DEF Fits
<1>2. n.step = j.step + 1 /\ n.pc = "drain" /\ n.found = j.found /\ n.tries = j.tries
      /\ n.told = j.told
  BY DEF Fits, Job
<1>3. n \in Job
  BY <1>1 DEF Fits, Job, Pcs
<1> QED
  BY <1>1, <1>2, <1>3 DEF Fits

(* Where a query goes when it is over. *)
LEMMA OverMoves ==
    ASSUME NEW c \in Clients, NEW j, Fits(c, j)
    PROVE  LET n == IF j.step < Len(Plan(c))
                    THEN [j EXCEPT !.step = @ + 1, !.pc = "drain"]
                    ELSE [j EXCEPT !.pc = "apply"] IN
           Fits(c, n) /\ n.pc \in {"drain", "apply"} /\ n.found = j.found
<1>1. CASE j.step < Len(Plan(c))
  BY <1>1, StepMoves
<1>2. CASE ~(j.step < Len(Plan(c)))
  <2>1. "apply" \in Pcs
    BY DEF Pcs
  <2> QED
    BY <1>2, <2>1, PcMoves
<1> QED
  BY <1>1, <1>2

LEMMA ParsedType ==
    ASSUME NEW f \in [Kinds -> Found], NEW k \in Kinds, NEW chunk \in Chunk
    PROVE  Parsed(f, k, chunk) \in [Kinds -> Found]
<1>1. [ver |-> chunk.ver, of |-> chunk.body] \in Found
  BY DEF Chunk, Found
<1> QED
  BY <1>1 DEF Parsed

LEMMA WithFits ==
    ASSUME TypeOK, NEW c \in Clients, NEW chunk \in Chunk
    PROVE  /\ Fits(c, With(c, chunk)) /\ With(c, chunk).pc = job[c].pc
           /\ c \in Refreshers =>
                With(c, chunk).found = Parsed(job[c].found, Asked(c), chunk)
           /\ c \notin Refreshers => With(c, chunk).found = job[c].found
<1>1. Fits(c, job[c])
  BY TypeParts
<1>2. CASE c \in Refreshers
  <2>1. Parsed(job[c].found, Asked(c), chunk) \in [Kinds -> Found]
    BY <1>1, Plans, ParsedType DEF Fits, Job, Asked
  <2>2. With(c, chunk) = [job[c] EXCEPT !.found = Parsed(job[c].found, Asked(c), chunk)]
    BY <1>2 DEF With
  <2> QED
    BY <1>1, <1>2, <2>1, <2>2 DEF Fits, Job
<1>3. CASE c \notin Refreshers
  <2>1. With(c, chunk) = [job[c] EXCEPT !.told = job[c].told \/ chunk.body = "note"]
    BY <1>3 DEF With
  <2>2. (job[c].told \/ chunk.body = "note") \in BOOLEAN
    BY <1>1 DEF Fits, Job
  <2> QED
    BY <1>1, <1>3, <2>1, <2>2 DEF Fits, Job
<1> QED
  BY <1>2, <1>3

LEMMA PrintsTypes ==
    ASSUME TypeOK, NEW body \in Bodies, NEW prompt \in BOOLEAN, NEW ver \in Nat,
           Prints(body, prompt, ver)
    PROVE  chan' \in [Clients -> Seq(Chunk)] /\ noted' \in [Refreshers -> BOOLEAN]
<1>1. [body |-> body, prompt |-> prompt, ver |-> ver] \in Chunk
  BY DEF Chunk
<1>2. \A c \in Clients : Append(chan[c], [body |-> body, prompt |-> prompt, ver |-> ver])
                           \in Seq(Chunk)
  BY <1>1 DEF TypeOK
<1> QED
  BY <1>2 DEF Prints, TypeOK

LEMMA TypeNext == TypeOK /\ [Next]_vars => TypeOK'
<1> SUFFICES ASSUME TypeOK, [Next]_vars PROVE TypeOK'
  OBVIOUS
<1> USE TypeParts DEF world, aux
(* Nobody's query moves: what GDB prints and the commands sent around them. *)
<1> DEFINE Still == UNCHANGED <<job, lock>>
<1>s. ASSUME Still PROVE /\ job' \in [Clients -> Job] /\ lock' \in Clients \cup {Free}
                         /\ \A d \in Clients : Fits(d, job'[d]) /\ Holds(d)'
  BY <1>s DEF TypeOK, Holds
<1>1. ASSUME NEW r \in Refreshers, Change(r) PROVE TypeOK'
  <2>1. /\ now' \in 0 .. MaxChanges /\ now + 1 \in Nat
        /\ last' \in [Refreshers -> 0 .. now']
    <3>1. now \in Nat /\ now' = now + 1 /\ now' \in 0 .. MaxChanges
      BY <1>1, QueryCaptureAssumption DEF Change, TypeOK
    <3>2. \A x \in 0 .. now : x \in 0 .. now'
      BY <3>1
    <3>3. last' = [last EXCEPT ![r] = now'] /\ last \in [Refreshers -> 0 .. now]
      BY <1>1 DEF Change, TypeOK
    <3> QED
      BY <3>1, <3>2, <3>3
  <2>2. Event(r) \in Bodies /\ (r = "threads") \in BOOLEAN
    BY DEF Event, Bodies, Events
  <2>3. chan' \in [Clients -> Seq(Chunk)] /\ noted' \in [Refreshers -> BOOLEAN]
    <3>1. Prints(Event(r), r = "threads", now + 1)
      BY <1>1 DEF Change
    <3> QED
      BY <2>1, <2>2, <3>1, PrintsTypes
  <2>4. Still
    BY <1>1 DEF Change
  <2>5. UNCHANGED <<cmds, again, model, hung, ok, spent>>
    BY <1>1 DEF Change
  <2> QED
    BY <1>s, <2>1, <2>3, <2>4, <2>5, TypesAgain DEF TypeOK
<1>2. ASSUME GdbReads PROVE TypeOK'
  <2>1. Head(cmds) \in Bodies /\ now \in Nat
    <3>1. cmds # <<>> /\ cmds \in Seq(Kinds \cup {"none"})
      BY <1>2 DEF GdbReads, TypeOK
    <3>2. Head(cmds) \in Kinds \cup {"none"}
      BY <3>1
    <3>3. now \in Nat
      BY DEF TypeOK
    <3> QED
      BY <3>2, <3>3 DEF Bodies
  <2>2. cmds' \in Seq(Kinds \cup {"none"})
    <3>1. cmds # <<>> /\ cmds \in Seq(Kinds \cup {"none"})
      BY <1>2 DEF GdbReads, TypeOK
    <3>2. Tail(cmds) \in Seq(Kinds \cup {"none"})
      BY <3>1
    <3>3. <<"none">> \o Tail(cmds) \in Seq(Kinds \cup {"none"})
      BY <3>2
    <3> QED
      BY <1>2, <3>2, <3>3 DEF GdbReads
  <2>3. chan' \in [Clients -> Seq(Chunk)] /\ noted' \in [Refreshers -> BOOLEAN]
    <3>1. Prints(Head(cmds), Head(cmds) = "none", now) /\ (Head(cmds) = "none") \in BOOLEAN
      BY <1>2 DEF GdbReads
    <3> QED
      BY <2>1, <3>1, PrintsTypes
  <2>4. Still
    BY <1>2 DEF GdbReads
  <2>5. UNCHANGED <<now, last, again, model, hung, ok, spent>>
    BY <1>2 DEF GdbReads
  <2> QED
    BY <1>s, <2>2, <2>3, <2>4, <2>5, TypesAgain DEF TypeOK
<1>3. ASSUME NEW r \in Refreshers, Handle(r) PROVE TypeOK'
  <2>1. /\ noted' \in [Refreshers -> BOOLEAN]
        /\ UNCHANGED <<now, last, cmds, lock, chan, model, hung, ok, spent>>
    BY <1>3 DEF Handle, TypeOK
  <2>2. CASE job[r].pc = "off"
    <3>1. r \in Clients /\ 0 \in Nat /\ 0 < Attempts(r)
      BY Plans DEF Clients
    <3>2. Fits(r, begun(0)) /\ begun(0).pc = "drain"
      BY <3>1, Starts
    <3>3. job' = [job EXCEPT ![r] = begun(0)] /\ again' = again /\ lock' = lock
      BY <1>3, <2>1, <2>2 DEF Handle, Schedule
    <3>4. lock # r
      BY <2>2, <3>1 DEF Holds
    <3>5. /\ job' \in [Clients -> Job] /\ lock' \in Clients \cup {Free}
          /\ \A d \in Clients : Fits(d, job'[d]) /\ Holds(d)'
      BY <3>1, <3>2, <3>3, <3>4, MovesKeepTypes
    <3> QED
      BY <2>1, <3>3, <3>5, TypesAgain DEF TypeOK
  <2>3. CASE job[r].pc # "off"
    <3>1. Still /\ again' \in [Refreshers -> BOOLEAN]
      BY <1>3, <2>1, <2>3 DEF Handle, Schedule, TypeOK
    <3> QED
      BY <1>s, <2>1, <3>1, TypesAgain DEF TypeOK
  <2> QED
    BY <2>2, <2>3
<1>4. ASSUME SendCmd PROVE TypeOK'
  <2>1. cmds' \in Seq(Kinds \cup {"none"})
    BY <1>4 DEF SendCmd, TypeOK, Kinds
  <2>2. spent' \in 0 .. MaxOthers
    BY <1>4, QueryCaptureAssumption DEF SendCmd, Spend, TypeOK
  <2>3. Still /\ UNCHANGED <<now, last, chan, again, noted, model, hung, ok>>
    BY <1>4 DEF SendCmd
  <2> QED
    BY <1>s, <2>1, <2>2, <2>3, TypesAgain DEF TypeOK
<1>5. ASSUME NEW c \in Clients, Ask(c) PROVE TypeOK'
  <2>1. spent' \in 0 .. MaxOthers
    BY <1>5, QueryCaptureAssumption DEF Ask, Spend, TypeOK
  <2>2. /\ UNCHANGED <<now, last, cmds, lock, chan, again, noted, model, hung, ok>>
        /\ job' = [job EXCEPT ![c] = begun(0)] /\ job[c].pc = "off"
    BY <1>5 DEF Ask
  <2>3. Fits(c, begun(0)) /\ begun(0).pc = "drain" /\ lock # c
    <3>1. 0 \in Nat /\ 0 < Attempts(c)
      BY Plans
    <3> QED
      BY <2>2, <3>1, Starts DEF Holds
  <2>4. /\ job' \in [Clients -> Job] /\ lock' \in Clients \cup {Free}
        /\ \A d \in Clients : Fits(d, job'[d]) /\ Holds(d)'
    BY <2>2, <2>3, MovesKeepTypes
  <2> QED
    BY <2>1, <2>2, <2>4, TypesAgain DEF TypeOK
<1>6. ASSUME NEW c \in Clients, Drain(c) PROVE TypeOK'
  <2> DEFINE j == [job[c] EXCEPT !.pc = "wait"]
  <2>1. Fits(c, j) /\ j.pc = "wait"
    <3>1. "wait" \in Pcs
      BY DEF Pcs
    <3> QED
      BY <3>1, PcMoves
  <2>2. /\ UNCHANGED <<now, last, cmds, lock, again, noted, model, hung, ok, spent>>
        /\ job[c].pc = "drain"
    BY <1>6 DEF Drain
  <2>3. job' = [job EXCEPT ![c] = j]
    BY <1>6 DEF Drain
  <2>4. chan' \in [Clients -> Seq(Chunk)]
    BY <1>6 DEF Drain, TypeOK
  <2>5. lock # c
    BY <2>2 DEF Holds
  <2> HIDE DEF j
  <2>6. /\ job' \in [Clients -> Job] /\ lock' \in Clients \cup {Free}
        /\ \A d \in Clients : Fits(d, job'[d]) /\ Holds(d)'
    BY <2>1, <2>2, <2>3, <2>5, MovesKeepTypes
  <2> QED
    BY <2>2, <2>4, <2>6, TypesAgain DEF TypeOK
<1>7. ASSUME NEW c \in Clients, Send(c) PROVE TypeOK'
  <2> DEFINE j == [job[c] EXCEPT !.pc = "capture"]
  <2>1. Fits(c, j) /\ j.pc = "capture"
    <3>1. "capture" \in Pcs
      BY DEF Pcs
    <3> QED
      BY <3>1, PcMoves
  <2>2. /\ UNCHANGED <<now, last, chan, again, noted, model, hung, ok, spent>>
        /\ lock = Free /\ lock' = c
    BY <1>7 DEF Send
  <2>3. job' = [job EXCEPT ![c] = j]
    BY <1>7 DEF Send
  <2>4. cmds' \in Seq(Kinds \cup {"none"})
    <3>1. Asked(c) \in Kinds
      BY Plans DEF Asked, Fits
    <3>2. cmds' = Append(cmds, Asked(c))
      BY <1>7 DEF Send
    <3> QED
      BY <3>1, <3>2 DEF TypeOK
  <2> HIDE DEF j
  <2>5. /\ job' \in [Clients -> Job] /\ lock' \in Clients \cup {Free}
        /\ \A d \in Clients : Fits(d, job'[d]) /\ Holds(d)'
    BY <2>1, <2>2, <2>3, MovesKeepTypes
  <2> QED
    BY <2>2, <2>4, <2>5, TypesAgain DEF TypeOK
<1>8. ASSUME NEW c \in Clients, NEW j, Fits(c, j), Over(c, j)
      PROVE  /\ job' \in [Clients -> Job] /\ lock' \in Clients \cup {Free}
             /\ \A d \in Clients : Fits(d, job'[d]) /\ Holds(d)'
             /\ chan' \in [Clients -> Seq(Chunk)] /\ noted' \in [Refreshers -> BOOLEAN]
  <2> DEFINE n == IF j.step < Len(Plan(c))
                  THEN [j EXCEPT !.step = @ + 1, !.pc = "drain"]
                  ELSE [j EXCEPT !.pc = "apply"]
  <2>1. Fits(c, n) /\ n.pc \in {"drain", "apply"}
    BY <1>8, OverMoves
  <2>2. job' = [job EXCEPT ![c] = n] /\ lock' = IF lock = c THEN Free ELSE lock
    BY <1>8 DEF Over
  <2>3. chan' \in [Clients -> Seq(Chunk)]
    BY <1>8 DEF Over, TypeOK
  <2>4. noted' \in [Refreshers -> BOOLEAN]
    BY <1>8 DEF Over
  <2> HIDE DEF n
  <2> QED
    BY <2>1, <2>2, <2>3, <2>4, MovesKeepTypes
<1>9. ASSUME NEW c \in Clients, Take(c) PROVE TypeOK'
  <2> DEFINE chunk == Head(chan[c])
             j == With(c, chunk)
  <2>1. /\ UNCHANGED <<now, last, cmds, again, model, hung, ok, spent>>
        /\ job[c].pc = "capture" /\ chan[c] # <<>>
    BY <1>9 DEF Take
  <2>2. chan[c] \in Seq(Chunk) /\ chunk \in Chunk /\ Tail(chan[c]) \in Seq(Chunk)
    BY <2>1 DEF TypeOK
  <2>3. Fits(c, j) /\ j.pc = "capture"
    BY <2>1, <2>2, WithFits
  <2>4. CASE chunk.prompt
    <3>1. Over(c, j)
      BY <1>9, <2>4 DEF Take
    <3> HIDE DEF j, chunk
    <3> QED
      BY <1>8, <2>1, <2>3, <3>1, TypesAgain DEF TypeOK
  <2>5. CASE ~chunk.prompt
    <3>1. job' = [job EXCEPT ![c] = j] /\ chan' = [chan EXCEPT ![c] = Tail(chan[c])]
          /\ UNCHANGED <<lock, noted>>
      BY <1>9, <2>5 DEF Take
    <3>2. lock = c
      BY <2>1 DEF Holds
    <3>3. chan' \in [Clients -> Seq(Chunk)]
      BY <2>2, <3>1 DEF TypeOK
    <3> HIDE DEF j, chunk
    <3>4. /\ job' \in [Clients -> Job] /\ lock' \in Clients \cup {Free}
          /\ \A d \in Clients : Fits(d, job'[d]) /\ Holds(d)'
      BY <2>3, <3>1, <3>2, MovesKeepTypes
    <3> QED
      BY <2>1, <3>1, <3>3, <3>4, TypesAgain DEF TypeOK
  <2> QED
    BY <2>4, <2>5
<1>10. ASSUME NEW c \in Clients, Timeout(c) \/ GiveUp(c) PROVE TypeOK'
  <2>1. Over(c, job[c]) /\ UNCHANGED <<now, last, cmds, again, model, hung, ok>>
    BY <1>10 DEF Timeout, GiveUp
  <2>2. spent' \in 0 .. MaxOthers
    BY <1>10, QueryCaptureAssumption DEF Timeout, GiveUp, Spend, TypeOK
  <2> QED
    BY <1>8, <2>1, <2>2, TypesAgain DEF TypeOK
<1>11. ASSUME NEW c \in Clients, Apply(c) PROVE TypeOK'
  <2> DEFINE all == \A k \in Asks(c) : Got(c, k)
             last_ == all \/ job[c].tries + 1 = Attempts(c)
  <2>1. UNCHANGED <<now, last, cmds, lock, chan, noted, hung, spent>> /\ job[c].pc = "apply"
    BY <1>11 DEF Apply
  <2>2. model' \in [Kinds -> Found]
    <3>1. ASSUME NEW k \in Kinds PROVE Shown(c, k) \in Found
      <4>1. job[c].found \in [Kinds -> Found] /\ "threads" \in Kinds /\ model[k] \in Found
        BY DEF Fits, Job, Kinds, TypeOK
      <4> QED
        BY <4>1 DEF Shown
    <3> QED
      BY <1>11, <3>1 DEF Apply
  <2>3. lock # c
    BY <2>1 DEF Holds
  <2>4. /\ again' \in [Refreshers -> BOOLEAN] /\ ok' \in [Refreshers -> BOOLEAN]
    <3>1. CASE last_
      <4>1. /\ again' = [r \in Refreshers |-> again[r] /\ r # c]
            /\ ok' = [r \in Refreshers |-> IF r = c THEN all ELSE ok[r]]
        BY <1>11, <3>1 DEF Apply
      <4> HIDE DEF all
      <4>2. \A r \in Refreshers : (again[r] /\ r # c) \in BOOLEAN
        OBVIOUS
      <4>3. all \in BOOLEAN
        BY DEF all
      <4>4. again' \in [Refreshers -> BOOLEAN]
        BY <4>1, <4>2
      <4> QED
        BY <4>1, <4>3, <4>4 DEF TypeOK
    <3>2. CASE ~last_
      BY <1>11, <3>2 DEF Apply, TypeOK
    <3> QED
      BY <3>1, <3>2
  <2>5. \E j : /\ Fits(c, j) /\ j.pc \in {"off", "drain"}
               /\ job' = [job EXCEPT ![c] = j]
    <3>1. CASE last_
      <4>1. job' = [job EXCEPT ![c] = After(c)]
        BY <1>11, <3>1 DEF Apply
      <4>2. 0 \in Nat /\ 0 < Attempts(c)
        BY Plans
      <4>3. Fits(c, After(c)) /\ After(c).pc \in {"off", "drain"}
        BY <4>2, Starts DEF After
      <4> QED
        BY <4>1, <4>3
    <3>2. CASE ~last_
      <4>1. job' = [job EXCEPT ![c] = begun(job[c].tries + 1)]
        BY <1>11, <3>2 DEF Apply
      <4>2. job[c].tries + 1 \in Nat /\ job[c].tries + 1 < Attempts(c)
        BY <3>2, Plans DEF Fits, Job
      <4>3. Fits(c, begun(job[c].tries + 1)) /\ begun(job[c].tries + 1).pc = "drain"
        BY <4>2, Starts
      <4> QED
        BY <4>1, <4>3
    <3> QED
      BY <3>1, <3>2
  <2>6. /\ job' \in [Clients -> Job] /\ lock' \in Clients \cup {Free}
        /\ \A d \in Clients : Fits(d, job'[d]) /\ Holds(d)'
    BY <2>1, <2>3, <2>5, MovesKeepTypes
  <2> QED
    BY <2>1, <2>2, <2>4, <2>6, TypesAgain DEF TypeOK
<1>12. CASE UNCHANGED vars
  BY <1>12 DEF vars, TypeOK
<1>13. CASE Next
  BY <1>1, <1>2, <1>3, <1>4, <1>5, <1>6, <1>7, <1>9, <1>10, <1>11, <1>13 DEF Next, Query
<1> QED
  BY <1>12, <1>13

(* The write lock is held by exactly the client whose capture is under way, *)
(* and nobody leaves its plan or its attempts: SendCmd and queryCapture.    *)
THEOREM TypesHold == Spec => []TypeOK
<1>1. Init => TypeOK
  BY TypeInit
<1>2. TypeOK /\ [Next]_vars => TypeOK'
  BY TypeNext
<1> QED
  BY <1>1, <1>2, PTL DEF Spec
---------------------------------------------------------------------------
(* What a client has: no chunk without a subscription, nothing found at    *)
(* rest, and nothing found that it did not ask for or would not accept.    *)
Own(c) ==
    /\ ~Subscribed(c) => chan[c] = <<>>
    /\ job[c].pc = "off" => \A k \in Kinds : ~Got(c, k)
    /\ \A k \in Kinds : Got(c, k) =>
         c \in Refreshers /\ k \in Asks(c) /\ job[c].found[k].of \in Accepts(k)

(* What a refresher with no event pending has is newer than the last       *)
(* change, and not the event itself.                                       *)
Newer(r) ==
    ~Pending(r) =>
        /\ \A i \in DOMAIN chan[r] : chan[r][i].ver >= last[r] /\ chan[r][i].body # Event(r)
        /\ \A k \in Kinds : Got(r, k) =>
             job[r].found[k].ver >= last[r] /\ job[r].found[k].of # Event(r)

Current(r) ==
    job[r].pc = "off" /\ ok[r] /\ ~Pending(r) =>
        \A k \in Asks(r) : model[k].of = k /\ model[k].ver >= last[r]

Inv ==
    /\ TypeOK
    /\ \A c \in Clients : Own(c)
    /\ \A r \in Refreshers : Newer(r) /\ Current(r)

LEMMA Asking ==
    /\ \A c \in Clients : Asked(c) = Plan(c)[job[c].step]
    /\ \A c \in Clients : \A i \in DOMAIN Plan(c) : Plan(c)[i] \in Asks(c)
    /\ \A c \in Clients : Asks(c) \subseteq Kinds
    /\ Asks("threads") = {"threads", "stack"} /\ Asks("breaks") = {"breaks"}
<1>1. Plan("threads") = <<"threads", "stack">> /\ Plan("breaks") = <<"breaks">>
  BY DEF Plan
<1> QED
  BY <1>1, Plans DEF Asked, Asks

(* GDB prints: a change that is no refresher's event alters nothing, one   *)
(* that is leaves the event to be handled.                                 *)
LEMMA PrintsKeep ==
    ASSUME Inv, NEW body \in Bodies, NEW prompt \in BOOLEAN, NEW ver \in Nat,
           Prints(body, prompt, ver), UNCHANGED <<job, again, model, ok>>,
           \A r \in Refreshers : body # Event(r) => last'[r] = last[r] /\ ver >= last[r]
    PROVE  /\ \A c \in Clients : Own(c)'
           /\ \A r \in Refreshers : Newer(r)' /\ Current(r)'
<1>1. ASSUME NEW c \in Clients PROVE Own(c)'
  <2>1. Own(c) /\ chan' = [d \in Clients |->
                 IF Subscribed(d) /\ Len(chan[d]) < Cap
                 THEN Append(chan[d], [body |-> body, prompt |-> prompt, ver |-> ver])
                 ELSE chan[d]]
    BY DEF Inv, Prints
  <2>2. ~Subscribed(c) => chan'[c] = chan[c]
    BY <2>1
  <2> QED
    BY <2>1, <2>2 DEF Own, Subscribed, Got
<1>2. ASSUME NEW r \in Refreshers, ~Pending(r)'
      PROVE  ~Pending(r) /\ body # Event(r) /\ last'[r] = last[r] /\ ver >= last[r]
  <2>1. ~noted'[r] /\ ~again[r]
    BY <1>2 DEF Pending
  <2>2. noted'[r] = (noted[r] \/ body = Event(r))
    BY DEF Prints
  <2>3. ~noted[r] /\ body # Event(r)
    BY <2>1, <2>2
  <2> QED
    BY <2>1, <2>3 DEF Pending
<1>3. ASSUME NEW r \in Refreshers PROVE Newer(r)'
  <2> SUFFICES ASSUME ~Pending(r)' PROVE Newer(r)'
    BY DEF Newer
  <2>1. ~Pending(r) /\ body # Event(r) /\ last'[r] = last[r] /\ ver >= last[r] /\ Newer(r)
    BY <1>2 DEF Inv
  <2>2. \A i \in DOMAIN chan'[r] : chan'[r][i].ver >= last[r] /\ chan'[r][i].body # Event(r)
    <3> DEFINE new == [body |-> body, prompt |-> prompt, ver |-> ver]
    <3>1. new.ver = ver /\ new.body = body /\ new \in Chunk /\ r \in Clients
          /\ chan[r] \in Seq(Chunk)
      BY DEF Chunk, Clients, Inv, TypeOK
    <3>2. chan'[r] = chan[r] \/ chan'[r] = Append(chan[r], new)
      BY <3>1 DEF Prints
    <3> HIDE DEF new
    <3>3. ASSUME NEW i \in DOMAIN Append(chan[r], new)
          PROVE  Append(chan[r], new)[i] = new
                   \/ (i \in DOMAIN chan[r] /\ Append(chan[r], new)[i] = chan[r][i])
      BY <3>1, <3>3
    <3>4. \A i \in DOMAIN chan[r] : chan[r][i].ver >= last[r] /\ chan[r][i].body # Event(r)
      BY <2>1 DEF Newer
    <3> QED
      BY <2>1, <3>1, <3>2, <3>3, <3>4
  <2>3. \A k \in Kinds : Got(r, k)' =>
          job'[r].found[k].ver >= last'[r] /\ job'[r].found[k].of # Event(r)
    BY <2>1 DEF Newer, Got
  <2> QED
    BY <2>1, <2>2, <2>3 DEF Newer
<1>4. ASSUME NEW r \in Refreshers PROVE Current(r)'
  BY <1>2 DEF Current, Inv
<1> QED
  BY <1>1, <1>3, <1>4

(* A query moves on, and the panes stay: what the mover has must be its    *)
(* own, and newer if no event is pending.                                  *)
LEMMA MovesKeep ==
    ASSUME Inv, NEW c \in Clients, NEW j, Fits(c, j), j.pc # "off",
           job' = [job EXCEPT ![c] = j], UNCHANGED <<last, model, ok>>,
           chan' \in [Clients -> Seq(Chunk)],
           \A d \in Clients \ {c} : chan'[d] = chan[d],
           \A r \in Refreshers \ {c} : Pending(r) => Pending(r)',
           Own(c)', c \in Refreshers => Newer(c)'
    PROVE  /\ \A d \in Clients : Own(d)'
           /\ \A r \in Refreshers : Newer(r)' /\ Current(r)'
<1>1. job'[c] = j /\ \A d \in Clients \ {c} : job'[d] = job[d]
  BY TypeParts, OneMoves DEF Fits, Inv
<1>2. ASSUME NEW d \in Clients PROVE Own(d)'
  BY <1>1 DEF Own, Subscribed, Got, Inv
<1>3. ASSUME NEW r \in Refreshers PROVE Newer(r)' /\ Current(r)'
  <2>1. r \in Clients
    BY DEF Clients
  <2>2. CASE r = c
    BY <1>1, <2>2 DEF Current
  <2>3. CASE r # c
    <3>1. job'[r] = job[r] /\ chan'[r] = chan[r] /\ last'[r] = last[r]
          /\ (Pending(r) => Pending(r)') /\ Newer(r) /\ Current(r)
      BY <1>1, <2>1, <2>3 DEF Inv
    <3>2. Newer(r)'
      BY <3>1 DEF Newer, Got
    <3>3. Current(r)'
      BY <3>1 DEF Current
    <3> QED
      BY <3>2, <3>3
  <2> QED
    BY <2>2, <2>3
<1> QED
  BY <1>2, <1>3

(* The mover has nothing in its channel, and has found what it had found. *)
LEMMA EmptyMoves ==
    ASSUME Inv, NEW c \in Clients, NEW j, Fits(c, j), j.pc # "off",
           job' = [job EXCEPT ![c] = j], UNCHANGED <<last, model, ok>>,
           chan' = [chan EXCEPT ![c] = <<>>], j.found = job[c].found,
           \A r \in Refreshers : Pending(r) => Pending(r)'
    PROVE  /\ \A d \in Clients : Own(d)'
           /\ \A r \in Refreshers : Newer(r)' /\ Current(r)'
<1>1. job'[c] = j /\ chan'[c] = <<>> /\ chan' \in [Clients -> Seq(Chunk)]
      /\ \A d \in Clients \ {c} : chan'[d] = chan[d]
  BY TypeParts, OneMoves DEF Fits, Inv, TypeOK
<1>2. \A k \in Kinds : job'[c].found[k] = job[c].found[k]
  BY <1>1
<1>3. Own(c)'
  BY <1>1, <1>2 DEF Own, Got, Inv
<1>4. c \in Refreshers => Newer(c)'
  BY <1>1, <1>2 DEF Newer, Got, Inv
<1> QED
  BY <1>1, <1>3, <1>4, MovesKeep
(* What a client has found after a chunk is still its own and newer. *)
LEMMA WithKeeps ==
    ASSUME Inv, NEW c \in Clients, NEW i \in DOMAIN chan[c], chan[c][i] \in Chunk,
           NEW k \in Kinds, With(c, chan[c][i]).found[k].of # "none"
    PROVE  LET f == With(c, chan[c][i]).found[k] IN
           /\ c \in Refreshers /\ k \in Asks(c) /\ f.of \in Accepts(k)
           /\ ~Pending(c) => f.ver >= last[c] /\ f.of # Event(c)
<1> DEFINE chunk == chan[c][i]
           f == With(c, chunk).found[k]
<1>0. TypeOK /\ Fits(c, job[c]) /\ chunk \in Chunk
  BY TypeParts DEF Inv
<1>1. c \in Refreshers
  <2> SUFFICES ASSUME c \notin Refreshers PROVE FALSE
    OBVIOUS
  <2>1. With(c, chunk).found = job[c].found
    BY <1>0, WithFits
  <2> QED
    BY <2>1 DEF Inv, Own, Got
<1>2. f = Parsed(job[c].found, Asked(c), chunk)[k]
  BY <1>0, <1>1, WithFits
<1>3. job[c].found \in [Kinds -> Found] /\ Asked(c) \in Kinds /\ Asked(c) \in Asks(c)
  BY <1>0, Plans, Asking DEF Fits, Job
<1>4. \/ f = job[c].found[k]
      \/ /\ k = Asked(c) /\ chunk.body \in Accepts(k)
         /\ f.ver = chunk.ver /\ f.of = chunk.body
  <2> HIDE DEF chunk
  <2> QED
    BY <1>2, <1>3 DEF Parsed
<1>5. CASE f = job[c].found[k]
  BY <1>1, <1>5 DEF Inv, Own, Newer, Got
<1>6. CASE /\ k = Asked(c) /\ chunk.body \in Accepts(k)
           /\ f.ver = chunk.ver /\ f.of = chunk.body
  BY <1>1, <1>3, <1>6 DEF Inv, Newer
<1> QED
  BY <1>4, <1>5, <1>6

LEMMA TakeKeeps ==
    ASSUME Inv, NEW c \in Clients, Take(c)
    PROVE  /\ \A d \in Clients : Own(d)'
           /\ \A r \in Refreshers : Newer(r)' /\ Current(r)'
<1> DEFINE chunk == Head(chan[c])
           j == With(c, chunk)
<1>1. /\ UNCHANGED <<last, again, model, ok>>
      /\ job[c].pc = "capture" /\ chan[c] # <<>>
  BY DEF Take, world, aux
<1>2. /\ chan[c] \in Seq(Chunk) /\ chunk \in Chunk /\ Tail(chan[c]) \in Seq(Chunk)
      /\ 1 \in DOMAIN chan[c] /\ chunk = chan[c][1]
      /\ \A i \in DOMAIN Tail(chan[c]) :
           i + 1 \in DOMAIN chan[c] /\ Tail(chan[c])[i] = chan[c][i + 1]
  BY <1>1 DEF Inv, TypeOK
<1>3. Fits(c, j) /\ j.pc = "capture"
  BY <1>1, <1>2, WithFits DEF Inv
<1>4. ASSUME NEW k \in Kinds, j.found[k].of # "none"
      PROVE  /\ c \in Refreshers /\ k \in Asks(c) /\ j.found[k].of \in Accepts(k)
             /\ ~Pending(c) => j.found[k].ver >= last[c] /\ j.found[k].of # Event(c)
  BY <1>2, <1>4, WithKeeps
<1>5. CASE chunk.prompt
  <2> DEFINE n == IF j.step < Len(Plan(c))
                  THEN [j EXCEPT !.step = @ + 1, !.pc = "drain"]
                  ELSE [j EXCEPT !.pc = "apply"]
  <2>1. Over(c, j)
    BY <1>5 DEF Take
  <2> HIDE DEF j, chunk
  <2>2. Fits(c, n) /\ n.pc \in {"drain", "apply"} /\ n.found = j.found
    BY <1>3, OverMoves
  <2>3. job' = [job EXCEPT ![c] = n] /\ chan' = [chan EXCEPT ![c] = <<>>]
    BY <2>1 DEF Over
  <2>4. \A r \in Refreshers : Pending(r) => Pending(r)'
    <3> SUFFICES ASSUME NEW r \in Refreshers, noted[r] PROVE noted'[r]
      BY <1>1 DEF Pending
    <3> QED
      BY <2>1 DEF Over
  <2> HIDE DEF n
  <2>5. job'[c] = n /\ chan'[c] = <<>> /\ chan' \in [Clients -> Seq(Chunk)]
        /\ \A d \in Clients \ {c} : chan'[d] = chan[d]
    BY <2>2, <2>3, TypeParts, OneMoves DEF Fits, Inv, TypeOK
  <2>6. Own(c)'
    BY <1>4, <2>2, <2>5 DEF Own, Got
  <2>7. c \in Refreshers => Newer(c)'
    BY <1>1, <1>4, <2>2, <2>4, <2>5 DEF Newer, Got
  <2> QED
    BY <1>1, <2>2, <2>3, <2>4, <2>5, <2>6, <2>7, MovesKeep
<1>6. CASE ~chunk.prompt
  <2>1. job' = [job EXCEPT ![c] = j] /\ chan' = [chan EXCEPT ![c] = Tail(chan[c])]
        /\ noted' = noted
    BY <1>6 DEF Take
  <2> HIDE DEF j, chunk
  <2>2. job'[c] = j /\ chan'[c] = Tail(chan[c]) /\ chan' \in [Clients -> Seq(Chunk)]
        /\ \A d \in Clients \ {c} : chan'[d] = chan[d]
    BY <1>2, <1>3, <2>1, TypeParts, OneMoves DEF Fits, Inv, TypeOK
  <2>3. \A r \in Refreshers : Pending(r)' = Pending(r)
    BY <1>1, <2>1 DEF Pending
  <2>4. Own(c)'
    BY <1>3, <1>4, <2>2 DEF Own, Got, Subscribed
  <2>5. c \in Refreshers => Newer(c)'
    BY <1>1, <1>2, <1>4, <2>2, <2>3 DEF Newer, Got, Inv
  <2> QED
    BY <1>1, <1>3, <2>1, <2>2, <2>3, <2>4, <2>5, MovesKeep
<1> QED
  BY <1>5, <1>6

(* What a run found becomes what the panes show: of another refresher's    *)
(* kinds nothing is shown anew.                                            *)
LEMMA ApplyKeeps ==
    ASSUME Inv, NEW c \in Clients, Apply(c)
    PROVE  /\ \A d \in Clients : Own(d)'
           /\ \A r \in Refreshers : Newer(r)' /\ Current(r)'
<1> DEFINE all == \A k \in Asks(c) : Got(c, k)
           ends == all \/ job[c].tries + 1 = Attempts(c)
<1>1. /\ UNCHANGED <<last, chan, noted>> /\ job[c].pc = "apply"
      /\ model' = [k \in Kinds |-> Shown(c, k)]
  BY DEF Apply, world
<1>2. \E j : /\ Fits(c, j) /\ j.pc \in {"off", "drain"}
             /\ \A k \in Kinds : j.found[k].of = "none"
             /\ job' = [job EXCEPT ![c] = j]
             /\ j.pc = "off" => ends /\ ~(c \in Refreshers /\ again[c])
  <2>1. Nothing.of = "none"
    BY DEF Nothing
  <2>2. CASE ends
    <3>1. job' = [job EXCEPT ![c] = After(c)]
      BY <2>2 DEF Apply
    <3>2. 0 \in Nat /\ 0 < Attempts(c)
      BY Plans
    <3>3. /\ Fits(c, After(c)) /\ After(c).pc \in {"off", "drain"}
          /\ \A k \in Kinds : After(c).found[k].of = "none"
          /\ After(c).pc = "off" => ~(c \in Refreshers /\ again[c])
      <4>1. /\ Fits(c, begun(0)) /\ begun(0).pc = "drain"
            /\ \A k \in Kinds : begun(0).found[k].of = "none"
        BY <2>1, <3>2, Starts
      <4>2. /\ Fits(c, idle) /\ idle.pc = "off"
            /\ \A k \in Kinds : idle.found[k].of = "none"
        BY <2>1, <3>2, Starts
      <4>3. CASE c \in Refreshers /\ again[c]
        <5>1. After(c) = begun(0)
          BY <4>3 DEF After
        <5> QED
          BY <4>1, <4>3, <5>1
      <4>4. CASE ~(c \in Refreshers /\ again[c])
        <5>1. After(c) = idle
          BY <4>4 DEF After
        <5> QED
          BY <4>2, <4>4, <5>1
      <4> QED
        BY <4>3, <4>4
    <3> QED
      BY <2>2, <3>1, <3>3
  <2>3. CASE ~ends
    <3>1. job' = [job EXCEPT ![c] = begun(job[c].tries + 1)]
      BY <2>3 DEF Apply
    <3>2. job[c].tries + 1 \in Nat /\ job[c].tries + 1 < Attempts(c)
      BY <2>3, Plans, TypeParts DEF Fits, Job, Inv
    <3>3. /\ Fits(c, begun(job[c].tries + 1)) /\ begun(job[c].tries + 1).pc = "drain"
          /\ \A k \in Kinds : begun(job[c].tries + 1).found[k].of = "none"
      BY <2>1, <3>2, Starts
    <3> QED
      BY <3>1, <3>3
  <2> QED
    BY <2>2, <2>3
<1>3. PICK j : /\ Fits(c, j) /\ j.pc \in {"off", "drain"}
               /\ \A k \in Kinds : j.found[k].of = "none"
               /\ job' = [job EXCEPT ![c] = j]
               /\ j.pc = "off" => ends /\ ~(c \in Refreshers /\ again[c])
  BY <1>2
<1>4. job'[c] = j /\ \A d \in Clients \ {c} : job'[d] = job[d]
  BY <1>3, TypeParts, OneMoves DEF Fits, Inv
<1>5. chan[c] = <<>>
  BY <1>1 DEF Inv, Own, Subscribed
<1>6. ASSUME NEW r \in Refreshers, r # c
      PROVE  again'[r] = again[r] /\ ok'[r] = ok[r]
  BY <1>6, ZenonT(60) DEF Apply, Inv, TypeOK
<1>7. ASSUME NEW d \in Clients PROVE Own(d)'
  BY <1>1, <1>3, <1>4, <1>5 DEF Own, Subscribed, Got, Inv
<1>8. ASSUME NEW r \in Refreshers PROVE Newer(r)'
  <2>1. CASE r = c
    BY <1>1, <1>3, <1>4, <1>5, <2>1 DEF Newer, Got
  <2>2. CASE r # c
    <3>1. r \in Clients
      BY DEF Clients
    <3> QED
      BY <1>1, <1>4, <1>6, <2>2, <3>1 DEF Newer, Got, Pending, Inv
  <2> QED
    BY <2>1, <2>2
<1>9. ASSUME NEW r \in Refreshers, r # c PROVE Current(r)'
  <2>1. job'[r] = job[r] /\ ok'[r] = ok[r] /\ (Pending(r)' = Pending(r)) /\ last'[r] = last[r]
    BY <1>1, <1>4, <1>6, <1>9 DEF Pending, Clients
  <2>2. ASSUME NEW k \in Asks(r) PROVE model'[k] = model[k]
    <3>1. r \in Clients /\ k \in Kinds
      BY Asking DEF Clients
    <3>2. ~Got(c, k)
      <4> SUFFICES ASSUME Got(c, k) PROVE FALSE
        OBVIOUS
      <4>1. c \in Refreshers /\ k \in Asks(c)
        BY <3>1 DEF Inv, Own
      <4> QED
        BY <1>9, <4>1, Asking DEF Refreshers
    <3>3. ~(k = "stack" /\ job[c].found["threads"].of = "stop")
      <4> SUFFICES ASSUME k = "stack", job[c].found["threads"].of = "stop" PROVE FALSE
        OBVIOUS
      <4>1. Got(c, "threads") /\ "threads" \in Kinds
        BY DEF Got, Kinds
      <4>2. c \in Refreshers /\ "threads" \in Asks(c)
        BY <4>1 DEF Inv, Own
      <4> QED
        BY <1>9, <4>2, Asking DEF Refreshers
    <3> QED
      BY <1>1, <3>1, <3>2, <3>3 DEF Shown
  <2>3. Current(r)
    BY DEF Inv
  <2> QED
    BY <2>1, <2>2, <2>3 DEF Current
<1>10. ASSUME c \in Refreshers PROVE Current(c)'
  <2> SUFFICES ASSUME job'[c].pc = "off", ok'[c], ~Pending(c)', NEW k \in Asks(c)
               PROVE  model'[k].of = k /\ model'[k].ver >= last'[c]
    BY DEF Current
  <2>1. ends /\ ~again[c] /\ ~noted[c]
    BY <1>1, <1>3, <1>4, <1>10 DEF Pending
  <2>2. ok' = [r \in Refreshers |-> IF r = c THEN all ELSE ok[r]]
    BY <2>1 DEF Apply
  <2>3. all
    BY <1>10, <2>2
  <2>4. k \in Kinds /\ Got(c, k)
    BY <2>3, Asking
  <2>5. job[c].found[k].of \in Accepts(k) /\ job[c].found[k].of # Event(c)
        /\ job[c].found[k].ver >= last[c]
    BY <1>10, <2>1, <2>4 DEF Inv, Own, Newer, Pending
  <2>6. model'[k] = job[c].found[k]
    BY <1>1, <2>4 DEF Shown
  <2>7. job[c].found[k].of = k
    <3>1. CASE c = "threads"
      BY <2>5, <3>1, Asking DEF Accepts, Event
    <3>2. CASE c = "breaks"
      BY <2>5, <3>2, Asking DEF Accepts, Event
    <3> QED
      BY <1>10, <3>1, <3>2 DEF Refreshers
  <2> QED
    BY <1>1, <2>5, <2>6, <2>7
<1> QED
  BY <1>7, <1>8, <1>9, <1>10
LEMMA InvInit == Init => Inv
<1> SUFFICES ASSUME Init PROVE Inv
  OBVIOUS
<1>1. \A c \in Clients : idle.pc = "off" /\ \A k \in Kinds : idle.found[k].of = "none"
  <2> SUFFICES ASSUME NEW c \in Clients
               PROVE  idle.pc = "off" /\ \A k \in Kinds : idle.found[k].of = "none"
    OBVIOUS
  <2>1. 0 \in Nat /\ 0 < Attempts(c) /\ Nothing.of = "none"
    BY Plans DEF Nothing
  <2> QED
    BY <2>1, Starts
<1>2. \A c \in Clients : job[c] = idle /\ chan[c] = <<>>
  BY DEF Init
<1>3. \A c \in Clients : Own(c)
  BY <1>1, <1>2 DEF Own, Got
<1>4. \A r \in Refreshers : Newer(r)
  BY <1>1, <1>2 DEF Newer, Got, Clients
<1>5. \A r \in Refreshers : Current(r)
  BY DEF Init, Current
<1> QED
  BY <1>3, <1>4, <1>5, TypeInit DEF Inv

LEMMA InvNext == Inv /\ [Next]_vars => Inv'
<1> SUFFICES ASSUME Inv, [Next]_vars
             PROVE  /\ \A c \in Clients : Own(c)'
                    /\ \A r \in Refreshers : Newer(r)' /\ Current(r)'
  BY TypeNext DEF Inv
<1> DEFINE Kept == /\ \A c \in Clients : Own(c)'
                   /\ \A r \in Refreshers : Newer(r)' /\ Current(r)'
<1> USE DEF world, aux
<1>0. TypeOK /\ \A c \in Clients : Fits(c, job[c])
  BY TypeParts DEF Inv
<1>1. ASSUME NEW r \in Refreshers, Change(r) PROVE Kept
  <2>1. /\ Event(r) \in Bodies /\ (r = "threads") \in BOOLEAN /\ now + 1 \in Nat
    BY <1>0 DEF Event, Bodies, Events, TypeOK
  <2>2. Prints(Event(r), r = "threads", now + 1) /\ UNCHANGED <<job, again, model, ok>>
    BY <1>1 DEF Change
  <2>3. ASSUME NEW q \in Refreshers, Event(r) # Event(q)
        PROVE  last'[q] = last[q] /\ now + 1 >= last[q]
    BY <1>0, <1>1, <2>3 DEF Change, TypeOK
  <2> QED
    BY <2>1, <2>2, <2>3, PrintsKeep
<1>2. ASSUME GdbReads PROVE Kept
  <2>1. Head(cmds) \in Bodies /\ now \in Nat /\ (Head(cmds) = "none") \in BOOLEAN
    <3>1. cmds # <<>> /\ cmds \in Seq(Kinds \cup {"none"})
      BY <1>0, <1>2 DEF GdbReads, TypeOK
    <3>2. Head(cmds) \in Kinds \cup {"none"}
      BY <3>1
    <3>3. now \in Nat
      BY <1>0 DEF TypeOK
    <3> QED
      BY <3>2, <3>3 DEF Bodies
  <2>2. Prints(Head(cmds), Head(cmds) = "none", now) /\ UNCHANGED <<job, again, model, ok, last>>
    BY <1>2 DEF GdbReads
  <2>3. \A q \in Refreshers : now >= last[q]
    BY <1>0 DEF TypeOK
  <2> QED
    BY <2>1, <2>2, <2>3, PrintsKeep
<1>3. ASSUME NEW r \in Refreshers, Handle(r) PROVE Kept
  <2>1. UNCHANGED <<last, chan, model, ok>> /\ noted' = [noted EXCEPT ![r] = FALSE]
        /\ r \in Clients
    BY <1>3 DEF Handle, Clients
  <2>2. CASE job[r].pc = "off"
    <3>1. 0 \in Nat /\ 0 < Attempts(r) /\ Nothing.of = "none"
      BY <2>1, Plans DEF Nothing
    <3>2. Fits(r, begun(0)) /\ begun(0).pc = "drain"
          /\ \A k \in Kinds : begun(0).found[k].of = "none"
      BY <2>1, <3>1, Starts
    <3>3. job' = [job EXCEPT ![r] = begun(0)] /\ again' = again
      BY <1>3, <2>2 DEF Handle, Schedule
    <3>4. job'[r] = begun(0)
      BY <1>0, <2>1, <3>3, TypeParts
    <3>5. chan'[r] = <<>> /\ chan' \in [Clients -> Seq(Chunk)]
      BY <1>0, <2>1, <2>2 DEF Inv, Own, Subscribed, TypeOK
    <3>6. \A q \in Refreshers \ {r} : Pending(q) => Pending(q)'
      BY <1>0, <2>1, <3>3 DEF Pending, TypeOK
    <3>7. Own(r)' /\ Newer(r)'
      BY <3>2, <3>4, <3>5 DEF Own, Newer, Got
    <3> QED
      BY <2>1, <3>2, <3>3, <3>5, <3>6, <3>7, MovesKeep
  <2>3. CASE job[r].pc # "off"
    <3>1. UNCHANGED job /\ again' = [again EXCEPT ![r] = TRUE]
      BY <1>3, <2>3 DEF Handle, Schedule
    <3>2. ASSUME NEW q \in Refreshers PROVE Pending(q) => Pending(q)'
      BY <1>0, <2>1, <3>1 DEF Pending, TypeOK
    <3>3. \A c \in Clients : Own(c)'
      BY <2>1, <3>1 DEF Own, Subscribed, Got, Inv
    <3>4. \A q \in Refreshers : Newer(q)' /\ Current(q)'
      BY <2>1, <3>1, <3>2 DEF Newer, Current, Got, Inv
    <3> QED
      BY <3>3, <3>4
  <2> QED
    BY <2>2, <2>3
<1>4. ASSUME SendCmd PROVE Kept
  <2>1. UNCHANGED <<last, chan, job, again, noted, model, ok>>
    BY <1>4 DEF SendCmd
  <2> QED
    BY <2>1 DEF Own, Newer, Current, Subscribed, Got, Pending, Inv
<1>5. ASSUME NEW c \in Clients, Ask(c) PROVE Kept
  <2>1. /\ UNCHANGED <<last, chan, again, noted, model, ok>> /\ job[c].pc = "off"
        /\ job' = [job EXCEPT ![c] = begun(0)] /\ c \in Tools
    BY <1>5 DEF Ask
  <2>2. 0 \in Nat /\ 0 < Attempts(c) /\ Nothing.of = "none" /\ c \notin Refreshers
    BY <2>1, Plans, QueryCaptureAssumption DEF Nothing, Refreshers
  <2>3. Fits(c, begun(0)) /\ begun(0).pc = "drain"
        /\ \A k \in Kinds : begun(0).found[k].of = "none"
    BY <2>2, Starts
  <2>4. job'[c] = begun(0)
    BY <1>0, <2>1, TypeParts
  <2>5. chan'[c] = <<>> /\ chan' \in [Clients -> Seq(Chunk)]
    BY <1>0, <2>1 DEF Inv, Own, Subscribed, TypeOK
  <2>6. Own(c)'
    BY <2>3, <2>4, <2>5 DEF Own, Got
  <2>7. \A r \in Refreshers : Pending(r)' = Pending(r)
    BY <2>1 DEF Pending
  <2> QED
    BY <2>1, <2>2, <2>3, <2>5, <2>6, <2>7, MovesKeep
<1>6. ASSUME NEW c \in Clients, Drain(c) PROVE Kept
  <2> DEFINE j == [job[c] EXCEPT !.pc = "wait"]
  <2>1. Fits(c, j) /\ j.pc = "wait" /\ j.found = job[c].found
    <3>1. "wait" \in Pcs
      BY DEF Pcs
    <3> QED
      BY <1>0, <3>1, PcMoves
  <2>2. job' = [job EXCEPT ![c] = j] /\ chan' = [chan EXCEPT ![c] = <<>>]
        /\ UNCHANGED <<last, again, noted, model, ok>>
    BY <1>6 DEF Drain
  <2>3. \A r \in Refreshers : Pending(r)' = Pending(r)
    BY <2>2 DEF Pending
  <2> HIDE DEF j
  <2> QED
    BY <2>1, <2>2, <2>3, EmptyMoves
<1>7. ASSUME NEW c \in Clients, Send(c) PROVE Kept
  <2> DEFINE j == [job[c] EXCEPT !.pc = "capture"]
  <2>1. Fits(c, j) /\ j.pc = "capture" /\ j.found = job[c].found
    <3>1. "capture" \in Pcs
      BY DEF Pcs
    <3> QED
      BY <1>0, <3>1, PcMoves
  <2>2. job' = [job EXCEPT ![c] = j] /\ UNCHANGED <<last, chan, again, noted, model, ok>>
        /\ job[c].pc = "wait"
    BY <1>7 DEF Send
  <2>3. \A r \in Refreshers : Pending(r)' = Pending(r)
    BY <2>2 DEF Pending
  <2> HIDE DEF j
  <2>4. job'[c] = j /\ chan' \in [Clients -> Seq(Chunk)]
    BY <1>0, <2>1, <2>2, TypeParts DEF TypeOK
  <2>5. Own(c)' /\ (c \in Refreshers => Newer(c)')
    BY <2>1, <2>2, <2>3, <2>4 DEF Own, Newer, Subscribed, Got, Inv
  <2> QED
    BY <2>1, <2>2, <2>3, <2>4, <2>5, MovesKeep
<1>8. ASSUME NEW c \in Clients, Timeout(c) \/ GiveUp(c) PROVE Kept
  <2> DEFINE n == IF job[c].step < Len(Plan(c))
                  THEN [job[c] EXCEPT !.step = @ + 1, !.pc = "drain"]
                  ELSE [job[c] EXCEPT !.pc = "apply"]
  <2>1. Over(c, job[c]) /\ UNCHANGED <<last, again, model, ok>>
    BY <1>8 DEF Timeout, GiveUp
  <2>2. Fits(c, n) /\ n.pc \in {"drain", "apply"} /\ n.found = job[c].found
    BY <1>0, OverMoves
  <2>3. job' = [job EXCEPT ![c] = n] /\ chan' = [chan EXCEPT ![c] = <<>>]
    BY <2>1 DEF Over
  <2>4. \A r \in Refreshers : Pending(r) => Pending(r)'
    <3> SUFFICES ASSUME NEW r \in Refreshers, noted[r] PROVE noted'[r]
      BY <2>1 DEF Pending
    <3> QED
      BY <2>1 DEF Over
  <2> HIDE DEF n
  <2> QED
    BY <2>1, <2>2, <2>3, <2>4, EmptyMoves
<1>9. CASE UNCHANGED vars
  BY <1>9 DEF vars, Own, Newer, Current, Subscribed, Got, Pending, Inv
<1>10. CASE Next
  BY <1>1, <1>2, <1>3, <1>4, <1>5, <1>6, <1>7, <1>8, <1>10, TakeKeeps, ApplyKeeps
     DEF Next, Query
<1> QED
  BY <1>9, <1>10

(* A settled refresh shows replies newer than the last change, whoever else *)
(* queries or sends, whatever is taken for a reply, lost or late: the       *)
(* capture of app/debug_info.go and app/breakpoints.go.                     *)
THEOREM SettledAlwaysCurrent == Spec => []SettledIsCurrent
<1>1. Init => Inv
  BY InvInit
<1>2. Inv /\ [Next]_vars => Inv'
  BY InvNext
<1>3. Inv => SettledIsCurrent
  BY DEF Inv, Current, SettledIsCurrent
<1> QED
  BY <1>1, <1>2, <1>3, PTL DEF Spec

---------------------------------------------------------------------------
(* Modes: who gets the next key.                                           *)
(*                                                                         *)
(* The keys of a console's wildmenu go to the console, the others of the   *)
(* three typing modes to the cmdline.                                      *)
InConsole(u) == u.mode = "completion" /\ (u.forGDB \/ u.forLua)
InCmdLine(u) == u.mode \in Typing /\ ~InConsole(u)

(* Whatever the user does ahead of the posts: the mode does not outlive    *)
(* the cmdline, except where a lone ':' was deleted, ...                   *)
CmdLineIsOpen(u, c) ==
    /\ u.mode = "command" => u.cmd.active \/ c
    /\ u.mode = "completion" => u.forGDB \/ u.forLua \/ u.cmd.active \/ c

(* ... and an Esc leaves nothing posted but the exit of the cmdline, so   *)
(* that one leads out of search and of the wildmenu, and the next one home.*)
EscsCount ==
    /\ escs > 0 => posts = <<>> \/ posts = <<[msg |-> "exit"]>>
    /\ escs > 0 /\ posts = <<>> => ui.mode \notin {"completion", "search"}
    /\ EscsLeadHome

(* In calm behaviours: the mode, the focus, the green status and the pane *)
(* that ticks fit, whosever the wildmenu is; ...                           *)
Readers(u) ==
    /\ Reads(u)
    /\ u.lua <=> (u.mode = "lua")
    /\ u.forGDB => u.mode = "completion" /\ u.focus = "gdb"
    /\ u.forLua /\ u.mode = "completion" => u.focus = "repl"
    /\ u.green <=> (u.mode = "insert" \/ InConsole(u))

(* ... the cmdline is open exactly while it has the keys; ...              *)
CmdLine(u, c) ==
    /\ u.cmd.active => InCmdLine(u)
    /\ InCmdLine(u) /\ ~u.cmd.active => c
    /\ c => u.mode = "command" /\ ~u.cmd.active
    /\ InCmdLine(u) => (u.cmd.kind = "search" <=> u.mode = "search")
    /\ u.menu > 1 => u.mode = "completion"

(* ... a pane shows a pattern while '/' is typed, unless none is typed, or *)
(* until what Enter posted is in; ...                                      *)
Preview(u, s) ==
    /\ u.previews \subseteq {u.target}
    /\ u.mode = "search" => u.target # "none"
    /\ u.previews # {} => \/ u.mode = "search" /\ (s = <<>> => u.cmd.chars > 0)
                          \/ s # <<>> /\ s[1].msg = "submit"

(* ... and what is posted was posted in this mode.                         *)
Posted(u, s) ==
    \/ s = <<>>
    \/ /\ Len(s) = 1
       /\ \/ s[1].msg = "exit" /\ u.mode \in {"command", "search"}
          \/ s[1].msg = "names" /\ u.mode \in {"command", "completion"} /\ u.cmd.active
          \/ s[1].msg = "submit" /\ u.mode = "normal"
          \/ s[1].msg = "text" /\ u.mode = "search" /\ (s[1].some <=> u.cmd.chars > 0)

Fine(u, s, c) == Readers(u) /\ CmdLine(u, c) /\ Preview(u, s) /\ Posted(u, s)

IInv == /\ ModesTypeOK
        /\ CmdLineIsOpen(ui, cut)
        /\ EscsCount
        /\ calm => Fine(ui, posts, cut)

(* What an input has to see to.                                            *)
Single == {<<>>} \cup {<<p>> : p \in Posts}

Leads(v, post, barges) ==
    /\ v \in UI /\ post \in Single /\ cut' \in BOOLEAN
    /\ CmdLineIsOpen(v, cut')
    /\ calm /\ posts = <<>> /\ ~barges => Fine(v, post, cut')

Escapes(v, post) ==
    posts = <<>> => /\ post = <<>> \/ post = <<[msg |-> "exit"]>>
                    /\ post = <<>> => v.mode \notin {"completion", "search"}
                    /\ escs > 0 /\ post = <<>> /\ ~cut' => v.mode = "normal"

LEMMA PostsJoined ==
    ASSUME NEW s \in Seq(Posts), NEW t \in Seq(Posts)
    PROVE  /\ s \o t \in Seq(Posts) /\ Len(s \o t) = Len(s) + Len(t)
           /\ s = <<>> => s \o t = t
           /\ t = <<>> => s \o t = s
           /\ s \o t = <<>> => s = <<>> /\ t = <<>>
<1>1. s \o t \in Seq(Posts) /\ Len(s \o t) = Len(s) + Len(t)
  OBVIOUS
<1>2. s = <<>> => s \o t = t
  OBVIOUS
<1>3. t = <<>> => s \o t = s
  OBVIOUS
<1>4. s \o t = <<>> => s = <<>> /\ t = <<>>
  <2>1. Len(s) \in Nat /\ Len(t) \in Nat /\ (s = <<>> <=> Len(s) = 0) /\ (t = <<>> <=> Len(t) = 0)
    OBVIOUS
  <2> QED
    BY <1>1, <2>1
<1> QED
  BY <1>1, <1>2, <1>3, <1>4

LEMMA InputKeeps ==
    ASSUME IInv, NEW v, NEW post, NEW barges \in BOOLEAN,
           Input(v, post, barges), Leads(v, post, barges),
           NotEsc \/ (IsEsc /\ Escapes(v, post))
    PROVE  IInv'
<1>1. posts \in Seq(Posts) /\ post \in Seq(Posts)
  <2>1. posts \in Seq(Posts)
    BY DEF IInv, ModesTypeOK
  <2>2. CASE post = <<>>
    BY <2>1, <2>2
  <2>3. CASE post # <<>>
    <3>1. PICK p \in Posts : post = <<p>>
      BY <2>3 DEF Leads, Single
    <3> QED
      BY <2>1, <3>1
  <2> QED
    BY <2>1, <2>2, <2>3
<1>a. posts' = posts \o post
  BY DEF Input
<1>2. posts' = posts \o post /\ posts' \in Seq(Posts) /\ Len(posts') = Len(posts) + Len(post)
  BY <1>1, <1>a, PostsJoined
<1>3. (posts = <<>> => posts' = post) /\ (post = <<>> => posts' = posts)
  BY <1>1, <1>a, PostsJoined
<1>4. posts' = <<>> => posts = <<>> /\ post = <<>>
  BY <1>1, <1>a, PostsJoined
<1>5. ModesTypeOK'
  BY <1>2 DEF IInv, ModesTypeOK, Input, Leads, NotEsc, IsEsc
<1>6. CmdLineIsOpen(ui', cut')
  BY DEF Input, Leads
<1>7. calm' => Fine(ui', posts', cut')
  BY <1>3 DEF Input, Leads
<1>8. EscsCount'
  <2>1. CASE NotEsc
    BY <2>1 DEF EscsCount, NotEsc, EscsLeadHome
  <2>2. CASE IsEsc /\ Escapes(v, post)
    <3>1. escs \in 0..2
      BY DEF IInv, ModesTypeOK
    <3>2. CASE posts # <<>>
      BY <2>2, <3>2 DEF EscsCount, IsEsc, EscsLeadHome
    <3>3. CASE posts = <<>>
      <4>1. posts' = post /\ ui' = v
        BY <1>3, <3>3 DEF Input
      <4>2. escs' = 2 => escs > 0
        BY <2>2, <3>1, <3>3 DEF IsEsc
      <4> QED
        BY <2>2, <3>3, <4>1, <4>2 DEF EscsCount, Escapes, EscsLeadHome
    <3> QED
      BY <3>2, <3>3
  <2> QED
    BY <2>1, <2>2
<1> QED
  BY <1>5, <1>6, <1>7, <1>8 DEF IInv, CmdLineIsOpen, Fine


---------------------------------------------------------------------------
(* What the controllers' methods leave. *)


(* v differs from u at most in who has the keys and how that is shown.     *)
Turned(u, v) ==
    /\ v \in UI
    /\ v.cmd = u.cmd /\ v.menu = u.menu /\ v.forGDB = u.forGDB /\ v.forLua = u.forLua
    /\ v.target = u.target /\ v.previews = u.previews

LEMMA Leaving ==
    ASSUME NEW u \in UI
    PROVE  /\ Turned(u, luaLeave(u))
           /\ ~luaLeave(u).lua /\ luaLeave(u).focus = u.focus /\ luaLeave(u).green = u.green
           /\ luaLeave(u).mode = IF u.mode = "lua" THEN "normal" ELSE u.mode
<1>1. CASE u.mode = "lua"
  BY <1>1 DEF luaLeave, UI, Modes, Turned
<1>2. CASE u.mode # "lua"
  BY <1>2 DEF luaLeave, UI, Modes, Turned
<1> QED
  BY <1>1, <1>2

LEMMA EnteringLua ==
    ASSUME NEW u \in UI
    PROVE  /\ Turned(u, luaEnter(u))
           /\ luaEnter(u).lua /\ luaEnter(u).focus = u.focus /\ ~luaEnter(u).green
           /\ luaEnter(u).mode = "lua"
BY DEF luaEnter, UI, Modes, Turned

LEMMA EnteringInsert ==
    ASSUME NEW u \in UI
    PROVE  /\ Turned(u, EnterInsertMode(u))
           /\ ~EnterInsertMode(u).lua /\ EnterInsertMode(u).focus = u.focus
           /\ EnterInsertMode(u).green /\ EnterInsertMode(u).mode = "insert"
<1> DEFINE w == luaLeave(u)
<1>1. Turned(u, w) /\ w.focus = u.focus /\ ~w.lua
  BY Leaving
<1>2. EnterInsertMode(u) = [w EXCEPT !.green = TRUE, !.mode = "insert"]
  BY DEF EnterInsertMode
<1> HIDE DEF w
<1>3. w \in UI
  BY <1>1 DEF Turned
<1> QED
  BY <1>1, <1>2, <1>3, ZenonT(60) DEF UI, Modes, Turned

LEMMA Refocused ==
    ASSUME NEW u \in UI, NEW p \in Panes
    PROVE  LET v == [u EXCEPT !.focus = p]
           IN  /\ Turned(u, v) /\ v.focus = p
               /\ v.mode = u.mode /\ v.green = u.green /\ v.lua = u.lua
BY DEF UI, Turned

LEMMA ToCode ==
    ASSUME NEW u \in UI
    PROVE  LET v == FocusCode(u)
           IN  /\ Turned(u, v) /\ v.focus = "code" /\ v.mode = "normal" /\ ~v.green /\ v.lua = u.lua
BY DEF FocusCode, UI, Turned, Modes, Panes, Texts

LEMMA ToGdb ==
    ASSUME NEW u \in UI
    PROVE  LET v == activateGdbInsertMode(u)
           IN  /\ Turned(u, v) /\ v.focus = "gdb" /\ v.mode = "insert" /\ v.green /\ ~v.lua
<1> DEFINE w == [u EXCEPT !.focus = "gdb"]
<1>1. Turned(u, w) /\ w.focus = "gdb"
  BY Refocused DEF Panes, Texts
<1> HIDE DEF w
<1>2. LET v == EnterInsertMode(w)
      IN  /\ Turned(w, v) /\ v.focus = "gdb" /\ v.mode = "insert" /\ v.green /\ ~v.lua
  BY <1>1, EnteringInsert DEF Turned
<1> QED
  BY <1>1, <1>2 DEF activateGdbInsertMode, Turned, w

LEMMA Escaping ==
    ASSUME NEW u \in UI, NEW v \in onEscape(u)
    PROVE  Turned(u, v) /\ v.mode = "normal" /\ ~v.green /\ v.lua = u.lua
<1>1. PICK p \in Panes : v = [u EXCEPT !.green = FALSE, !.mode = "normal", !.focus = p]
  BY DEF onEscape, UI
<1> QED
  BY <1>1 DEF UI, Turned, Modes

LEMMA Swapping ==
    ASSUME NEW u \in UI, NEW p \in Panes
    PROVE  LET v == swapFocusedWidget(u, p)
           IN  /\ Turned(u, v) /\ v.mode = u.mode /\ v.green = u.green /\ v.lua = u.lua
               /\ u.focus = "gdb" => v.focus = "gdb"
               /\ u.focus # "gdb" => v.focus = p
<1>1. CASE u.focus = "gdb"
  BY <1>1 DEF swapFocusedWidget, Turned
<1>2. CASE u.focus # "gdb"
  BY <1>2, Refocused DEF swapFocusedWidget
<1> QED
  BY <1>1, <1>2

LEMMA Clicking ==
    ASSUME NEW u \in UI, NEW p \in Panes
    PROVE  LET v == FocusAt(u, p)
           IN  /\ Turned(u, v) /\ v.focus = p
               /\ v.mode \in {"insert", "normal", "lua"} /\ (v.lua <=> v.mode = "lua")
               /\ v.green <=> v.mode = "insert"
               /\ v.mode = "insert" => p \in Texts
               /\ v.mode = "lua" => p = "lua"
<1> DEFINE w == [u EXCEPT !.focus = p]
<1>1. Turned(u, w) /\ w.focus = p
  BY Refocused
<1>2. w \in UI
  BY <1>1 DEF Turned
<1>3. FocusAt(u, p) = CASE p = "lua"   -> luaEnter(w)
                        [] p \in Texts -> EnterInsertMode(w)
                        [] OTHER       -> [luaLeave(w) EXCEPT !.green = FALSE, !.mode = "normal"]
  BY DEF FocusAt
<1> HIDE DEF w
<1>4. CASE p = "lua"
  BY <1>1, <1>2, <1>3, <1>4, EnteringLua DEF Turned, Texts
<1>5. CASE p \in Texts
  BY <1>1, <1>2, <1>3, <1>5, EnteringInsert DEF Turned, Texts
<1>6. CASE p \notin Texts \cup {"lua"}
  <2> DEFINE x == luaLeave(w)
  <2>1. Turned(w, x) /\ x.focus = p /\ ~x.lua
    BY <1>1, <1>2, Leaving
  <2>2. FocusAt(u, p) = [x EXCEPT !.green = FALSE, !.mode = "normal"]
    BY <1>3, <1>6
  <2> HIDE DEF x
  <2>3. x \in UI
    BY <2>1 DEF Turned
  <2>4. PICK y : y = [x EXCEPT !.green = FALSE, !.mode = "normal"]
    OBVIOUS
  <2>5. Turned(x, y) /\ y.focus = x.focus /\ ~y.lua /\ ~y.green /\ y.mode = "normal"
    BY <2>1, <2>3, <2>4 DEF UI, Turned, Modes
  <2>6. FocusAt(u, p) = y
    BY <2>2, <2>4
  <2> QED
    BY <1>1, <1>6, <2>1, <2>5, <2>6 DEF Turned
<1> QED
  BY <1>4, <1>5, <1>6

(* The keys of u have been given to a pane, with the mode of that pane or  *)
(* with the mode there was.                                                *)
Settled(u, v) ==
    /\ v.mode \in {"insert", "normal", "lua"}
    /\ \/ v.lua <=> v.mode = "lua"
       \/ u.mode # "lua" /\ v.mode = "normal" /\ v.lua = u.lua
    /\ v.green <=> v.mode = "insert"

Alike(u, v) == v.mode = u.mode /\ v.green = u.green /\ v.lua = u.lua

LEMMA TurnedTwice ==
    ASSUME NEW u, NEW v, NEW w, Turned(u, v), Turned(v, w)
    PROVE  Turned(u, w)
BY DEF Turned

LEMMA Buffers ==
    ASSUME NEW u \in UI, NEW v \in openOrCreate(u)
    PROVE  Turned(u, v) /\ (Settled(u, v) \/ Alike(u, v))
<1>1. PICK p \in Panes : v = focusBufferWidget(u, p)
  BY DEF openOrCreate, Panes, Texts
<1> DEFINE w == swapFocusedWidget(u, p)
<1>2. Turned(u, w) /\ Alike(u, w)
  BY Swapping DEF Alike
<1>3. v = IF p = "lua" THEN luaEnter(w) ELSE w
  BY <1>1 DEF focusBufferWidget
<1> HIDE DEF w
<1>4. w \in UI
  BY <1>2 DEF Turned
<1>5. Turned(w, luaEnter(w)) /\ Settled(u, luaEnter(w))
  BY <1>4, EnteringLua DEF Settled
<1> QED
  BY <1>2, <1>3, <1>5, TurnedTwice

LEMMA Consoles ==
    ASSUME NEW u \in UI, NEW v \in openConsole(u)
    PROVE  Turned(u, v) /\ Settled(u, v)
<1>1. PICK p \in {"repl"} \cup ({u.focus} \cap {"gdb"}) :
        v = [luaLeave(u) EXCEPT !.focus = p, !.green = TRUE, !.mode = "insert"]
  BY DEF openConsole
<1>2. p \in Panes
  BY <1>1 DEF Panes, Texts
<1> DEFINE w == luaLeave(u)
<1>3. Turned(u, w) /\ ~w.lua
  BY Leaving
<1>4. v = [w EXCEPT !.focus = p, !.green = TRUE, !.mode = "insert"]
  BY <1>1
<1> HIDE DEF w
<1>5. w \in UI
  BY <1>3 DEF Turned
<1>6. Turned(w, v) /\ Settled(u, v)
  BY <1>2, <1>3, <1>4, <1>5 DEF UI, Modes, Turned, Settled
<1> QED
  BY <1>3, <1>6, TurnedTwice

LEMMA Scripted ==
    ASSUME NEW u \in UI, NEW v \in openBuffer(u)
    PROVE  Turned(u, v) /\ (Settled(u, v) \/ Alike(u, v))
<1>1. CASE v = FocusCode(luaLeave(u))
  <2> DEFINE w == luaLeave(u)
  <2>1. Turned(u, w) /\ ~w.lua
    BY Leaving
  <2>2. v = FocusCode(w)
    BY <1>1
  <2> HIDE DEF w
  <2>3. Turned(w, v) /\ Settled(u, v)
    <3>1. w \in UI
      BY <2>1 DEF Turned
    <3> QED
      BY <2>1, <2>2, <3>1, ToCode DEF Settled
  <2> QED
    BY <2>1, <2>3, TurnedTwice
<1>2. CASE v = EnterInsertMode([u EXCEPT !.focus = "gdb"])
  BY <1>2, ToGdb DEF activateGdbInsertMode, Settled
<1>3. CASE v \in openConsole(u)
  BY <1>3, Consoles
<1>4. CASE v \in openOrCreate(u)
  BY <1>4, Buffers
<1> QED
  BY <1>1, <1>2, <1>3, <1>4 DEF openBuffer

LEMMA Commanded ==
    ASSUME NEW u \in UI, NEW v \in Commands(u), u.mode # "lua"
    PROVE  Turned(u, v) /\ (Settled(u, v) \/ Alike(u, v))
<1>1. CASE v = u
  BY <1>1 DEF Turned, Alike
<1>2. CASE v \in {[u EXCEPT !.focus = p] : p \in Panes}
  <2>1. PICK p \in Panes : v = [u EXCEPT !.focus = p]
    BY <1>2
  <2> QED
    BY <2>1, Refocused DEF Alike
<1>3. CASE v = FocusCode(u)
  BY <1>3, ToCode DEF Settled
<1>4. CASE v = activateGdbInsertMode(u)
  BY <1>4, ToGdb DEF Settled
<1>5. CASE v \in openConsole(u)
  BY <1>5, Consoles
<1>6. CASE v \in openOrCreate(u)
  BY <1>6, Buffers
<1>7. CASE u.focus # "gdb" /\ v = EnterInsertMode(swapFocusedWidget(u, "io"))
  <2> DEFINE w == swapFocusedWidget(u, "io")
  <2>1. Turned(u, w)
    BY Swapping DEF Panes, Texts
  <2>2. v = EnterInsertMode(w)
    BY <1>7
  <2> HIDE DEF w
  <2>3. w \in UI
    BY <2>1 DEF Turned
  <2>4. Turned(w, v) /\ Settled(u, v)
    BY <2>2, <2>3, EnteringInsert DEF Settled
  <2> QED
    BY <2>1, <2>4, TurnedTwice
<1> QED
  BY <1>1, <1>2, <1>3, <1>4, <1>5, <1>6, <1>7 DEF Commands

(* Turning away from a mode that does not type into the cmdline is safe.   *)
LEMMA TurnLeads ==
    ASSUME IInv, NEW v, NEW barges \in BOOLEAN, Turned(ui, v),
           \/ Settled(ui, v) /\ cut' \in BOOLEAN /\ (cut' => cut)
           \/ Alike(ui, v) /\ cut' = cut,
           ui.mode \in Typing => barges,
           Reads(v) \/ barges
    PROVE  Leads(v, <<>>, barges)
<1>1. ui \in UI /\ cut \in BOOLEAN
  BY DEF IInv, ModesTypeOK
<1>2. CmdLineIsOpen(v, cut')
  BY DEF IInv, CmdLineIsOpen, Settled, Alike, Turned
<1>3. calm /\ posts = <<>> /\ ~barges => Fine(v, <<>>, cut')
  <2> SUFFICES ASSUME calm, posts = <<>>, ~barges PROVE Fine(v, <<>>, cut')
    OBVIOUS
  <2>1. Fine(ui, <<>>, cut) /\ ui.mode \notin Typing
    BY DEF IInv
  <2>2. ~cut /\ ~ui.cmd.active /\ ui.previews = {} /\ ~ui.forGDB /\ ~(ui.menu > 1)
    BY <2>1 DEF Fine, CmdLine, Preview, Readers, InCmdLine, Typing
  <2>3. Readers(v)
    BY <2>1, <2>2 DEF Fine, Readers, Settled, Alike, Turned, InConsole, Typing
  <2>4. CmdLine(v, cut')
    BY <2>1, <2>2 DEF Fine, CmdLine, Settled, Alike, Turned, InCmdLine, Typing
  <2>5. Preview(v, <<>>) /\ Posted(v, <<>>)
    BY <2>1, <2>2 DEF Fine, Preview, Posted, Settled, Alike, Turned, Typing
  <2> QED
    BY <2>3, <2>4, <2>5 DEF Fine
<1> QED
  BY <1>1, <1>2, <1>3 DEF Leads, Single, Turned
---------------------------------------------------------------------------
(* The actions. *)

(* With nothing posted, and no mode that types into the cmdline. *)
LEMMA AtRest ==
    ASSUME IInv, calm, posts = <<>>, ui.mode \notin Typing
    PROVE  /\ ~cut /\ ~ui.cmd.active /\ ui.previews = {} /\ ~ui.forGDB /\ ~(ui.menu > 1)
           /\ (ui.lua <=> ui.mode = "lua") /\ (ui.green <=> ui.mode = "insert") /\ Reads(ui)
<1>1. Fine(ui, <<>>, cut)
  BY DEF IInv
<1> QED
  BY <1>1 DEF Fine, CmdLine, Preview, Readers, InCmdLine, InConsole, Typing

LEMMA Clearing ==
    ASSUME NEW u \in UI
    PROVE  LET v == clear(u)
           IN  /\ v \in UI /\ v.menu = 0 /\ Alike(u, v) /\ v.focus = u.focus /\ v.cmd = u.cmd
               /\ v.forGDB = u.forGDB /\ v.forLua = u.forLua
               /\ v.target = u.target /\ v.previews = u.previews
BY DEF clear, UI, Alike

LEMMA CommandLeads ==
    ASSUME IInv, ui.mode \notin Typing, UNCHANGED cut
    PROVE  Leads(enterCommandMode(ui), <<>>, FALSE)
<1> DEFINE w == luaLeave(ui)
           x == clear(w)
           v == enterCommandMode(ui)
<1>1. ui \in UI /\ cut \in BOOLEAN
  BY DEF IInv, ModesTypeOK
<1>2. Turned(ui, w) /\ ~w.lua /\ w.focus = ui.focus /\ w.green = ui.green
  BY <1>1, Leaving
<1>3. v = [x EXCEPT
              !.forGDB = FALSE, !.green = FALSE, !.target = "none", !.mode = "command",
              !.cmd = IF @.active THEN @ ELSE Activated("command")]
  BY DEF enterCommandMode
<1>4. /\ x \in UI /\ x.menu = 0 /\ ~x.lua /\ x.focus = ui.focus /\ x.cmd = ui.cmd
      /\ x.previews = ui.previews
  BY <1>2, Clearing DEF Turned, Alike
<1> HIDE DEF w, x
<1>5. Activated("command") \in [active : BOOLEAN, kind : {"command", "search"}, chars : 0..MaxChars]
  BY BoundsAssumption DEF Activated
<1>6. PICK c : c = IF x.cmd.active THEN x.cmd ELSE Activated("command")
  OBVIOUS
<1>7. /\ c.active /\ c \in [active : BOOLEAN, kind : {"command", "search"}, chars : 0..MaxChars]
      /\ ~ui.cmd.active => c.kind = "command"
  BY <1>4, <1>5, <1>6 DEF UI, Activated
<1>8. /\ v \in UI /\ v.mode = "command" /\ v.focus = ui.focus /\ ~v.green /\ ~v.lua /\ ~v.forGDB
      /\ v.menu = 0 /\ v.target = "none" /\ v.previews = ui.previews /\ v.cmd = c
  BY <1>3, <1>4, <1>6, <1>7, ZenonT(60) DEF UI, Modes
<1> HIDE DEF v
<1>9. calm /\ posts = <<>> => Fine(v, <<>>, cut')
  BY <1>7, <1>8, AtRest DEF Fine, Readers, CmdLine, Preview, Posted, Reads, InConsole, InCmdLine, Typing
<1> QED
  BY <1>1, <1>7, <1>8, <1>9 DEF Leads, Single, CmdLineIsOpen, v

LEMMA SearchLeads ==
    ASSUME IInv, ui.mode \notin Typing, UNCHANGED cut
    PROVE  Leads(enterSearchMode(ui), <<>>, FALSE)
<1> DEFINE w == luaLeave(ui)
           x == clear(w)
           v == enterSearchMode(ui)
           c == Activated("search")
           h == SearchHostOf(ui.focus)
<1>1. ui \in UI /\ cut \in BOOLEAN
  BY DEF IInv, ModesTypeOK
<1>2. Turned(ui, w) /\ ~w.lua /\ w.focus = ui.focus /\ w.green = ui.green
  BY <1>1, Leaving
<1>3. v = [x EXCEPT
              !.forGDB = FALSE, !.green = FALSE, !.target = h, !.mode = "search", !.cmd = c]
  BY DEF enterSearchMode
<1>4. /\ x \in UI /\ x.menu = 0 /\ ~x.lua /\ x.focus = ui.focus /\ x.cmd = ui.cmd
      /\ x.previews = ui.previews
  BY <1>2, Clearing DEF Turned, Alike
<1> HIDE DEF w, x
<1>5. /\ c.active /\ c \in [active : BOOLEAN, kind : {"command", "search"}, chars : 0..MaxChars]
      /\ c.kind = "search"
  BY BoundsAssumption DEF Activated
<1>6. h \in {"code", "list"}
  BY DEF SearchHostOf
<1> HIDE DEF c, h
<1>8. /\ v \in UI /\ v.mode = "search" /\ v.focus = ui.focus /\ ~v.green /\ ~v.lua /\ ~v.forGDB
      /\ v.menu = 0 /\ v.target = h /\ v.previews = ui.previews /\ v.cmd = c
  BY <1>3, <1>4, <1>5, <1>6, ZenonT(60) DEF UI, Modes
<1> HIDE DEF v
<1>9. calm /\ posts = <<>> => Fine(v, <<>>, cut')
  BY <1>5, <1>6, <1>8, AtRest DEF Fine, Readers, CmdLine, Preview, Posted, Reads, InConsole, InCmdLine, Typing
<1> QED
  BY <1>1, <1>5, <1>8, <1>9 DEF Leads, Single, CmdLineIsOpen, v

LEMMA NormalKeyKeeps == ASSUME IInv, NormalKey PROVE IInv'
<1>1. ui \in UI /\ cut \in BOOLEAN /\ cut' = cut /\ ui.mode = "normal" /\ ui.mode \notin Typing
  BY DEF IInv, ModesTypeOK, NormalKey, Typing
<1>2. ASSUME IsEsc, NEW v \in onEscape(ui), Input(v, <<>>, FALSE) PROVE IInv'
  <2>1. Turned(ui, v) /\ v.mode = "normal" /\ ~v.green /\ v.lua = ui.lua
    BY <1>1, <1>2, Escaping
  <2>2. Leads(v, <<>>, FALSE)
    BY <1>1, <2>1, TurnLeads DEF Settled, Reads
  <2>3. Escapes(v, <<>>)
    BY <2>1 DEF Escapes
  <2> QED
    BY <1>2, <2>2, <2>3, InputKeeps
<1>3. ASSUME NotEsc, NEW v, Input(v, <<>>, FALSE), Turned(ui, v), Settled(ui, v) \/ Alike(ui, v), Reads(v)
      PROVE  IInv'
  <2>1. Leads(v, <<>>, FALSE)
    BY <1>1, <1>3, TurnLeads
  <2> QED
    BY <1>3, <2>1, InputKeeps
<1>4. ASSUME NotEsc, Input(enterCommandMode(ui), <<>>, FALSE) PROVE IInv'
  BY <1>1, <1>4, CommandLeads, InputKeeps
<1>5. ASSUME NotEsc, Input(enterSearchMode(ui), <<>>, FALSE) PROVE IInv'
  BY <1>1, <1>5, SearchLeads, InputKeeps
<1>6. ASSUME NotEsc, NEW v \in insertKey(ui), Input(v, <<>>, FALSE) PROVE IInv'
  <2>1. PICK p \in Panes : v = FocusAt(ui, p)
    BY <1>1, <1>6 DEF insertKey, Panes, Texts, UI
  <2>2. Turned(ui, v) /\ Settled(ui, v) /\ Reads(v)
    BY <1>1, <2>1, Clicking DEF Settled, Reads
  <2> QED
    BY <1>3, <1>6, <2>2
<1>7. ASSUME NotEsc, NEW p \in Panes, Input([ui EXCEPT !.focus = p], <<>>, FALSE) PROVE IInv'
  <2>1. PICK v : v = [ui EXCEPT !.focus = p]
    OBVIOUS
  <2>2. Turned(ui, v) /\ Alike(ui, v) /\ Reads(v)
    BY <1>1, <2>1, Refocused DEF Alike, Reads
  <2> QED
    BY <1>3, <1>7, <2>1, <2>2
<1>8. ASSUME NotEsc, NEW p \in Panes, Input(swapFocusedWidget(ui, p), <<>>, FALSE) PROVE IInv'
  <2>1. LET v == swapFocusedWidget(ui, p) IN Turned(ui, v) /\ Alike(ui, v) /\ Reads(v)
    BY <1>1, Swapping DEF Alike, Reads
  <2> QED
    BY <1>3, <1>8, <2>1
<1>9. ASSUME NotEsc, Input(FocusCode(ui), <<>>, FALSE) PROVE IInv'
  <2>1. LET v == FocusCode(ui) IN Turned(ui, v) /\ Settled(ui, v) /\ Reads(v)
    BY <1>1, ToCode DEF Settled, Reads
  <2> QED
    BY <1>3, <1>9, <2>1
<1>10. ASSUME NotEsc, NEW h, h = SearchHostOf(ui.focus),
              Input([ui EXCEPT !.target = h, !.previews = @ \ {h}], <<>>, FALSE)
       PROVE  IInv'
  <2>1. PICK v : v = [ui EXCEPT !.target = h, !.previews = @ \ {h}]
    OBVIOUS
  <2>2. h \in {"code", "list"}
    BY <1>10 DEF SearchHostOf
  <2>3. /\ v \in UI /\ Alike(ui, v) /\ v.focus = ui.focus /\ v.cmd = ui.cmd /\ v.menu = ui.menu
        /\ v.forGDB = ui.forGDB /\ v.forLua = ui.forLua /\ v.previews = ui.previews \ {h} /\ v.target = h
    BY <1>1, <2>1, <2>2 DEF UI, Alike
  <2>4. calm /\ posts = <<>> => Fine(v, <<>>, cut')
    BY <1>1, <2>3, AtRest DEF Fine, Readers, CmdLine, Preview, Posted, Reads, InConsole, InCmdLine, Typing, Alike
  <2>5. Leads(v, <<>>, FALSE)
    BY <1>1, <2>3, <2>4 DEF Leads, Single, CmdLineIsOpen, Alike
  <2> QED
    BY <1>10, <2>1, <2>5, InputKeeps
<1> QED
  BY <1>2, <1>4, <1>5, <1>6, <1>7, <1>8, <1>9, <1>10 DEF NormalKey, JumpBack, Panes, Texts

(* v differs from u at most in the mode, the menu and whose menu it is.    *)
Offered(u, v) ==
    /\ v \in UI /\ v.focus = u.focus /\ v.green = u.green /\ v.lua = u.lua
    /\ v.cmd = u.cmd /\ v.target = u.target /\ v.previews = u.previews

LEMMA Completing ==
    ASSUME NEW u \in UI, NEW n \in 0..2
    PROVE  LET v == onCompletion(u, n)
           IN  /\ Offered(u, v) /\ v.menu = n
               /\ n > 1 /\ u.cmd.active /\ u.mode \in {"command", "completion"} =>
                    ~v.forGDB /\ ~v.forLua /\ v.mode = "completion"
               /\ ~(n > 1 /\ u.cmd.active /\ u.mode \in {"command", "completion"}) =>
                    v.forGDB = u.forGDB /\ v.forLua = u.forLua /\ v.mode = u.mode
<1> DEFINE w == [u EXCEPT !.menu = n]
           v == onCompletion(u, n)
<1>1. Offered(u, w) /\ w.menu = n /\ w.forGDB = u.forGDB /\ w.forLua = u.forLua /\ w.mode = u.mode
  BY DEF UI, Offered
<1>2. v = IF n > 1 /\ u.cmd.active /\ u.mode \in {"command", "completion"}
            THEN [w EXCEPT !.forGDB = FALSE, !.forLua = FALSE, !.mode = "completion"] ELSE w
  BY DEF onCompletion
<1> HIDE DEF v, w
<1>3. CASE n > 1 /\ u.cmd.active /\ u.mode \in {"command", "completion"}
  <2>1. v = [w EXCEPT !.forGDB = FALSE, !.forLua = FALSE, !.mode = "completion"]
    BY <1>2, <1>3
  <2>2. Offered(u, v) /\ v.menu = n /\ ~v.forGDB /\ ~v.forLua /\ v.mode = "completion"
    BY <1>1, <2>1 DEF UI, Modes, Offered
  <2> QED
    BY <1>3, <2>2 DEF v
<1>4. CASE ~(n > 1 /\ u.cmd.active /\ u.mode \in {"command", "completion"})
  BY <1>1, <1>2, <1>4 DEF v
<1> QED
  BY <1>3, <1>4

LEMMA InsertKeyKeeps == ASSUME IInv, InsertKey PROVE IInv'
<1>1. ui \in UI /\ cut \in BOOLEAN /\ cut' = cut /\ ui.mode = "insert" /\ ui.mode \notin Typing
  BY DEF IInv, ModesTypeOK, InsertKey, Typing
<1>2. ASSUME IsEsc, NEW v \in onEscape(ui), Input(v, <<>>, FALSE) PROVE IInv'
  <2>1. Turned(ui, v) /\ v.mode = "normal" /\ ~v.green /\ v.lua = ui.lua
    BY <1>1, <1>2, Escaping
  <2>2. Leads(v, <<>>, FALSE)
    BY <1>1, <2>1, TurnLeads DEF Settled, Reads
  <2>3. Escapes(v, <<>>)
    BY <2>1 DEF Escapes
  <2> QED
    BY <1>2, <2>2, <2>3, InputKeeps
<1>3. ASSUME NotEsc, ui.focus \in {"gdb", "repl"}, NEW n \in 0..2,
             Input(tabComplete(ui, ui.focus, n), <<>>, FALSE)
      PROVE  IInv'
  <2> DEFINE w == onCompletion(ui, n)
             v == tabComplete(ui, ui.focus, n)
  <2>1. /\ Offered(ui, w) /\ w.menu = n
        /\ w.forGDB = ui.forGDB /\ w.forLua = ui.forLua /\ w.mode = "insert"
    BY <1>1, Completing
  <2>2. v = IF n < 2 THEN clear(w)
            ELSE [w EXCEPT !.forGDB = (ui.focus = "gdb"), !.forLua = (ui.focus = "repl"), !.mode = "completion"]
    BY DEF tabComplete
  <2> HIDE DEF v, w
  <2>3. ASSUME n < 2 PROVE Leads(v, <<>>, FALSE)
    <3>1. v = clear(w) /\ w \in UI
      BY <2>1, <2>2, <2>3 DEF Offered
    <3>2. /\ Offered(ui, v) /\ v.menu = 0
          /\ v.forGDB = ui.forGDB /\ v.forLua = ui.forLua /\ v.mode = "insert"
      BY <2>1, <3>1, Clearing DEF Offered, Alike
    <3>3. calm /\ posts = <<>> => Fine(v, <<>>, cut')
      BY <1>1, <3>2, AtRest
      DEF Fine, Readers, CmdLine, Preview, Posted, Reads, InConsole, InCmdLine, Typing, Offered
    <3> QED
      BY <1>1, <3>2, <3>3 DEF Leads, Single, CmdLineIsOpen, Offered
  <2>4. ASSUME ~(n < 2) PROVE Leads(v, <<>>, FALSE)
    <3>1. v = [w EXCEPT !.forGDB = (ui.focus = "gdb"), !.forLua = (ui.focus = "repl"), !.mode = "completion"]
      BY <2>2, <2>4
    <3>2. /\ Offered(ui, v) /\ v.mode = "completion"
          /\ v.forGDB <=> ui.focus = "gdb"
          /\ v.forLua <=> ui.focus = "repl"
      BY <2>1, <3>1 DEF UI, Modes, Offered
    <3>3. calm /\ posts = <<>> => Fine(v, <<>>, cut')
      BY <1>1, <1>3, <3>2, AtRest
      DEF Fine, Readers, CmdLine, Preview, Posted, Reads, InConsole, InCmdLine, Typing, Offered
    <3> QED
      BY <1>1, <1>3, <3>2, <3>3 DEF Leads, Single, CmdLineIsOpen, Offered
  <2>5. Leads(v, <<>>, FALSE)
    BY <2>3, <2>4
  <2> QED
    BY <1>3, <2>5, InputKeeps DEF v
<1>4. ASSUME NotEsc, NEW v \in JumpBack(ui), Input(v, <<>>, ~Reads(v)) PROVE IInv'
  <2>1. PICK p \in Panes : v = swapFocusedWidget(ui, p)
    BY <1>4 DEF JumpBack
  <2>2. Turned(ui, v) /\ Alike(ui, v)
    BY <1>1, <2>1, Swapping DEF Alike
  <2>3. Leads(v, <<>>, ~Reads(v))
    BY <1>1, <2>2, TurnLeads DEF Reads
  <2> QED
    BY <1>4, <2>3, InputKeeps DEF Reads
<1> QED
  BY <1>2, <1>3, <1>4 DEF InsertKey

LEMMA LuaKeyKeeps == ASSUME IInv, LuaKey PROVE IInv'
<1> DEFINE v == luaLeave(ui)
<1>1. ui \in UI /\ cut \in BOOLEAN /\ cut' = cut /\ ui.mode = "lua" /\ ui.mode \notin Typing
  BY DEF IInv, ModesTypeOK, LuaKey, Typing
<1>2. Turned(ui, v) /\ ~v.lua /\ v.green = ui.green /\ v.mode = "normal" /\ v.focus = ui.focus
  BY <1>1, Leaving
<1> HIDE DEF v
<1>3. calm /\ posts = <<>> => Fine(v, <<>>, cut')
  BY <1>1, <1>2, AtRest
  DEF Fine, Readers, CmdLine, Preview, Posted, Reads, InConsole, InCmdLine, Typing, Turned
<1>4. Leads(v, <<>>, FALSE) /\ Escapes(v, <<>>)
  BY <1>1, <1>2, <1>3 DEF Leads, Single, CmdLineIsOpen, Turned, Escapes
<1> QED
  BY <1>4, InputKeeps DEF LuaKey, v

LEMMA ScriptKeeps == ASSUME IInv, Script PROVE IInv'
<1>1. ui \in UI /\ cut \in BOOLEAN /\ cut' = cut
  BY DEF IInv, ModesTypeOK, Script
<1>2. PICK v \in openBuffer(ui) : Input(v, <<>>, Barging \/ ~Reads(v))
  BY DEF Script
<1>3. Turned(ui, v) /\ (Settled(ui, v) \/ Alike(ui, v))
  BY <1>1, Scripted
<1>4. Leads(v, <<>>, Barging \/ ~Reads(v))
  <2>1. (Barging \/ ~Reads(v)) \in BOOLEAN
    BY DEF Barging, Reads
  <2>2. ui.mode \in Typing => Barging \/ ~Reads(v)
    BY DEF Barging
  <2> QED
    BY <1>1, <1>3, <2>1, <2>2, TurnLeads
<1> QED
  BY <1>2, <1>4, InputKeeps DEF Script

LEMMA CtrlDKeeps == ASSUME IInv, CtrlD PROVE IInv'
<1> DEFINE v == activateGdbInsertMode(ui)
<1>1. ui \in UI /\ cut \in BOOLEAN /\ ~cut' /\ cut' \in BOOLEAN
  BY DEF IInv, ModesTypeOK, CtrlD
<1>2. Turned(ui, v) /\ Settled(ui, v) /\ Reads(v)
  BY <1>1, ToGdb DEF Settled, Reads, Texts
<1> HIDE DEF v
<1>3. Leads(v, <<>>, Barging)
  BY <1>1, <1>2, TurnLeads DEF Barging
<1> QED
  BY <1>3, InputKeeps DEF CtrlD, v, Barging

---------------------------------------------------------------------------
(* Keys of the cmdline. *)

CmdLines == [active : BOOLEAN, kind : {"command", "search"}, chars : 0..MaxChars]

LEMMA Editing ==
    ASSUME NEW c \in CmdLines, NEW e \in Edited(c)
    PROVE  /\ e.cmd \in CmdLines /\ e.cmd.kind = c.kind /\ e.post \in Single
           /\ e.cmd.active => c.active
           /\ c.active /\ ~e.cmd.active => c.chars = 0
           /\ e.cmd.active /\ c.kind = "search" =>
                e.post = <<[msg |-> "text", some |-> e.cmd.chars > 0]>>
           /\ ~(e.cmd.active /\ c.kind = "search") => e.post = <<>>
<1>1. CASE ~c.active
  <2>1. e = [cmd |-> c, post |-> <<>>]
    BY <1>1 DEF Edited
  <2> QED
    BY <1>1, <2>1 DEF Single
<1>2. CASE c.active
  <2>1. CASE c.chars = 0 /\ e = [cmd |-> [c EXCEPT !.active = FALSE], post |-> <<>>]
    BY <1>2, <2>1 DEF Single, CmdLines
  <2>2. ASSUME NEW n \in 0..MaxChars, e = [cmd |-> [c EXCEPT !.chars = n], post |-> Told([c EXCEPT !.chars = n])]
        PROVE  /\ e.cmd \in CmdLines /\ e.cmd.kind = c.kind /\ e.cmd.active
               /\ e.post = Told(e.cmd)
    BY <1>2, <2>2 DEF CmdLines
  <2>3. \/ c.chars = 0 /\ e = [cmd |-> [c EXCEPT !.active = FALSE], post |-> <<>>]
        \/ \E n \in 0..MaxChars :
             e = [cmd |-> [c EXCEPT !.chars = n], post |-> Told([c EXCEPT !.chars = n])]
    BY <1>2 DEF Edited
  <2>4. CASE e.cmd \in CmdLines /\ e.cmd.kind = c.kind /\ e.cmd.active /\ e.post = Told(e.cmd)
    <3>1. CASE c.kind = "search"
      <4>1. e.post = <<[msg |-> "text", some |-> e.cmd.chars > 0]>>
        BY <2>4, <3>1 DEF Told
      <4>2. [msg |-> "text", some |-> e.cmd.chars > 0] \in Posts
        BY DEF Posts
      <4> QED
        BY <1>2, <2>4, <3>1, <4>1, <4>2 DEF Single
    <3>2. CASE c.kind # "search"
      BY <1>2, <2>4, <3>2 DEF Told, Single
    <3> QED
      BY <3>1, <3>2
  <2> QED
    BY <2>1, <2>2, <2>3, <2>4
<1> QED
  BY <1>1, <1>2

LEMMA SomePosts ==
    /\ <<[msg |-> "exit"]>> \in Single /\ <<[msg |-> "submit"]>> \in Single
    /\ \A n \in 0..2 : <<[msg |-> "names", n |-> n]>> \in Single
BY DEF Single, Posts

LEMMA SearchKeyKeeps == ASSUME IInv, SearchKey PROVE IInv'
<1> DEFINE w == [ui EXCEPT !.forGDB = FALSE]
           u == clear(w)
           after(v) == [v EXCEPT !.mode = IF v.cmd.active THEN @ ELSE "normal"]
<1>1. ui \in UI /\ cut \in BOOLEAN /\ cut' = cut /\ ui.mode = "search"
  BY DEF IInv, ModesTypeOK, SearchKey
<1>2. w \in UI /\ ~w.forGDB /\ Alike(ui, w) /\ w.focus = ui.focus /\ w.cmd = ui.cmd
      /\ w.forLua = ui.forLua /\ w.target = ui.target /\ w.previews = ui.previews
  BY <1>1 DEF UI, Alike
<1>3. u \in UI /\ ~u.forGDB /\ u.menu = 0 /\ Alike(ui, u) /\ u.focus = ui.focus /\ u.cmd = ui.cmd
      /\ u.forLua = ui.forLua /\ u.target = ui.target /\ u.previews = ui.previews
  <2> HIDE DEF w
  <2> QED
    BY <1>2, Clearing DEF Alike
<1>4. \/ IsEsc /\ Input(after(u), IF ui.cmd.active THEN <<[msg |-> "exit"]>> ELSE <<>>, FALSE)
      \/ NotEsc /\ \E e \in Edited(ui.cmd) : Input(after([u EXCEPT !.cmd = e.cmd]), e.post, FALSE)
      \/ /\ NotEsc /\ ui.cmd.active
         /\ Input(after([u EXCEPT !.cmd.active = FALSE]), <<[msg |-> "submit"]>>, FALSE)
  BY DEF SearchKey
<1> HIDE DEF w, u
<1>5. calm /\ posts = <<>> =>
        /\ ~cut /\ ui.cmd.active /\ ui.cmd.kind = "search" /\ ~ui.lua /\ ~ui.green
        /\ ui.previews \subseteq {ui.target} /\ ui.target # "none"
        /\ ui.previews # {} => ui.cmd.chars > 0
  <2>1. calm /\ posts = <<>> => Fine(ui, <<>>, cut)
    BY DEF IInv
  <2> QED
    BY <1>1, <2>1 DEF Fine, Readers, CmdLine, Preview, InCmdLine, InConsole, Typing
<1>6. CASE IsEsc /\ Input(after(u), IF ui.cmd.active THEN <<[msg |-> "exit"]>> ELSE <<>>, FALSE)
  <2>1. PICK v : v = after(u)
    OBVIOUS
  <2>2. PICK post : post = IF ui.cmd.active THEN <<[msg |-> "exit"]>> ELSE <<>>
    OBVIOUS
  <2>3. /\ v \in UI /\ ~v.forGDB /\ v.menu = 0 /\ v.focus = ui.focus /\ v.cmd = ui.cmd
        /\ v.forLua = ui.forLua /\ v.target = ui.target /\ v.previews = ui.previews
        /\ v.lua = ui.lua /\ v.green = ui.green
        /\ v.mode = IF ui.cmd.active THEN "search" ELSE "normal"
    BY <1>1, <1>3, <2>1 DEF UI, Alike, Modes
  <2>4. post \in Single
    BY <2>2, SomePosts DEF Single
  <2>5. calm /\ posts = <<>> => Fine(v, post, cut')
    BY <1>1, <1>5, <2>2, <2>3
    DEF Fine, Readers, CmdLine, Preview, Posted, Reads, InConsole, InCmdLine, Typing
  <2>6. Leads(v, post, FALSE)
    BY <1>1, <2>3, <2>4, <2>5 DEF Leads, CmdLineIsOpen
  <2>7. Escapes(v, post)
    BY <2>2, <2>3 DEF Escapes
  <2> QED
    BY <1>6, <2>1, <2>2, <2>6, <2>7, InputKeeps
<1>7. ASSUME NotEsc, NEW e \in Edited(ui.cmd), Input(after([u EXCEPT !.cmd = e.cmd]), e.post, FALSE)
      PROVE  IInv'
  <2>1. PICK x : x = [u EXCEPT !.cmd = e.cmd]
    OBVIOUS
  <2>2. PICK v : v = after(x)
    OBVIOUS
  <2>3. ui.cmd \in CmdLines
    BY <1>1 DEF UI, CmdLines
  <2>4. e.cmd \in CmdLines
    BY <2>3, Editing
  <2>5. /\ x \in UI /\ x.cmd = e.cmd /\ Alike(ui, x) /\ ~x.forGDB /\ x.menu = 0 /\ x.focus = ui.focus
        /\ x.forLua = ui.forLua /\ x.target = ui.target /\ x.previews = ui.previews
    BY <1>3, <2>1, <2>4 DEF UI, Alike, CmdLines
  <2>6. /\ v \in UI /\ ~v.forGDB /\ v.menu = 0 /\ v.focus = ui.focus /\ v.cmd = e.cmd
        /\ v.forLua = ui.forLua /\ v.target = ui.target /\ v.previews = ui.previews
        /\ v.lua = ui.lua /\ v.green = ui.green
        /\ v.mode = IF e.cmd.active THEN "search" ELSE "normal"
    BY <1>1, <2>2, <2>5 DEF UI, Alike, Modes
  <2>7. /\ e.cmd.kind = ui.cmd.kind /\ e.cmd.active \in BOOLEAN
        /\ ui.cmd.active /\ ~e.cmd.active => ui.cmd.chars = 0
        /\ e.cmd.active /\ ui.cmd.kind = "search" =>
             e.post = <<[msg |-> "text", some |-> e.cmd.chars > 0]>>
        /\ ~(e.cmd.active /\ ui.cmd.kind = "search") => e.post = <<>>
    <3>1. e.cmd.active \in BOOLEAN
      BY <2>4 DEF CmdLines
    <3> QED
      BY <2>3, <3>1, Editing
  <2>8. ASSUME calm, posts = <<>> PROVE Fine(v, e.post, cut')
    <3>1. Readers(v) /\ CmdLine(v, cut')
      BY <1>1, <1>5, <2>6, <2>7, <2>8
      DEF Readers, CmdLine, Reads, InConsole, InCmdLine, Typing
    <3>2. CASE e.cmd.active
      <4>1. PICK p : p = [msg |-> "text", some |-> e.cmd.chars > 0]
        OBVIOUS
      <4>2. e.post = <<p>> /\ p.msg = "text" /\ (p.some <=> v.cmd.chars > 0)
        BY <1>5, <2>6, <2>7, <2>8, <3>2, <4>1
      <4>3. e.post # <<>> /\ Len(e.post) = 1 /\ e.post[1] = p
        BY <4>2
      <4>4. Preview(v, e.post) /\ Posted(v, e.post)
        BY <1>5, <2>6, <2>8, <3>2, <4>2, <4>3 DEF Preview, Posted
      <4> QED
        BY <3>1, <4>4 DEF Fine
    <3>3. CASE ~e.cmd.active
      <4>1. e.post = <<>> /\ ui.cmd.chars = 0
        BY <1>5, <2>7, <2>8, <3>3
      <4>2. Preview(v, e.post) /\ Posted(v, e.post)
        BY <1>5, <2>6, <2>8, <3>3, <4>1 DEF Preview, Posted
      <4> QED
        BY <3>1, <4>2 DEF Fine
    <3> QED
      BY <3>2, <3>3
  <2>9. Leads(v, e.post, FALSE)
    BY <1>1, <2>3, <2>6, <2>8, Editing DEF Leads, CmdLineIsOpen
  <2> QED
    BY <1>7, <2>1, <2>2, <2>9, InputKeeps
<1>8. CASE /\ NotEsc /\ ui.cmd.active
           /\ Input(after([u EXCEPT !.cmd.active = FALSE]), <<[msg |-> "submit"]>>, FALSE)
  <2>1. PICK x : x = [u EXCEPT !.cmd.active = FALSE]
    OBVIOUS
  <2>2. PICK v : v = after(x)
    OBVIOUS
  <2>3. PICK post : post = <<[msg |-> "submit"]>>
    OBVIOUS
  <2>5. /\ x \in UI /\ ~x.cmd.active /\ Alike(ui, x) /\ ~x.forGDB /\ x.menu = 0 /\ x.focus = ui.focus
        /\ x.forLua = ui.forLua /\ x.target = ui.target /\ x.previews = ui.previews
    BY <1>3, <2>1 DEF UI, Alike
  <2>6. /\ v \in UI /\ ~v.forGDB /\ v.menu = 0 /\ v.focus = ui.focus /\ ~v.cmd.active
        /\ v.forLua = ui.forLua /\ v.target = ui.target /\ v.previews = ui.previews
        /\ v.lua = ui.lua /\ v.green = ui.green /\ v.mode = "normal"
    BY <1>1, <2>2, <2>5 DEF UI, Alike, Modes
  <2>7. calm /\ posts = <<>> => Fine(v, post, cut')
    BY <1>1, <1>5, <2>3, <2>6
    DEF Fine, Readers, CmdLine, Preview, Posted, Reads, InConsole, InCmdLine, Typing
  <2>8. Leads(v, post, FALSE)
    BY <1>1, <2>3, <2>6, <2>7, SomePosts DEF Leads, CmdLineIsOpen
  <2> QED
    BY <1>8, <2>1, <2>2, <2>3, <2>8, InputKeeps
<1> QED
  BY <1>4, <1>6, <1>7, <1>8

(* What an Enter on the cmdline leaves (CommandKey). *)
Done(v) == [clear(v) EXCEPT !.cmd.active = FALSE,
                            !.mode = IF @ = "command" THEN "normal" ELSE @]

LEMMA DoneLeaves ==
    ASSUME NEW v \in UI
    PROVE  LET d == Done(v)
           IN  /\ d \in UI /\ d.menu = 0 /\ ~d.cmd.active
               /\ d.mode = (IF v.mode = "command" THEN "normal" ELSE v.mode)
               /\ d.focus = v.focus /\ d.green = v.green /\ d.lua = v.lua
               /\ d.forGDB = v.forGDB /\ d.forLua = v.forLua
               /\ d.target = v.target /\ d.previews = v.previews
<1> DEFINE x == clear(v)
<1>1. /\ x \in UI /\ x.menu = 0 /\ Alike(v, x) /\ x.focus = v.focus
      /\ x.forGDB = v.forGDB /\ x.forLua = v.forLua
      /\ x.target = v.target /\ x.previews = v.previews
  BY Clearing
<1>2. Done(v) = [x EXCEPT !.cmd.active = FALSE, !.mode = IF @ = "command" THEN "normal" ELSE @]
  BY DEF Done
<1> HIDE DEF x
<1>3. PICK d : d = [x EXCEPT !.cmd.active = FALSE, !.mode = IF @ = "command" THEN "normal" ELSE @]
  OBVIOUS
<1>4. /\ d \in UI /\ d.menu = 0 /\ ~d.cmd.active
      /\ d.mode = IF v.mode = "command" THEN "normal" ELSE v.mode
      /\ d.focus = v.focus /\ d.green = v.green /\ d.lua = v.lua
      /\ d.forGDB = v.forGDB /\ d.forLua = v.forLua
      /\ d.target = v.target /\ d.previews = v.previews
  BY <1>1, <1>3, ZenonT(60) DEF UI, Alike, Modes
<1> QED
  BY <1>2, <1>3, <1>4

LEMMA CommandKeyKeeps == ASSUME IInv, CommandKey PROVE IInv'
<1> DEFINE u == [ui EXCEPT !.forGDB = FALSE]
<1>1. ui \in UI /\ cut \in BOOLEAN /\ ui.mode = "command" /\ (ui.cmd.active \/ cut)
  BY DEF IInv, ModesTypeOK, CommandKey, CmdLineIsOpen
<1>2. u \in UI /\ ~u.forGDB /\ Alike(ui, u) /\ u.focus = ui.focus /\ u.cmd = ui.cmd /\ u.menu = ui.menu
      /\ u.forLua = ui.forLua /\ u.target = ui.target /\ u.previews = ui.previews
  BY <1>1 DEF UI, Alike
<1>3. \/ /\ IsEsc
         /\ IF ui.cmd.active THEN Input(u, <<[msg |-> "exit"]>>, FALSE)
                             ELSE Input(u, <<>>, FALSE)
         /\ UNCHANGED cut
      \/ /\ NotEsc
         /\ \E e \in Edited(ui.cmd) :
              /\ Input([u EXCEPT !.cmd = e.cmd], e.post, FALSE)
              /\ cut' = (cut \/ ~e.cmd.active)
      \/ /\ NotEsc /\ ui.cmd.active /\ ui.cmd.kind = "command"
         /\ \E n \in 0..2 :
              Input(IF u.menu = 2 \/ n > 1
                      THEN [u EXCEPT !.forLua = FALSE, !.mode = "completion"] ELSE u,
                    <<[msg |-> "names", n |-> n]>>, FALSE)
         /\ UNCHANGED cut
      \/ /\ NotEsc /\ ui.cmd.active /\ ui.cmd.kind = "command"
         /\ \E v \in Commands(u) : Input(Done(v), <<>>, ~Reads(Done(v)))
         /\ cut' = FALSE
      \/ /\ NotEsc /\ ui.cmd.active /\ ui.cmd.kind = "search"
         /\ Input(Done(u), <<[msg |-> "submit"]>>, FALSE)
         /\ cut' = FALSE
      \/ /\ NotEsc /\ ~ui.cmd.active
         /\ Input(Done(u), <<>>, FALSE)
         /\ cut' = FALSE
  BY DEF CommandKey, Done
<1> HIDE DEF u
<1>4. calm /\ posts = <<>> =>
        /\ ui.cmd.kind # "search" /\ ~ui.lua /\ ~ui.green /\ ui.previews = {}
        /\ (cut => ~ui.cmd.active) /\ ~(ui.menu > 1)
  <2>1. calm /\ posts = <<>> => Fine(ui, <<>>, cut)
    BY DEF IInv
  <2> QED
    BY <1>1, <2>1 DEF Fine, Readers, CmdLine, Preview, InCmdLine, InConsole, Typing
<1>5. CASE /\ IsEsc
           /\ IF ui.cmd.active THEN Input(u, <<[msg |-> "exit"]>>, FALSE)
                               ELSE Input(u, <<>>, FALSE)
           /\ UNCHANGED cut
  <2>1. PICK post : post = IF ui.cmd.active THEN <<[msg |-> "exit"]>> ELSE <<>>
    OBVIOUS
  <2>2. Input(u, post, FALSE)
    BY <1>5, <2>1
  <2>3. post \in Single
    BY <2>1, SomePosts DEF Single
  <2>4. calm /\ posts = <<>> => Fine(u, post, cut')
    BY <1>1, <1>2, <1>4, <1>5, <2>1
    DEF Fine, Readers, CmdLine, Preview, Posted, Reads, InConsole, InCmdLine, Typing, Alike
  <2>5. Leads(u, post, FALSE)
    BY <1>1, <1>2, <1>5, <2>3, <2>4 DEF Leads, CmdLineIsOpen, Alike
  <2>6. Escapes(u, post)
    BY <1>1, <1>2, <1>5, <2>1 DEF Escapes, Alike
  <2> QED
    BY <1>5, <2>2, <2>5, <2>6, InputKeeps
<1>6. ASSUME NotEsc, NEW e \in Edited(ui.cmd), Input([u EXCEPT !.cmd = e.cmd], e.post, FALSE),
             cut' = (cut \/ ~e.cmd.active)
      PROVE  IInv'
  <2>1. PICK v : v = [u EXCEPT !.cmd = e.cmd]
    OBVIOUS
  <2>2. ui.cmd \in CmdLines
    BY <1>1 DEF UI, CmdLines
  <2>3. e.cmd \in CmdLines /\ e.post \in Single
    BY <2>2, Editing
  <2>4. /\ v \in UI /\ v.cmd = e.cmd /\ Alike(ui, v) /\ ~v.forGDB /\ v.menu = ui.menu /\ v.focus = ui.focus
        /\ v.forLua = ui.forLua /\ v.target = ui.target /\ v.previews = ui.previews
    BY <1>2, <2>1, <2>3 DEF UI, Alike, CmdLines
  <2>5. calm /\ posts = <<>> => Fine(v, e.post, cut')
    <3>1. calm /\ posts = <<>> => e.post = <<>>
      BY <1>4, <2>2, Editing
    <3>2. e.cmd.kind = ui.cmd.kind /\ (e.cmd.active => ui.cmd.active)
      BY <2>2, Editing
    <3>3. e.cmd.active \in BOOLEAN
      BY <2>3 DEF CmdLines
    <3> QED
      BY <1>1, <1>4, <1>6, <2>4, <3>1, <3>2, <3>3
      DEF Fine, Readers, CmdLine, Preview, Posted, Reads, InConsole, InCmdLine, Typing, Alike
  <2>6. Leads(v, e.post, FALSE)
    BY <1>1, <1>6, <2>3, <2>4, <2>5 DEF Leads, CmdLineIsOpen, Alike, CmdLines
  <2> QED
    BY <1>6, <2>1, <2>6, InputKeeps
<1>7. ASSUME NotEsc, ui.cmd.active, ui.cmd.kind = "command", UNCHANGED cut, NEW n \in 0..2,
             Input(IF u.menu = 2 \/ n > 1
                     THEN [u EXCEPT !.forLua = FALSE, !.mode = "completion"] ELSE u,
                   <<[msg |-> "names", n |-> n]>>, FALSE)
      PROVE  IInv'
  <2>1. PICK v : v = IF u.menu = 2 \/ n > 1
                       THEN [u EXCEPT !.forLua = FALSE, !.mode = "completion"] ELSE u
    OBVIOUS
  <2>2. PICK post : post = <<[msg |-> "names", n |-> n]>>
    OBVIOUS
  <2>3. /\ v \in UI /\ v.cmd = ui.cmd /\ ~v.forGDB /\ v.menu = ui.menu /\ v.focus = ui.focus
        /\ v.green = ui.green /\ v.lua = ui.lua
        /\ v.target = ui.target /\ v.previews = ui.previews
        /\ \/ v.mode = "command" /\ ~(ui.menu > 1)
           \/ v.mode = "completion" /\ ~v.forLua
    <3>1. CASE u.menu = 2 \/ n > 1
      BY <1>2, <2>1, <3>1 DEF UI, Alike, Modes
    <3>2. CASE ~(u.menu = 2 \/ n > 1)
      BY <1>1, <1>2, <2>1, <3>2 DEF UI, Alike
    <3> QED
      BY <3>1, <3>2
  <2>4. calm /\ posts = <<>> => Fine(v, post, cut')
    BY <1>1, <1>4, <1>7, <2>2, <2>3
    DEF Fine, Readers, CmdLine, Preview, Posted, Reads, InConsole, InCmdLine, Typing
  <2>5. Leads(v, post, FALSE)
    BY <1>1, <1>7, <2>2, <2>3, <2>4, SomePosts DEF Leads, CmdLineIsOpen
  <2> QED
    BY <1>7, <2>1, <2>2, <2>5, InputKeeps
<1>8. ASSUME NotEsc, cut' = FALSE, ui.cmd.active, NEW v \in Commands(u), Input(Done(v), <<>>, ~Reads(Done(v)))
      PROVE  IInv'
  <2>1. Turned(u, v) /\ (Settled(u, v) \/ Alike(u, v))
    BY <1>1, <1>2, Commanded DEF Alike
  <2>2. PICK d : d = Done(v)
    OBVIOUS
  <2>3. /\ d \in UI /\ d.menu = 0 /\ ~d.cmd.active
        /\ d.mode = (IF v.mode = "command" THEN "normal" ELSE v.mode)
        /\ d.focus = v.focus /\ d.green = v.green /\ d.lua = v.lua
        /\ d.forGDB = v.forGDB /\ d.forLua = v.forLua
        /\ d.target = v.target /\ d.previews = v.previews
    BY <2>1, <2>2, DoneLeaves DEF Turned
  <2>4. d.mode \in {"insert", "normal", "lua"}
    BY <1>1, <1>2, <2>1, <2>3 DEF Settled, Alike
  <2>5. calm /\ posts = <<>> /\ Reads(d) => Fine(d, <<>>, cut')
    BY <1>1, <1>2, <1>4, <1>8, <2>1, <2>3, <2>4
    DEF Fine, Readers, CmdLine, Preview, Posted, InConsole, InCmdLine, Typing, Alike, Settled, Turned
  <2>6. Leads(d, <<>>, ~Reads(d))
    BY <1>8, <2>3, <2>4, <2>5 DEF Leads, CmdLineIsOpen, Single
  <2> QED
    BY <1>8, <2>2, <2>6, InputKeeps DEF Reads
<1>9. ASSUME NotEsc, cut' = FALSE, NEW post \in {<<>>, <<[msg |-> "submit"]>>},
             post # <<>> => ui.cmd.active /\ ui.cmd.kind = "search",
             Input(Done(u), post, FALSE)
      PROVE  IInv'
  <2>1. PICK d : d = Done(u)
    OBVIOUS
  <2>2. /\ d \in UI /\ d.menu = 0 /\ ~d.cmd.active /\ d.mode = "normal"
        /\ d.focus = ui.focus /\ d.green = ui.green /\ d.lua = ui.lua
        /\ ~d.forGDB /\ d.forLua = ui.forLua
        /\ d.target = ui.target /\ d.previews = ui.previews
    BY <1>1, <1>2, <2>1, DoneLeaves DEF Alike
  <2>3. calm /\ posts = <<>> => Fine(d, post, cut')
    BY <1>1, <1>4, <1>9, <2>2
    DEF Fine, Readers, CmdLine, Preview, Posted, Reads, InConsole, InCmdLine, Typing
  <2>4. Leads(d, post, FALSE)
    BY <1>9, <2>2, <2>3, SomePosts DEF Leads, CmdLineIsOpen, Single
  <2> QED
    BY <1>9, <2>1, <2>4, InputKeeps
<1> QED
  BY <1>3, <1>5, <1>6, <1>7, <1>8, <1>9

---------------------------------------------------------------------------
(* Keys of the wildmenu, clicks, and what comes back. *)

LEMMA LeavingMenu ==
    ASSUME NEW u \in UI
    PROVE  LET v == leaveCompletion(u)
           IN  /\ Offered(u, v) /\ v.menu = 0 /\ ~v.forGDB /\ ~v.forLua
               /\ v.mode = (IF u.forGDB \/ u.forLua THEN "insert" ELSE "command")
<1> DEFINE x == clear(u)
<1>1. Offered(u, x) /\ x.menu = 0
  BY Clearing DEF Offered, Alike
<1>2. leaveCompletion(u) = [x EXCEPT !.forGDB = FALSE, !.forLua = FALSE,
                                     !.mode = IF u.forGDB \/ u.forLua THEN "insert" ELSE "command"]
  BY DEF leaveCompletion
<1> HIDE DEF x
<1>3. PICK m : m = IF u.forGDB \/ u.forLua THEN "insert" ELSE "command"
  OBVIOUS
<1>4. m \in Modes
  BY <1>3 DEF Modes
<1>5. PICK d : d = [x EXCEPT !.forGDB = FALSE, !.forLua = FALSE, !.mode = m]
  OBVIOUS
<1>6. Offered(u, d) /\ d.menu = 0 /\ ~d.forGDB /\ ~d.forLua /\ d.mode = m
  BY <1>1, <1>4, <1>5 DEF UI, Offered
<1>7. leaveCompletion(u) = d
  BY <1>2, <1>3, <1>5
<1> QED
  BY <1>3, <1>6, <1>7

(* In the wildmenu, with nothing posted. *)
LEMMA InMenu ==
    ASSUME IInv, calm, posts = <<>>, ui.mode = "completion"
    PROVE  /\ ~cut /\ ~ui.lua /\ ui.previews = {}
           /\ ui.forGDB \/ ui.forLua => ~ui.cmd.active /\ ui.green
           /\ ~(ui.forGDB \/ ui.forLua) => ui.cmd.active /\ ui.cmd.kind # "search" /\ ~ui.green
           /\ ui.forGDB => ui.focus = "gdb"
           /\ ui.forLua => ui.focus = "repl"
<1>1. Fine(ui, <<>>, cut)
  BY DEF IInv
<1> QED
  BY <1>1 DEF Fine, CmdLine, Preview, Readers, InCmdLine, InConsole, Typing

LEMMA CompletionKeyKeeps == ASSUME IInv, CompletionKey PROVE IInv'
<1>1. ui \in UI /\ cut \in BOOLEAN /\ ui.mode = "completion"
      /\ (ui.forGDB \/ ui.forLua \/ ui.cmd.active \/ cut)
  BY DEF IInv, ModesTypeOK, CompletionKey, CmdLineIsOpen
<1>2. ASSUME UNCHANGED cut, NotEsc \/ IsEsc, Input(leaveCompletion(ui), <<>>, FALSE) PROVE IInv'
  <2>1. PICK v : v = leaveCompletion(ui)
    OBVIOUS
  <2>2. /\ Offered(ui, v) /\ v.menu = 0 /\ ~v.forGDB /\ ~v.forLua
        /\ v.mode = (IF ui.forGDB \/ ui.forLua THEN "insert" ELSE "command")
    BY <1>1, <2>1, LeavingMenu
  <2>3. calm /\ posts = <<>> => Fine(v, <<>>, cut')
    BY <1>1, <1>2, <2>2, InMenu
    DEF Fine, Readers, CmdLine, Preview, Posted, Reads, InConsole, InCmdLine, Typing, Offered, Texts
  <2>4. Leads(v, <<>>, FALSE)
    BY <1>1, <1>2, <2>2, <2>3 DEF Leads, Single, CmdLineIsOpen, Offered
  <2>5. Escapes(v, <<>>)
    <3>1. posts = <<>> => ~(escs > 0)
      BY <1>1 DEF IInv, EscsCount
    <3> QED
      BY <2>2, <3>1 DEF Escapes
  <2> QED
    BY <1>2, <2>1, <2>4, <2>5, InputKeeps
<1>3. ASSUME NotEsc, useConsoleInput(ui), NEW v \in refreshMenu(ui), Input(v, <<>>, FALSE), UNCHANGED cut
      PROVE  IInv'
  <2>1. CASE v = leaveCompletion(ui)
    BY <1>2, <1>3, <2>1
  <2>2. ASSUME NEW n \in 0..2,
               v = [onCompletion(ui, n) EXCEPT !.forGDB = ui.forGDB, !.mode = "completion",
                                               !.forLua = ui.forLua /\ ~ui.forGDB]
        PROVE  IInv'
    <3>1. PICK x : x = onCompletion(ui, n)
      OBVIOUS
    <3>2. Offered(ui, x) /\ x.menu = n
      BY <1>1, <3>1, Completing
    <3>3. ui.forGDB \in BOOLEAN /\ (ui.forLua /\ ~ui.forGDB) \in BOOLEAN
      BY <1>1 DEF UI
    <3>4. /\ Offered(ui, v) /\ v.menu = n /\ v.mode = "completion" /\ v.forGDB = ui.forGDB
          /\ v.forLua <=> ui.forLua /\ ~ui.forGDB
      BY <2>2, <3>1, <3>2, <3>3, ZenonT(60) DEF UI, Modes, Offered
    <3>5. calm /\ posts = <<>> => Fine(v, <<>>, cut')
      BY <1>1, <1>3, <3>4, InMenu
      DEF Fine, Readers, CmdLine, Preview, Posted, Reads, InConsole, InCmdLine, Typing, Offered, useConsoleInput
    <3>6. Leads(v, <<>>, FALSE)
      BY <1>1, <1>3, <3>4, <3>5 DEF Leads, Single, CmdLineIsOpen, Offered, useConsoleInput
    <3> QED
      BY <1>3, <3>6, InputKeeps
  <2> QED
    BY <1>3, <2>1, <2>2 DEF refreshMenu
<1>4. ASSUME NotEsc, ~useConsoleInput(ui), NEW e \in Edited(ui.cmd), UNCHANGED cut, NEW v, Input(v, e.post, FALSE),
             LET u == [ui EXCEPT !.forGDB = FALSE, !.cmd = e.cmd]
             IN  v \in IF e.cmd.active THEN refreshCmdMenu(u) ELSE {[clear(u) EXCEPT !.mode = "normal"]}
      PROVE  IInv'
  <2>1. PICK u : u = [ui EXCEPT !.forGDB = FALSE, !.cmd = e.cmd]
    OBVIOUS
  <2>2. v \in IF e.cmd.active THEN refreshCmdMenu(u) ELSE {[clear(u) EXCEPT !.mode = "normal"]}
    BY <1>4, <2>1
  <2>3. ui.cmd \in CmdLines
    BY <1>1 DEF UI, CmdLines
  <2>4. /\ e.cmd \in CmdLines /\ e.cmd.kind = ui.cmd.kind /\ e.post \in Single
        /\ (e.cmd.active => ui.cmd.active)
        /\ ~(e.cmd.active /\ ui.cmd.kind = "search") => e.post = <<>>
    BY <2>3, Editing
  <2>5. /\ u \in UI /\ ~u.forGDB /\ u.cmd = e.cmd /\ u.forLua = ui.forLua /\ u.mode = "completion"
        /\ u.focus = ui.focus /\ u.green = ui.green /\ u.lua = ui.lua
        /\ u.target = ui.target /\ u.previews = ui.previews
    BY <1>1, <2>1, <2>4 DEF UI, CmdLines
  <2>6. calm /\ posts = <<>> => ~ui.forLua /\ ~ui.forGDB /\ ui.cmd.active /\ ui.cmd.kind # "search" /\ e.post = <<>>
    BY <1>1, <1>4, <2>4, InMenu DEF useConsoleInput
  <2>7. ASSUME e.cmd.active, NEW n \in 0..2, v = IF n < 2 THEN leaveCompletion(onCompletion(u, n)) ELSE onCompletion(u, n)
        PROVE  IInv'
    <3>1. PICK x : x = onCompletion(u, n)
      OBVIOUS
    <3>2. /\ Offered(u, x) /\ x.menu = n
          /\ n > 1 => ~x.forGDB /\ ~x.forLua /\ x.mode = "completion"
          /\ ~(n > 1) => ~x.forGDB /\ x.forLua = u.forLua
      BY <2>5, <2>7, <3>1, Completing
    <3>3. /\ Offered(u, v) /\ ~v.forGDB /\ ~v.forLua
          /\ v.menu > 1 => v.mode = "completion"
          /\ v.mode \in {"completion", "insert", "command"}
          /\ v.mode = "insert" => ui.forLua
      <4>1. CASE n < 2
        <5>1. v = leaveCompletion(x) /\ x \in UI
          BY <2>7, <3>1, <3>2, <4>1 DEF Offered
        <5>2. /\ Offered(x, v) /\ v.menu = 0 /\ ~v.forGDB /\ ~v.forLua
              /\ v.mode = (IF x.forGDB \/ x.forLua THEN "insert" ELSE "command")
          BY <5>1, LeavingMenu
        <5> QED
          BY <2>5, <3>2, <4>1, <5>2 DEF Offered
      <4>2. CASE ~(n < 2)
        BY <2>7, <3>1, <3>2, <4>2
      <4> QED
        BY <4>1, <4>2
    <3>4. calm /\ posts = <<>> => Fine(v, e.post, cut')
      BY <1>1, <1>4, <2>4, <2>5, <2>6, <2>7, <3>3, InMenu
      DEF Fine, Readers, CmdLine, Preview, Posted, Reads, InConsole, InCmdLine, Typing, Offered
    <3>5. Leads(v, e.post, FALSE)
      BY <1>1, <1>4, <2>4, <2>5, <2>7, <3>3, <3>4 DEF Leads, CmdLineIsOpen, Offered
    <3> QED
      BY <1>4, <3>5, InputKeeps
  <2>8. ASSUME ~e.cmd.active, v = [clear(u) EXCEPT !.mode = "normal"]
        PROVE  IInv'
    <3>1. PICK x : x = clear(u)
      OBVIOUS
    <3>2. /\ Offered(u, x) /\ x.menu = 0 /\ ~x.forGDB /\ x.forLua = u.forLua
      BY <2>5, <3>1, Clearing DEF Offered, Alike
    <3>3. /\ Offered(u, v) /\ v.menu = 0 /\ ~v.forGDB /\ v.mode = "normal"
      BY <2>8, <3>1, <3>2 DEF UI, Offered, Modes
    <3>4. calm /\ posts = <<>> => Fine(v, e.post, cut')
      BY <1>1, <1>4, <2>4, <2>5, <2>6, <2>8, <3>3, InMenu
      DEF Fine, Readers, CmdLine, Preview, Posted, Reads, InConsole, InCmdLine, Typing, Offered
    <3>5. Leads(v, e.post, FALSE)
      BY <1>1, <1>4, <2>4, <2>5, <3>3, <3>4 DEF Leads, CmdLineIsOpen, Offered
    <3> QED
      BY <1>4, <3>5, InputKeeps
  <2> QED
    BY <2>2, <2>7, <2>8 DEF refreshCmdMenu
<1>5. ASSUME NotEsc, ui.forGDB \/ ui.forLua, UNCHANGED cut,
             Input([clear(ui) EXCEPT !.forGDB = FALSE, !.forLua = FALSE, !.mode = "insert"], <<>>, FALSE)
      PROVE  IInv'
  <2>1. leaveCompletion(ui) = [clear(ui) EXCEPT !.forGDB = FALSE, !.forLua = FALSE, !.mode = "insert"]
    BY <1>5 DEF leaveCompletion
  <2> QED
    BY <1>2, <1>5, <2>1
<1>6. ASSUME NotEsc, ~(ui.forGDB \/ ui.forLua), NEW e \in Edited(ui.cmd),
             Input([clear(ui) EXCEPT !.mode = "command", !.cmd = e.cmd], e.post, FALSE),
             cut' = (cut \/ ~e.cmd.active)
      PROVE  IInv'
  <2>1. PICK x : x = clear(ui)
    OBVIOUS
  <2>2. /\ Offered(ui, x) /\ x.menu = 0 /\ x.forGDB = ui.forGDB /\ x.forLua = ui.forLua
    BY <1>1, <2>1, Clearing DEF Offered, Alike
  <2>3. ui.cmd \in CmdLines
    BY <1>1 DEF UI, CmdLines
  <2>4. /\ e.cmd \in CmdLines /\ e.cmd.kind = ui.cmd.kind /\ e.post \in Single
        /\ (e.cmd.active => ui.cmd.active)
        /\ ~(e.cmd.active /\ ui.cmd.kind = "search") => e.post = <<>>
    BY <2>3, Editing
  <2>5. PICK v : v = [x EXCEPT !.mode = "command", !.cmd = e.cmd]
    OBVIOUS
  <2>6. /\ v \in UI /\ ~v.forGDB /\ v.cmd = e.cmd /\ ~v.forLua /\ v.mode = "command"
        /\ v.focus = ui.focus /\ v.green = ui.green /\ v.lua = ui.lua /\ v.menu = 0
        /\ v.target = ui.target /\ v.previews = ui.previews
    BY <1>6, <2>2, <2>4, <2>5 DEF UI, Offered, CmdLines, Modes
  <2>7. calm /\ posts = <<>> => Fine(v, e.post, cut')
    <3> SUFFICES ASSUME calm, posts = <<>> PROVE Fine(v, e.post, cut')
      OBVIOUS
    <3>1. e.cmd.active \in BOOLEAN
      BY <2>4 DEF CmdLines
    <3>2. /\ ~cut /\ ~ui.lua /\ ui.previews = {} /\ ui.cmd.active
          /\ ui.cmd.kind # "search" /\ ~ui.green
      BY <1>1, <1>6, InMenu
    <3>3. e.post = <<>> /\ v.cmd.kind # "search"
      BY <2>4, <2>6, <3>2
    <3>4. cut' <=> ~v.cmd.active
      BY <1>6, <2>6, <3>1, <3>2
    <3>5. Readers(v) /\ CmdLine(v, cut')
      BY <2>6, <3>2, <3>3, <3>4 DEF Readers, CmdLine, Reads, InConsole, InCmdLine, Typing
    <3> QED
      BY <2>6, <3>2, <3>3, <3>5 DEF Fine, Preview, Posted
  <2>8. Leads(v, e.post, FALSE)
    BY <1>1, <1>6, <2>4, <2>6, <2>7 DEF Leads, CmdLineIsOpen, CmdLines
  <2> QED
    BY <1>6, <2>1, <2>5, <2>8, InputKeeps
<1> QED
  BY <1>2, <1>3, <1>4, <1>5, <1>6 DEF CompletionKey

LEMMA LeavingCmdLine ==
    ASSUME NEW u \in UI
    PROVE  LET v == leaveCommandMode(u)
           IN  /\ v \in UI /\ v.mode = "normal" /\ v.menu = 0 /\ ~v.forGDB /\ ~v.cmd.active
               /\ v.focus = u.focus /\ v.green = u.green /\ v.lua = u.lua /\ v.target = u.target
               /\ v.previews \subseteq u.previews
               /\ u.mode = "search" => v.previews = u.previews \ {u.target}
<1>1. PICK w : w = IF u.mode = "search" \/ u.cmd.kind = "search" THEN revertPreview(u) ELSE u
  OBVIOUS
<1>2. /\ w \in UI /\ w.focus = u.focus /\ w.green = u.green /\ w.lua = u.lua /\ w.target = u.target
      /\ w.previews \subseteq u.previews
      /\ u.mode = "search" => w.previews = u.previews \ {u.target}
  <2>1. CASE u.mode = "search" \/ u.cmd.kind = "search"
    BY <1>1, <2>1 DEF revertPreview, UI
  <2>2. CASE ~(u.mode = "search" \/ u.cmd.kind = "search")
    BY <1>1, <2>2
  <2> QED
    BY <2>1, <2>2
<1>3. PICK x : x = clear(w)
  OBVIOUS
<1>4. Offered(w, x) /\ x.menu = 0
  BY <1>2, <1>3, Clearing DEF Offered, Alike
<1>5. PICK v : v = [x EXCEPT !.forGDB = FALSE, !.cmd.active = FALSE, !.mode = "normal"]
  OBVIOUS
<1>6. /\ v \in UI /\ v.mode = "normal" /\ v.menu = 0 /\ ~v.forGDB /\ ~v.cmd.active
      /\ v.focus = x.focus /\ v.green = x.green /\ v.lua = x.lua /\ v.target = x.target
      /\ v.previews = x.previews
  BY <1>4, <1>5, ZenonT(60) DEF UI, Offered, Modes
<1>7. leaveCommandMode(u) = v
  BY <1>1, <1>3, <1>5 DEF leaveCommandMode
<1> QED
  BY <1>2, <1>4, <1>6, <1>7 DEF Offered

LEMMA ClickKeeps == ASSUME IInv, Click PROVE IInv'
<1>1. ui \in UI /\ cut \in BOOLEAN
  BY DEF IInv, ModesTypeOK
<1>2. PICK out : out = IF ui.mode \in Typing THEN leaveCommandMode(ui) ELSE ui
  OBVIOUS
<1>3. /\ out \in UI /\ out.mode # "command"
      /\ calm /\ posts = <<>> => /\ ~out.cmd.active /\ out.previews = {} /\ ~out.forGDB /\ ~(out.menu > 1)
                                 /\ out.mode # "completion"
  <2>1. CASE ui.mode \in Typing
    <3>1. /\ out \in UI /\ out.mode = "normal" /\ out.menu = 0 /\ ~out.forGDB /\ ~out.cmd.active
          /\ out.previews \subseteq ui.previews
          /\ ui.mode = "search" => out.previews = ui.previews \ {ui.target}
      BY <1>1, <1>2, <2>1, LeavingCmdLine
    <3>2. calm /\ posts = <<>> => ui.previews \subseteq {ui.target} /\ (ui.previews # {} => ui.mode = "search")
      BY DEF IInv, Fine, Preview
    <3> QED
      BY <3>1, <3>2
  <2>2. CASE ui.mode \notin Typing
    BY <1>1, <1>2, <2>2, AtRest DEF Typing
  <2> QED
    BY <2>1, <2>2
<1>4. ASSUME NEW v, Turned(out, v), v.mode \in {"insert", "normal", "lua"},
             v.lua <=> v.mode = "lua", v.green <=> v.mode = "insert", Reads(v),
             NotEsc, cut' = FALSE, Input(v, <<>>, FALSE)
      PROVE  IInv'
  <2>1. calm /\ posts = <<>> => Fine(v, <<>>, cut')
    BY <1>3, <1>4
    DEF Fine, Readers, CmdLine, Preview, Posted, InConsole, InCmdLine, Typing, Turned
  <2>2. Leads(v, <<>>, FALSE)
    BY <1>4, <2>1 DEF Leads, Single, CmdLineIsOpen, Turned
  <2> QED
    BY <1>4, <2>2, InputKeeps
<1>5. ASSUME NotEsc, NEW p \in Panes, Input(FocusAt(out, p), <<>>, FALSE), cut' = FALSE PROVE IInv'
  <2>1. PICK v : v = FocusAt(out, p)
    OBVIOUS
  <2>2. /\ Turned(out, v) /\ v.mode \in {"insert", "normal", "lua"}
        /\ (v.lua <=> v.mode = "lua") /\ (v.green <=> v.mode = "insert") /\ Reads(v)
    BY <1>3, <2>1, Clicking DEF Reads
  <2> QED
    BY <1>4, <1>5, <2>1, <2>2
<1>6. ASSUME NotEsc, Input(FocusCode(FocusAt(out, "list")), <<>>, FALSE), cut' = FALSE PROVE IInv'
  <2>1. PICK w : w = FocusAt(out, "list")
    OBVIOUS
  <2>2. Turned(out, w) /\ (w.lua <=> w.mode = "lua") /\ w.mode # "lua"
    BY <1>3, <2>1, Clicking DEF Panes, Texts
  <2>3. PICK v : v = FocusCode(w)
    OBVIOUS
  <2>4. Turned(w, v) /\ v.mode = "normal" /\ ~v.green /\ v.lua = w.lua
    BY <2>2, <2>3, ToCode DEF Turned
  <2>5. Turned(out, v) /\ (v.lua <=> v.mode = "lua") /\ (v.green <=> v.mode = "insert") /\ Reads(v)
    BY <2>2, <2>4, TurnedTwice DEF Reads
  <2> QED
    BY <1>4, <1>6, <2>1, <2>3, <2>4, <2>5
<1>7. ASSUME NotEsc, ui.mode \notin Typing, Input(enterCommandMode(ui), <<>>, FALSE), UNCHANGED cut PROVE IInv'
  BY <1>7, CommandLeads, InputKeeps
<1>8. ASSUME NotEsc, ui.mode \in Typing, Input(clickCmdLine(ui), <<>>, ui.forGDB \/ ui.forLua), UNCHANGED cut
      PROVE  IInv'
  <2>1. (ui.forGDB \/ ui.forLua) \in BOOLEAN
    BY <1>1 DEF UI
  <2>2. CASE ui.mode # "completion"
    <3>1. clickCmdLine(ui) = ui
      BY <2>2 DEF clickCmdLine
    <3>2. Leads(ui, <<>>, ui.forGDB \/ ui.forLua)
      BY <1>1, <1>8 DEF Leads, Single, IInv
    <3> QED
      BY <1>8, <2>1, <3>1, <3>2, InputKeeps
  <2>3. CASE ui.mode = "completion"
    <3>1. PICK x : x = clear(ui)
      OBVIOUS
    <3>2. /\ Offered(ui, x) /\ x.menu = 0 /\ x.forGDB = ui.forGDB /\ x.forLua = ui.forLua
      BY <1>1, <3>1, Clearing DEF Offered, Alike
    <3>3. PICK c : c = IF x.cmd.active THEN x.cmd ELSE Activated(x.cmd.kind)
      OBVIOUS
    <3>4. c \in CmdLines /\ c.active /\ (ui.cmd.active => c = ui.cmd)
      BY <1>1, <3>2, <3>3, BoundsAssumption DEF UI, CmdLines, Activated, Offered
    <3>5. PICK m : m = IF ui.cmd.kind = "search" THEN "search" ELSE "command"
      OBVIOUS
    <3>6. PICK v : v = [x EXCEPT !.forGDB = FALSE, !.mode = m, !.cmd = c]
      OBVIOUS
    <3>7. clickCmdLine(ui) = v
      BY <2>3, <3>1, <3>3, <3>5, <3>6 DEF clickCmdLine
    <3>8. /\ v \in UI /\ ~v.forGDB /\ v.cmd = c /\ v.forLua = ui.forLua /\ v.mode = m
          /\ v.focus = ui.focus /\ v.green = ui.green /\ v.lua = ui.lua /\ v.menu = 0
          /\ v.target = ui.target /\ v.previews = ui.previews
      BY <3>2, <3>4, <3>5, <3>6, ZenonT(60) DEF UI, Offered, CmdLines, Modes
    <3>9. calm /\ posts = <<>> /\ ~(ui.forGDB \/ ui.forLua) => Fine(v, <<>>, cut')
      BY <1>8, <2>3, <3>4, <3>5, <3>8, InMenu
      DEF Fine, Readers, CmdLine, Preview, Posted, Reads, InConsole, InCmdLine, Typing
    <3>10. Leads(v, <<>>, ui.forGDB \/ ui.forLua)
      BY <1>1, <1>8, <3>4, <3>5, <3>8, <3>9 DEF Leads, Single, CmdLineIsOpen
    <3> QED
      BY <1>8, <2>1, <3>7, <3>10, InputKeeps
  <2> QED
    BY <2>2, <2>3
<1>9. \/ NotEsc /\ ui.mode \in Typing /\ Input(clickCmdLine(ui), <<>>, ui.forGDB \/ ui.forLua) /\ UNCHANGED cut
      \/ NotEsc /\ ui.mode \notin Typing /\ Input(enterCommandMode(ui), <<>>, FALSE) /\ UNCHANGED cut
      \/ NotEsc /\ (\E p \in Panes : Input(FocusAt(out, p), <<>>, FALSE)) /\ cut' = FALSE
      \/ NotEsc /\ Input(FocusCode(FocusAt(out, "list")), <<>>, FALSE) /\ cut' = FALSE
  BY <1>2 DEF Click
<1> QED
  BY <1>5, <1>6, <1>7, <1>8, <1>9

LEMMA DeliverKeeps == ASSUME IInv, Deliver PROVE IInv'
<1>1. ui \in UI /\ cut \in BOOLEAN /\ posts \in Seq(Posts) /\ Len(posts) <= MaxPosts /\ posts # <<>>
  BY DEF IInv, ModesTypeOK, Deliver
<1>2. PICK p : p = Head(posts)
  OBVIOUS
<1>3. PICK h : h = searchHost(ui)
  OBVIOUS
<1>4. /\ posts' = Tail(posts) /\ calm' = calm /\ escs' = escs
      /\ cut' = (cut /\ p.msg # "exit")
      /\ p.msg = "exit" => ui' = leaveCommandMode(ui)
      /\ p.msg = "names" => ui' = onCompletion(ui, p.n)
      /\ p.msg = "submit" => ui' = [ui EXCEPT !.previews = @ \ {h}, !.target = h]
      /\ p.msg = "text" => ui' = IF ui.cmd.kind # "search" THEN ui
                                 ELSE [ui EXCEPT !.target = h,
                                         !.previews = IF p.some THEN @ \cup {h} ELSE @ \ {h}]
  BY <1>2, <1>3 DEF Deliver
<1>5. /\ p \in Posts /\ p.msg \in {"exit", "names", "submit", "text"}
      /\ p.msg = "names" => p.n \in 0..2
      /\ p.msg = "text" => p.some \in BOOLEAN
  <2>1. p \in Posts
    BY <1>1, <1>2
  <2> QED
    BY <2>1 DEF Posts
<1>6. /\ posts' \in Seq(Posts) /\ Len(posts') = Len(posts) - 1 /\ posts[1] = p
      /\ Len(posts) = 1 => posts' = <<>>
      /\ Len(posts) \in Nat
  BY <1>1, <1>2, <1>4
<1>7. h \in {"code", "list"} /\ (ui.target # "none" => h = ui.target)
  BY <1>1, <1>3 DEF searchHost, SearchHostOf, UI
(* What each message does. *)
<1>8. p.msg = "exit" =>
        /\ ui' \in UI /\ ui'.mode = "normal" /\ ui'.menu = 0 /\ ~ui'.forGDB /\ ~ui'.cmd.active
        /\ ui'.focus = ui.focus /\ ui'.green = ui.green /\ ui'.lua = ui.lua /\ ui'.target = ui.target
        /\ ui'.previews \subseteq ui.previews
        /\ ui.mode = "search" => ui'.previews = ui.previews \ {ui.target}
  BY <1>1, <1>4, LeavingCmdLine
<1>9. p.msg = "names" =>
        /\ Offered(ui, ui') /\ ui'.menu = p.n
        /\ p.n > 1 /\ ui.cmd.active /\ ui.mode \in {"command", "completion"} =>
             ~ui'.forGDB /\ ~ui'.forLua /\ ui'.mode = "completion"
        /\ ~(p.n > 1 /\ ui.cmd.active /\ ui.mode \in {"command", "completion"}) =>
             ui'.forGDB = ui.forGDB /\ ui'.forLua = ui.forLua /\ ui'.mode = ui.mode
  BY <1>1, <1>4, <1>5, Completing
<1>10. p.msg \in {"submit", "text"} =>
        /\ ui' \in UI /\ Alike(ui, ui') /\ ui'.menu = ui.menu /\ ui'.cmd = ui.cmd /\ ui'.focus = ui.focus
        /\ ui'.forGDB = ui.forGDB /\ ui'.forLua = ui.forLua
        /\ ui'.previews \subseteq ui.previews \cup {h}
        /\ p.msg = "submit" => ui'.target = h /\ ui'.previews = ui.previews \ {h}
        /\ p.msg = "text" /\ ui.cmd.kind = "search" =>
             ui'.target = h /\ (~p.some => ui'.previews = ui.previews \ {h})
  <2>1. PICK x : x = [ui EXCEPT !.target = h, !.previews = @ \cup {h}]
    OBVIOUS
  <2>2. /\ x \in UI /\ Alike(ui, x) /\ x.menu = ui.menu /\ x.cmd = ui.cmd /\ x.focus = ui.focus
        /\ x.forGDB = ui.forGDB /\ x.forLua = ui.forLua /\ x.target = h /\ x.previews = ui.previews \cup {h}
    BY <1>1, <1>7, <2>1 DEF UI, Alike
  <2>3. PICK y : y = [ui EXCEPT !.target = h, !.previews = @ \ {h}]
    OBVIOUS
  <2>4. /\ y \in UI /\ Alike(ui, y) /\ y.menu = ui.menu /\ y.cmd = ui.cmd /\ y.focus = ui.focus
        /\ y.forGDB = ui.forGDB /\ y.forLua = ui.forLua /\ y.target = h /\ y.previews = ui.previews \ {h}
    BY <1>1, <1>7, <2>3 DEF UI, Alike
  <2>5. [ui EXCEPT !.previews = @ \ {h}, !.target = h] = y
    BY <1>1, <2>3 DEF UI
  <2>6. p.msg = "submit" => ui' = y
    BY <1>4, <2>5
  <2>7. p.msg = "text" => IF ui.cmd.kind # "search" THEN ui' = ui
                          ELSE IF p.some THEN ui' = x ELSE ui' = y
    BY <1>4, <1>5, <2>1, <2>3
  <2>8. Alike(ui, ui)
    BY DEF Alike
  <2> QED
    BY <1>1, <2>2, <2>4, <2>6, <2>7, <2>8
<1>11. ModesTypeOK'
  <2>1. ui' \in UI
    BY <1>5, <1>8, <1>9, <1>10 DEF Offered
  <2>2. posts' \in Seq(Posts) /\ Len(posts') <= MaxPosts
    BY <1>1, <1>6, BoundsAssumption
  <2>3. calm' \in BOOLEAN /\ cut' \in BOOLEAN /\ escs' \in 0..2
    BY <1>4 DEF IInv, ModesTypeOK
  <2> QED
    BY <2>1, <2>2, <2>3 DEF ModesTypeOK
<1>12. CmdLineIsOpen(ui', cut')
  BY <1>4, <1>5, <1>8, <1>9, <1>10 DEF IInv, CmdLineIsOpen, Offered, Alike
<1>13. EscsCount'
  <2>1. escs > 0 => p.msg = "exit" /\ posts' = <<>>
    <3>1. escs > 0 => posts = <<[msg |-> "exit"]>>
      BY <1>1 DEF IInv, EscsCount
    <3>2. PICK r : r = [msg |-> "exit"]
      OBVIOUS
    <3>3. Head(<<r>>) = r /\ Tail(<<r>>) = <<>>
      OBVIOUS
    <3>4. escs > 0 => posts = <<r>>
      BY <3>1, <3>2
    <3>5. escs > 0 => p = r /\ posts' = <<>>
      BY <1>2, <1>4, <3>3, <3>4
    <3> QED
      BY <3>2, <3>5
  <2> QED
    BY <1>4, <1>8, <2>1 DEF EscsCount, EscsLeadHome
<1>14. calm' => Fine(ui', posts', cut')
  <2> SUFFICES ASSUME calm PROVE Fine(ui', posts', cut')
    BY <1>4
  <2>1. Fine(ui, posts, cut)
    BY DEF IInv
  <2>2. posts' = <<>>
    BY <1>1, <1>6, <2>1 DEF Fine, Posted
  <2>3. \/ p.msg = "exit" /\ ui.mode \in {"command", "search"}
        \/ p.msg = "names" /\ ui.mode \in {"command", "completion"} /\ ui.cmd.active
        \/ p.msg = "submit" /\ ui.mode = "normal"
        \/ p.msg = "text" /\ ui.mode = "search" /\ (p.some <=> ui.cmd.chars > 0)
    BY <1>1, <1>6, <2>1 DEF Fine, Posted
  <2>4. /\ ui.previews \subseteq {ui.target}
        /\ ui.previews # {} => ui.mode = "search" \/ p.msg = "submit"
        /\ ui.mode = "search" => ui.target # "none"
    BY <1>1, <1>6, <2>1 DEF Fine, Preview
  <2>5. CASE p.msg = "exit"
    <3>1. ui'.previews = {}
      BY <1>8, <2>4, <2>5
    <3>2. ~ui.lua /\ ~ui.green /\ ~cut'
      BY <1>4, <2>1, <2>3, <2>5 DEF Fine, Readers, InConsole
    <3> QED
      BY <1>8, <2>2, <2>5, <3>1, <3>2
      DEF Fine, Readers, CmdLine, Preview, Posted, Reads, InConsole, InCmdLine, Typing
  <2>6. CASE p.msg = "names"
    <3>1. /\ ui.mode \in {"command", "completion"} /\ ui.cmd.active /\ ui.previews = {}
          /\ ~ui.lua /\ ~ui.green /\ ~cut /\ ui.cmd.kind # "search" /\ ~InConsole(ui) /\ ~ui.forGDB
      BY <2>1, <2>3, <2>4, <2>6 DEF Fine, Readers, CmdLine, InConsole, InCmdLine, Typing
    <3> QED
      BY <1>4, <1>5, <1>9, <2>2, <2>6, <3>1
      DEF Fine, Readers, CmdLine, Preview, Posted, Reads, InConsole, InCmdLine, Typing, Offered
  <2>7. CASE p.msg = "submit"
    <3>1. ui'.previews = {}
      BY <1>1, <1>7, <1>10, <2>4, <2>7 DEF UI
    <3>2. ui'.mode = "normal" /\ cut' = cut
      BY <1>1, <1>4, <1>10, <2>3, <2>7 DEF Alike
    <3>3. Readers(ui') /\ CmdLine(ui', cut')
      BY <1>10, <2>1, <2>3, <2>7, <3>2
      DEF Fine, Readers, CmdLine, Reads, InConsole, InCmdLine, Typing, Alike
    <3> QED
      BY <2>2, <3>1, <3>2, <3>3 DEF Fine, Preview, Posted
  <2>8. CASE p.msg = "text"
    <3>1. ui.cmd.kind = "search" /\ ui.target = h /\ ui.target # "none" /\ cut' = cut
      BY <1>1, <1>4, <1>7, <2>1, <2>3, <2>4, <2>8 DEF Fine, CmdLine, InCmdLine, InConsole, Typing
    <3>2. ui'.previews \subseteq {ui'.target} /\ (ui'.previews # {} => ui'.cmd.chars > 0)
      BY <1>5, <1>10, <2>3, <2>4, <2>8, <3>1
    <3>3. ui'.mode = "search"
      BY <1>10, <2>3, <2>8 DEF Alike
    <3>4. Readers(ui') /\ CmdLine(ui', cut')
      BY <1>10, <2>1, <2>3, <2>8, <3>1, <3>3
      DEF Fine, Readers, CmdLine, Reads, InConsole, InCmdLine, Typing, Alike
    <3> QED
      BY <1>10, <2>2, <2>8, <3>1, <3>2, <3>3, <3>4 DEF Fine, Preview, Posted
  <2> QED
    BY <1>5, <2>5, <2>6, <2>7, <2>8
<1> QED
  BY <1>11, <1>12, <1>13, <1>14 DEF IInv, CmdLineIsOpen, Fine

LEMMA ModesInitIInv == ModesInit => IInv
<1> SUFFICES ASSUME ModesInit PROVE IInv
  OBVIOUS
<1>1. ModesTypeOK
  <2>1. ui \in UI
    BY BoundsAssumption DEF ModesInit, UI, Modes, Panes, Texts
  <2>2. posts \in Seq(Posts) /\ Len(posts) = 0
    BY DEF ModesInit
  <2>3. 0 <= MaxPosts
    BY BoundsAssumption
  <2>4. calm \in BOOLEAN /\ cut \in BOOLEAN
    BY Zenon DEF ModesInit
  <2>5. escs \in 0..2
    <3>1. escs = 0
      BY Zenon DEF ModesInit
    <3> QED
      BY <3>1
  <2> QED
    BY <2>1, <2>2, <2>3, <2>4, <2>5 DEF ModesTypeOK
<1>2. CmdLineIsOpen(ui, cut) /\ EscsCount
  BY DEF ModesInit, CmdLineIsOpen, EscsCount, EscsLeadHome
<1>3. Fine(ui, posts, cut)
  BY DEF ModesInit, Fine, Readers, CmdLine, Preview, Posted, Reads, InConsole, InCmdLine, Typing, Texts
<1> QED
  BY <1>1, <1>2, <1>3 DEF IInv

LEMMA ModesNextIInv == IInv /\ [ModesNext]_modesVars => IInv'
<1> SUFFICES ASSUME IInv, [ModesNext]_modesVars PROVE IInv'
  OBVIOUS
<1>1. CASE UNCHANGED modesVars
  BY <1>1 DEF modesVars, IInv, ModesTypeOK, CmdLineIsOpen, EscsCount, EscsLeadHome, Fine,
     Readers, CmdLine, Preview, Posted, Reads, InConsole, InCmdLine
<1> QED
  BY <1>1, NormalKeyKeeps, InsertKeyKeeps, LuaKeyKeeps, CommandKeyKeeps, SearchKeyKeeps,
     CompletionKeyKeeps, ClickKeeps, CtrlDKeeps, ScriptKeeps, DeliverKeeps DEF ModesNext

LEMMA IInvHolds == ModesSpec => []IInv
BY ModesInitIInv, ModesNextIInv, PTL DEF ModesSpec

(* The types of the input state; the queue of posts keeps its limit.       *)
THEOREM ModesTypes == ModesSpec => []ModesTypeOK
<1>1. IInv => ModesTypeOK
  BY DEF IInv
<1> QED
  BY <1>1, IInvHolds, PTL

(* For any number of posts and characters: unless an input overtook a post *)
(* or barged in, the keys of Insert go to a pane that takes text and is    *)
(* green, those of Lua to the pane that ticks, and those of a console's    *)
(* wildmenu to that console (input.go:495, actions.go:178).                *)
THEOREM KeysAreRead == ModesSpec => []KeysHaveAReader
<1>1. IInv => KeysHaveAReader
  BY DEF IInv, KeysHaveAReader, Fine, Readers, CmdLine, InCmdLine, InConsole, Typing
<1> QED
  BY <1>1, IInvHolds, PTL

(* In all behaviours: two Escs, each pressed when the posts before it are  *)
(* in, end in Normal, unless the lone ':' was deleted.                     *)
THEOREM TwoEscsLeadHome == ModesSpec => []EscsLeadHome
<1>1. IInv => EscsLeadHome
  BY DEF IInv, EscsCount
<1> QED
  BY <1>1, IInvHolds, PTL

(* As soon as all posts are in, the cmdline, the wildmenu, the green       *)
(* status and the '/' preview are there just as long as the mode says,     *)
(* unless an input overtook a post or barged in.                           *)
THEOREM NothingStaysOpen == ModesSpec => []NothingIsLeftOpen
<1>1. IInv => NothingIsLeftOpen
  BY DEF IInv, NothingIsLeftOpen, Quiet, Fine, Readers, CmdLine, Preview, InCmdLine, InConsole, Typing
<1> QED
  BY <1>1, IInvHolds, PTL
===========================================================================
