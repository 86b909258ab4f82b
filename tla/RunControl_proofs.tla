-------------------------- MODULE RunControl_proofs --------------------------
(***************************************************************************)
(* Proofs about run control, for any bounds: the types, that the UI never  *)
(* ends up taking a stopped program for a running one, and that in a calm  *)
(* behaviour its flag is right and every stop at rest is shown.            *)
(*                                                                         *)
(* The second is not inductive: while something is in flight the flag may  *)
(* well be wrong.  It is wrong only for a while because whatever ends the  *)
(* program's run leaves a record that clears the flag, behind every record *)
(* that sets it (StopsComeLast), and a flag without any such record in     *)
(* flight has a command in flight (FlagIsOwed).                            *)
(***************************************************************************)
EXTENDS RunControl, FiniteSetTheorems, SequenceTheorems, TLAPS

(* The steps, named once for the proofs by cases. *)
LEMMA Steps ==
    ASSUME [Next]_vars
    PROVE  \/ ExecUI
           \/ \E cmd \in {"insert", "remove", "select"} : SendCmd(cmd)
           \/ Interrupt
           \/ SuspendInferior
           \/ Query
           \/ GdbReads
           \/ Halts
           \/ Hits
           \/ Exits
           \/ \E n \in 1 .. Len(out) : HandleBatch(n)
           \/ UNCHANGED vars
  BY DEF Next, Keys, UIThread
---------------------------------------------------------------------------
(* Sequences *)

(* A nonempty set of positions has a greatest one: a position with the     *)
(* fewest positions above it.                                              *)
LEMMA MaxIsGreatest ==
    ASSUME NEW n \in Nat, NEW S \in SUBSET (1 .. n), S # {}
    PROVE  Max(S) \in S /\ \A y \in S : y <= Max(S)
<1> DEFINE Above(i) == (i + 1) .. n
           T == {Above(i) : i \in S}
           R == StrictSubsetOrdering(1 .. n)
<1>1. IsWellFoundedOn(R, SUBSET (1 .. n))
  <2>1. IsFiniteSet(1 .. n)
    BY FS_Interval
  <2> QED
    BY <2>1, FS_FiniteSubsetsOfFinite, FS_StrictSubsetOrderingWellFounded
<1>2. T \subseteq SUBSET (1 .. n) /\ T # {}
  <2>1. \A i \in S : Above(i) \in SUBSET (1 .. n)
    OBVIOUS
  <2>2. \E i \in S : TRUE
    OBVIOUS
  <2> HIDE DEF Above
  <2> QED
    BY <2>1, <2>2
<1>3. PICK x \in T : \A y \in T : ~ (<<y, x>> \in R)
  <2> HIDE DEF T, R
  <2> QED
    BY <1>1, <1>2, WFMin
<1>4. PICK i \in S : x = Above(i)
  OBVIOUS
<1>5. \A j \in S : j <= i
  <2> SUFFICES ASSUME NEW j \in S, j > i PROVE FALSE
    OBVIOUS
  <2>1. Above(j) \subseteq Above(i) /\ j \in Above(i) /\ j \notin Above(j)
    OBVIOUS
  <2>2. <<Above(j), Above(i)>> \in R
    <3>1. Above(j) \in SUBSET (1 .. n) /\ Above(i) \in SUBSET (1 .. n) /\ Above(j) # Above(i)
      BY <2>1
    <3> HIDE DEF Above
    <3> QED
      BY <2>1, <3>1 DEF StrictSubsetOrdering
  <2> QED
    BY <1>3, <1>4, <2>2
<1> QED
  BY <1>4, <1>5 DEF Max

(* What LastOf finds: none if no record is of those kinds, else the record *)
(* behind which there is no other of them.                                 *)
LEMMA LastOfProperties ==
    ASSUME NEW batch \in Seq(Records), NEW kinds \in SUBSET Records
    PROVE  \/ /\ LastOf(batch, kinds) = "none"
              /\ \A i \in 1 .. Len(batch) : batch[i] \notin kinds
           \/ \E i \in 1 .. Len(batch) :
                /\ batch[i] \in kinds /\ LastOf(batch, kinds) = batch[i]
                /\ \A j \in 1 .. Len(batch) : batch[j] \in kinds => j <= i
<1> DEFINE at == {i \in DOMAIN batch : batch[i] \in kinds}
<1>1. DOMAIN batch = 1 .. Len(batch) /\ Len(batch) \in Nat
  OBVIOUS
<1>2. CASE at = {}
  BY <1>1, <1>2 DEF LastOf
<1>3. CASE at # {}
  <2>1. Max(at) \in at /\ \A j \in at : j <= Max(at)
    BY <1>1, <1>3, MaxIsGreatest
  <2>2. LastOf(batch, kinds) = batch[Max(at)]
    BY <1>3 DEF LastOf
  <2> QED
    BY <1>1, <2>1, <2>2
<1> QED
  BY <1>2, <1>3

(* The batch and what is left are the records, cut at n. *)
LEMMA Cut ==
    ASSUME NEW s \in Seq(Records), NEW n \in 1 .. Len(s)
    PROVE  /\ SubSeq(s, 1, n) \in Seq(Records) /\ Len(SubSeq(s, 1, n)) = n
           /\ \A i \in 1 .. n : SubSeq(s, 1, n)[i] = s[i]
           /\ SubSeq(s, n + 1, Len(s)) \in Seq(Records)
           /\ Len(SubSeq(s, n + 1, Len(s))) = Len(s) - n
           /\ \A i \in 1 .. Len(s) - n : SubSeq(s, n + 1, Len(s))[i] = s[n + i]
  BY SubSeqProperties
---------------------------------------------------------------------------
(* Types *)

LEMMA NoneIsNoRecord == "none" \notin Records /\ Stops \subseteq Records
  BY DEF Records, Stops

LEMMA runningAfterType == ASSUME NEW batch, running \in BOOLEAN PROVE runningAfter(batch) \in BOOLEAN
  BY DEF runningAfter

LEMMA HandleType ==
    ASSUME NEW batch, TypeOK, Handle(batch)
    PROVE  running' \in BOOLEAN /\ suppress' \in Nat /\ painted' \in BOOLEAN
<1>1. running' \in BOOLEAN
  BY runningAfterType DEF TypeOK, Handle
<1>2. suppress' \in Nat
  BY DEF TypeOK, Handle
<1>3. painted' \in BOOLEAN
  BY DEF TypeOK, Handle
<1> QED
  BY <1>1, <1>2, <1>3

LEMMA SpendType ==
    ASSUME NEW k \in {"user", "event", "query"}, NEW bound, TypeOK, Spend(k, bound),
           bound = (CASE k = "user" -> MaxUser [] k = "event" -> MaxEvents [] OTHER -> MaxQueries)
    PROVE  spent' \in [user: 0 .. MaxUser, event: 0 .. MaxEvents, query: 0 .. MaxQueries]
<1>1. bound \in Nat /\ spent[k] + 1 <= bound /\ spent' = [spent EXCEPT ![k] = @ + 1]
  BY RunControlAssumption DEF Spend, TypeOK
<1>2. spent \in [user: 0 .. MaxUser, event: 0 .. MaxEvents, query: 0 .. MaxQueries]
  BY DEF TypeOK
<1>3. CASE k = "user"
  BY <1>1, <1>2, <1>3, RunControlAssumption
<1>4. CASE k = "event"
  BY <1>1, <1>2, <1>4, RunControlAssumption
<1>5. CASE k = "query"
  BY <1>1, <1>2, <1>5, RunControlAssumption
<1> QED
  BY <1>3, <1>4, <1>5

LEMMA RestType == ASSUME TypeOK, UNCHANGED rest PROVE continueAfterClear' \in BOOLEAN /\ calm' \in BOOLEAN
  BY DEF TypeOK, rest

LEMMA TypeOKInit == ASSUME Init PROVE TypeOK
<1>1. cmds \in Seq(Commands) /\ out \in Seq(Records)
  BY DEF Init
<1>2. spent \in [user: 0 .. MaxUser, event: 0 .. MaxEvents, query: 0 .. MaxQueries]
  <2>1. 0 \in 0 .. MaxUser /\ 0 \in 0 .. MaxEvents /\ 0 \in 0 .. MaxQueries
    BY RunControlAssumption
  <2> QED
    BY <2>1 DEF Init
<1> QED
  BY <1>1, <1>2 DEF Init, TypeOK

(* The commands of an action of the user, as a sequence of commands. *)
LEMMA SentType ==
    ASSUME TypeOK, NEW cmd \in Commands
    PROVE  cmds \o (IF running THEN <<"interrupt", cmd>> ELSE <<cmd>>)
                \o (IF willResume(cmd) THEN <<"continue">> ELSE <<>>) \in Seq(Commands)
<1>1. "interrupt" \in Commands /\ "continue" \in Commands
  BY DEF Commands
<1>2. (IF running THEN <<"interrupt", cmd>> ELSE <<cmd>>) \in Seq(Commands)
  BY <1>1
<1>3. (IF willResume(cmd) THEN <<"continue">> ELSE <<>>) \in Seq(Commands)
  BY <1>1
<1> QED
  BY <1>2, <1>3, ConcatProperties DEF TypeOK

LEMMA StopRecorded ==
    ASSUME TypeOK
    PROVE  \A r \in Stops : Append(out, r) \in Seq(Records)
<1>1. Stops \subseteq Records
  BY DEF Records
<1> QED
  BY <1>1 DEF TypeOK

LEMMA TypeOKNext == ASSUME TypeOK, [Next]_vars PROVE TypeOK'
<1> USE DEF ui, channel, rest
<1>1. CASE ExecUI
  <2>1. spent' \in [user: 0 .. MaxUser, event: 0 .. MaxEvents, query: 0 .. MaxQueries]
    BY <1>1, SpendType DEF ExecUI, User
  <2>2. cmds' \in Seq(Commands)
    BY <1>1 DEF ExecUI, TypeOK, Commands
  <2> QED
    BY <1>1, <2>1, <2>2 DEF ExecUI, TypeOK
<1>2. ASSUME NEW cmd \in {"insert", "remove", "select"}, SendCmd(cmd) PROVE TypeOK'
  <2>1. spent' \in [user: 0 .. MaxUser, event: 0 .. MaxEvents, query: 0 .. MaxQueries]
    BY <1>2, SpendType DEF SendCmd, User
  <2>2. cmds' \in Seq(Commands)
    <3>1. cmd \in Commands
      BY DEF Commands
    <3> QED
      BY <1>2, <3>1, SentType DEF SendCmd
  <2>3. suppress' \in Nat
    BY <1>2 DEF SendCmd, TypeOK
  <2> QED
    BY <1>2, <2>1, <2>2, <2>3 DEF SendCmd, TypeOK
<1>3. CASE Interrupt
  <2>1. spent' \in [user: 0 .. MaxUser, event: 0 .. MaxEvents, query: 0 .. MaxQueries]
    BY <1>3, SpendType DEF Interrupt, User
  <2>2. cmds' \in Seq(Commands)
    BY <1>3 DEF Interrupt, TypeOK, Commands
  <2> QED
    BY <1>3, <2>1, <2>2 DEF Interrupt, TypeOK
<1>4. CASE SuspendInferior
  <2>1. spent' \in [user: 0 .. MaxUser, event: 0 .. MaxEvents, query: 0 .. MaxQueries]
    BY <1>4, SpendType DEF SuspendInferior, User
  <2>2. out' \in Seq(Records) /\ target' \in {"none", "running", "stopping", "stopped"}
    <3>1. "hit" \in Stops
      BY DEF Stops
    <3> QED
      BY <1>4, <3>1, StopRecorded DEF SuspendInferior, TypeOK
  <2> QED
    BY <1>4, <2>1, <2>2 DEF SuspendInferior, TypeOK
<1>5. CASE Query
  <2>1. spent' \in [user: 0 .. MaxUser, event: 0 .. MaxEvents, query: 0 .. MaxQueries]
    BY <1>5, SpendType DEF Query
  <2>2. cmds' \in Seq(Commands)
    BY <1>5 DEF Query, TypeOK, Commands
  <2> QED
    BY <1>5, <2>1, <2>2 DEF Query, TypeOK
<1>6. CASE GdbReads
  <2>1. cmds' \in Seq(Commands)
    BY <1>6, HeadTailProperties DEF GdbReads, TypeOK
  <2>2. out' \in Seq(Records) /\ target' \in {"none", "running", "stopping", "stopped"}
    <3>1. {"running", "prompt", "done"} \subseteq Records
      BY DEF Records
    <3>2. out \o <<"running", "prompt">> \in Seq(Records) /\ Append(out, "done") \in Seq(Records)
      BY <3>1 DEF TypeOK
    <3> QED
      BY <1>6, <3>2 DEF GdbReads, TypeOK
  <2> QED
    BY <1>6, <2>1, <2>2 DEF GdbReads, TypeOK
<1>7. CASE Halts
  <2>1. out' \in Seq(Records)
    <3>1. "halt" \in Stops
      BY DEF Stops
    <3> QED
      BY <1>7, <3>1, StopRecorded DEF Halts
  <2> QED
    BY <1>7, <2>1 DEF Halts, TypeOK
<1>8. CASE Hits
  <2>1. spent' \in [user: 0 .. MaxUser, event: 0 .. MaxEvents, query: 0 .. MaxQueries]
    BY <1>8, SpendType DEF Hits
  <2>2. out' \in Seq(Records)
    <3>1. "hit" \in Stops
      BY DEF Stops
    <3> QED
      BY <1>8, <3>1, StopRecorded DEF Hits
  <2> QED
    BY <1>8, <2>1, <2>2 DEF Hits, TypeOK
<1>9. CASE Exits
  <2>1. spent' \in [user: 0 .. MaxUser, event: 0 .. MaxEvents, query: 0 .. MaxQueries]
    BY <1>9, SpendType DEF Exits
  <2>2. out' \in Seq(Records)
    <3>1. "exited" \in Stops
      BY DEF Stops
    <3> QED
      BY <1>9, <3>1, StopRecorded DEF Exits
  <2> QED
    BY <1>9, <2>1, <2>2 DEF Exits, TypeOK
<1>10. ASSUME NEW n \in 1 .. Len(out), HandleBatch(n) PROVE TypeOK'
  <2>1. out' \in Seq(Records)
    BY <1>10, Cut DEF HandleBatch, TypeOK
  <2>2. running' \in BOOLEAN /\ suppress' \in Nat /\ painted' \in BOOLEAN
    BY <1>10, HandleType DEF HandleBatch
  <2> QED
    BY <1>10, <2>1, <2>2 DEF HandleBatch, TypeOK
<1>11. CASE UNCHANGED vars
  BY <1>11 DEF vars, TypeOK
<1> QED
  BY <1>1, <1>2, <1>3, <1>4, <1>5, <1>6, <1>7, <1>8, <1>9, <1>10, <1>11, Steps

(* Every variable keeps to its type, whatever the bounds: the tokens, in   *)
(* particular, never go below zero (ConsumeStopUISuppress).                *)
THEOREM TypesHold == Spec => []TypeOK
  BY TypeOKInit, TypeOKNext, PTL DEF Spec
---------------------------------------------------------------------------
(* The flag *)

Resting == target \notin {"running", "stopping"}

(* A program at rest has left a stop behind each ^running. *)
StopsComeLast ==
    Resting => \A i \in 1 .. Len(out) :
                 out[i] = "running" => \E j \in 1 .. Len(out) : i < j /\ out[j] \in Stops

(* The flag of a program at rest is still to be cleared: by a record, or   *)
(* by the answer to a command.                                             *)
FlagIsOwed ==
    running /\ Resting /\ cmds = <<>> =>
        \E j \in 1 .. Len(out) : out[j] \in Stops \cup {"done"}

IInv == TypeOK /\ StopsComeLast /\ FlagIsOwed

(* Behind a stop that is appended there is nothing. *)
LEMMA StopAppended ==
    ASSUME IInv, NEW r \in Stops, out' = Append(out, r)
    PROVE  StopsComeLast' /\ FlagIsOwed'
<1>1. Len(out') = Len(out) + 1 /\ out'[Len(out) + 1] = r /\ Len(out) \in Nat
      /\ \A i \in 1 .. Len(out) : out'[i] = out[i]
  BY DEF IInv, TypeOK
<1>2. StopsComeLast'
  BY <1>1 DEF StopsComeLast, Stops
<1>3. FlagIsOwed'
  BY <1>1 DEF FlagIsOwed
<1> QED
  BY <1>2, <1>3

LEMMA RecordsSame ==
    ASSUME IInv, UNCHANGED <<target, out>>, cmds' # <<>> \/ UNCHANGED <<running, cmds>>
    PROVE  StopsComeLast' /\ FlagIsOwed'
  BY DEF IInv, StopsComeLast, FlagIsOwed, Resting

(* "done" clears the flag, and no ^running comes with it. *)
LEMMA DoneAppended ==
    ASSUME IInv, out' = Append(out, "done"), Resting' => Resting
    PROVE  StopsComeLast' /\ FlagIsOwed'
<1>1. Len(out') = Len(out) + 1 /\ out'[Len(out) + 1] = "done" /\ Len(out) \in Nat
      /\ \A i \in 1 .. Len(out) : out'[i] = out[i]
  BY DEF IInv, TypeOK
<1>2. StopsComeLast'
  BY <1>1 DEF IInv, StopsComeLast
<1>3. FlagIsOwed'
  BY <1>1 DEF FlagIsOwed
<1> QED
  BY <1>2, <1>3

(* A batch that leaves the flag set leaves a record that will clear it:    *)
(* if the batch set it, the stop behind that ^running; if it was set       *)
(* before, what was to clear it then.                                      *)
LEMMA BatchHandled ==
    ASSUME IInv, NEW n \in 1 .. Len(out), HandleBatch(n)
    PROVE  StopsComeLast' /\ FlagIsOwed'
<1> DEFINE batch == SubSeq(out, 1, n)
<1>1. /\ out \in Seq(Records) /\ Len(out) \in Nat /\ n \in Nat /\ n <= Len(out)
      /\ batch \in Seq(Records) /\ Len(batch) = n
      /\ \A i \in 1 .. n : batch[i] = out[i]
  BY Cut DEF IInv, TypeOK
<1>2. Len(out') = Len(out) - n /\ \A i \in 1 .. Len(out) - n : out'[i] = out[n + i]
  BY Cut DEF IInv, TypeOK, HandleBatch
<1>3. UNCHANGED <<target, cmds>> /\ running' = runningAfter(batch)
  BY DEF HandleBatch, Handle
<1> HIDE DEF batch
<1>4. StopsComeLast'
  <2> SUFFICES ASSUME Resting, NEW i \in 1 .. Len(out'), out'[i] = "running"
               PROVE  \E j \in 1 .. Len(out') : i < j /\ out'[j] \in Stops
    BY <1>3 DEF StopsComeLast, Resting
  <2>1. PICK j \in 1 .. Len(out) : n + i < j /\ out[j] \in Stops
    BY <1>1, <1>2 DEF IInv, StopsComeLast
  <2>2. j - n \in 1 .. Len(out') /\ i < j - n /\ out'[j - n] = out[j]
    BY <1>1, <1>2, <2>1
  <2> QED
    BY <2>1, <2>2
<1>5. FlagIsOwed'
  <2> SUFFICES ASSUME running', Resting, cmds = <<>>
               PROVE  \E j \in 1 .. Len(out') : out'[j] \in Stops \cup {"done"}
    BY <1>3 DEF FlagIsOwed, Resting
  <2>1. \E j \in 1 .. Len(out) : n < j /\ out[j] \in Stops \cup {"done"}
    <3>1. CASE stateOf(batch) = "running"
      <4> DEFINE kinds == {"running", "done"} \cup Stops
      <4>1. kinds \in SUBSET Records /\ "none" # "running"
        BY DEF Records
      <4>2. LastOf(batch, kinds) = "running"
        BY <3>1 DEF stateOf
      <4> HIDE DEF kinds
      <4>3. PICK i \in 1 .. n : batch[i] = "running" /\ \A j \in 1 .. n : batch[j] \in kinds => j <= i
        BY <1>1, <4>1, <4>2, LastOfProperties
      <4>4. PICK j \in 1 .. Len(out) : i < j /\ out[j] \in Stops
        BY <1>1, <4>3 DEF IInv, StopsComeLast
      <4>5. n < j
        <5> SUFFICES ASSUME j <= n PROVE FALSE
          BY <1>1
        <5>1. batch[j] \in kinds
          BY <1>1, <4>4 DEF kinds
        <5> QED
          BY <1>1, <4>3, <4>4, <5>1
      <4> QED
        BY <4>4, <4>5
    <3>2. CASE stateOf(batch) # "running"
      <4>1. LastOf(batch, Stops) = "none" /\ ~promptReady(batch) /\ running
        BY <1>3, <3>2 DEF runningAfter
      <4>2. \A i \in 1 .. n : batch[i] \notin Stops
        BY <1>1, <4>1, NoneIsNoRecord, LastOfProperties
      <4>3. \A i \in 1 .. n : batch[i] # "done"
        BY <1>1, <4>1 DEF promptReady
      <4>4. PICK j \in 1 .. Len(out) : out[j] \in Stops \cup {"done"}
        BY <4>1 DEF IInv, FlagIsOwed
      <4>5. n < j
        BY <1>1, <4>2, <4>3, <4>4
      <4> QED
        BY <4>4, <4>5
    <3> QED
      BY <3>1, <3>2
  <2>2. PICK j \in 1 .. Len(out) : n < j /\ out[j] \in Stops \cup {"done"}
    BY <2>1
  <2>3. j - n \in 1 .. Len(out') /\ out'[j - n] = out[j]
    BY <1>1, <1>2, <2>2
  <2> QED
    BY <2>2, <2>3
<1> QED
  BY <1>4, <1>5

LEMMA IInvInit == ASSUME Init PROVE IInv
<1>1. Len(out) = 0 /\ ~running
  BY DEF Init
<1> QED
  BY <1>1, TypeOKInit DEF IInv, StopsComeLast, FlagIsOwed

LEMMA IInvNext == ASSUME IInv, [Next]_vars PROVE IInv'
<1> SUFFICES StopsComeLast' /\ FlagIsOwed'
  BY TypeOKNext DEF IInv
<1> USE DEF ui, channel, rest
<1>0. cmds \in Seq(Commands) /\ \A c \in Commands : Append(cmds, c) # <<>>
  BY DEF IInv, TypeOK
<1>1. CASE ExecUI
  <2>1. cmds' # <<>>
    BY <1>0, <1>1 DEF ExecUI, Commands
  <2> QED
    BY <1>1, <2>1, RecordsSame DEF ExecUI
<1>2. ASSUME NEW cmd \in {"insert", "remove", "select"}, SendCmd(cmd)
      PROVE  StopsComeLast' /\ FlagIsOwed'
  <2>1. cmds' # <<>>
    <3> DEFINE first == IF running THEN <<"interrupt", cmd>> ELSE <<cmd>>
               resume == IF willResume(cmd) THEN <<"continue">> ELSE <<>>
    <3>1. {cmd, "interrupt", "continue"} \subseteq Commands
      BY DEF Commands
    <3>2. first \in Seq(Commands) /\ resume \in Seq(Commands) /\ first # <<>>
      BY <3>1
    <3>3. cmds' = cmds \o first \o resume
      BY <1>2 DEF SendCmd
    <3> HIDE DEF first, resume
    <3> QED
      BY <1>0, <3>2, <3>3, ConcatSimplifications, ConcatProperties, EmptySeq
  <2> QED
    BY <1>2, <2>1, RecordsSame DEF SendCmd
<1>3. CASE Interrupt
  <2>1. cmds' # <<>> \/ UNCHANGED <<running, cmds>>
    BY <1>0, <1>3 DEF Interrupt, Commands
  <2> QED
    BY <1>3, <2>1, RecordsSame DEF Interrupt
<1>4. CASE SuspendInferior
  <2>1. CASE target = "running"
    BY <1>4, <2>1, StopAppended DEF SuspendInferior, Stops
  <2>2. CASE target # "running"
    BY <1>4, <2>2, RecordsSame DEF SuspendInferior
  <2> QED
    BY <2>1, <2>2
<1>5. CASE Query
  <2>1. cmds' # <<>>
    BY <1>0, <1>5 DEF Query, Commands
  <2> QED
    BY <1>5, <2>1, RecordsSame DEF Query
<1>6. CASE GdbReads
  <2>1. CASE Resumes(Head(cmds))
    BY <1>6, <2>1 DEF GdbReads, StopsComeLast, FlagIsOwed, Resting
  <2>2. CASE ~ Resumes(Head(cmds))
    <3>1. out' = Append(out, "done") /\ (Resting' => Resting)
      BY <1>6, <2>2 DEF GdbReads, Resting
    <3> QED
      BY <3>1, DoneAppended
  <2> QED
    BY <2>1, <2>2
<1>7. CASE Halts
  BY <1>7, StopAppended DEF Halts, Stops
<1>8. CASE Hits
  BY <1>8, StopAppended DEF Hits, Stops
<1>9. CASE Exits
  BY <1>9, StopAppended DEF Exits, Stops
<1>10. ASSUME NEW n \in 1 .. Len(out), HandleBatch(n) PROVE StopsComeLast' /\ FlagIsOwed'
  BY <1>10, BatchHandled
<1>11. CASE UNCHANGED vars
  BY <1>11, RecordsSame DEF vars
<1> QED
  BY <1>1, <1>2, <1>3, <1>4, <1>5, <1>6, <1>7, <1>8, <1>9, <1>10, <1>11, Steps

LEMMA IInvImplies == ASSUME IInv PROVE RunningHasCause
  BY DEF IInv, FlagIsOwed, Resting, RunningHasCause, Quiet, TypeOK

(* Once nothing is in flight, InferiorRunning is set only if the program   *)
(* runs, whatever the cuts between batches and the delays of commands.     *)
THEOREM FlagHasCause == Spec => []RunningHasCause
<1>1. Init => IInv
  BY IInvInit
<1>2. IInv /\ [Next]_vars => IInv'
  BY IInvNext
<1>3. IInv => RunningHasCause
  BY IInvImplies
<1> QED
  BY <1>1, <1>2, <1>3, PTL DEF Spec
---------------------------------------------------------------------------
(* Calm behaviours.  The user acts when nothing is in flight, so that the  *)
(* commands of one act and what they lead to can be told:                  *)
(*   - a continue is the last of its act, and an exec all of it; a running *)
(*     program is interrupted first (CommandsInOrder);                     *)
(*   - there is a token exactly while the stop of that interrupt is to     *)
(*     come or to be handled, and at most one stop behind it               *)
(*     (TokensMatch);                                                      *)
(*   - of a running program, ^running is the last that was heard or will   *)
(*     be (FlagIsKept).                                                    *)

Up       == target \in {"running", "stopping"}
Resuming == \E i \in 1 .. Len(cmds) : cmds[i] = "continue"
Shown    == {"hit", "halt"}    \* the stops a token may hide
Last     == IF target = "stopped" THEN Shown ELSE {"exited"}

NoStop(s) == \A i \in 1 .. Len(s) : s[i] \notin Stops

OneStop(s, kinds) ==
    \E i \in 1 .. Len(s) : /\ s[i] \in kinds
                           /\ \A k \in 1 .. Len(s) : s[k] \in Stops => k = i

TwoStops(s, kinds) ==
    \E i, j \in 1 .. Len(s) : /\ i < j /\ s[i] \in Shown /\ s[j] \in kinds
                              /\ \A k \in 1 .. Len(s) : s[k] \in Stops => k \in {i, j}

CommandsInOrder ==
    /\ \A i \in 1 .. Len(cmds) : cmds[i] = "continue" => i = Len(cmds)
    /\ \A i \in 1 .. Len(cmds) : cmds[i] = "exec" => Len(cmds) = 1 /\ out = <<>> /\ ~Up
    /\ target = "running" /\ cmds # <<>> => cmds[1] = "interrupt"
    /\ Resuming => target # "none"

Balanced == \/ suppress = 0 /\ NoStop(out)
            \/ suppress = 1 /\ OneStop(out, Shown)

TokensMatch ==
    /\ Resuming /\ Up => suppress = 1 /\ NoStop(out)
    /\ (Resuming <=> ~Up) => Balanced
    /\ ~Resuming /\ ~Up =>
         \/ suppress = 0 /\ NoStop(out) /\ (painted <=> target = "stopped")
         \/ suppress = 0 /\ OneStop(out, Last)
         \/ suppress = 1 /\ TwoStops(out, Last)

FlagIsKept ==
    target = "running" =>
        \/ out = <<>> /\ running
        \/ /\ cmds = <<>> /\ Len(out) >= 2
           /\ out[Len(out) - 1] = "running" /\ out[Len(out)] = "prompt"

Calm    == CommandsInOrder /\ TokensMatch /\ FlagIsKept
CalmInv == IInv /\ (calm => Calm)

(* A stop behind the records; others leave the stops where they are.       *)
LEMMA StopsOfAppended ==
    ASSUME NEW s \in Seq(Records), NEW r \in Stops
    PROVE  /\ NoStop(s) => OneStop(Append(s, r), {r})
           /\ OneStop(s, Shown) => TwoStops(Append(s, r), {r})
<1>1. Len(Append(s, r)) = Len(s) + 1 /\ Append(s, r)[Len(s) + 1] = r /\ Len(s) \in Nat
      /\ \A i \in 1 .. Len(s) : Append(s, r)[i] = s[i]
  OBVIOUS
<1>2. NoStop(s) => OneStop(Append(s, r), {r})
  BY <1>1 DEF NoStop, OneStop
<1>3. ASSUME OneStop(s, Shown) PROVE TwoStops(Append(s, r), {r})
  <2>1. PICK i \in 1 .. Len(s) : s[i] \in Shown /\ \A k \in 1 .. Len(s) : s[k] \in Stops => k = i
    BY <1>3 DEF OneStop
  <2>2. i < Len(s) + 1 /\ \A k \in 1 .. Len(s) + 1 : Append(s, r)[k] \in Stops => k \in {i, Len(s) + 1}
    BY <1>1, <2>1
  <2> QED
    BY <1>1, <2>1, <2>2 DEF TwoStops
<1> QED
  BY <1>2, <1>3

LEMMA StopsOfExtended ==
    ASSUME NEW s \in Seq(Records), NEW t \in Seq(Records), NEW kinds,
           Len(s) <= Len(t), \A i \in 1 .. Len(s) : t[i] = s[i],
           \A i \in Len(s) + 1 .. Len(t) : t[i] \notin Stops
    PROVE  /\ NoStop(s) => NoStop(t)
           /\ OneStop(s, kinds) => OneStop(t, kinds)
           /\ TwoStops(s, kinds) => TwoStops(t, kinds)
<1>1. Len(s) \in Nat /\ Len(t) \in Nat
  OBVIOUS
<1>2. \A k \in 1 .. Len(t) : t[k] \in Stops => k \in 1 .. Len(s) /\ s[k] \in Stops
  BY <1>1
<1>3. NoStop(s) => NoStop(t)
  BY <1>2 DEF NoStop
<1>4. ASSUME OneStop(s, kinds) PROVE OneStop(t, kinds)
  <2>1. PICK i \in 1 .. Len(s) : s[i] \in kinds /\ \A k \in 1 .. Len(s) : s[k] \in Stops => k = i
    BY <1>4 DEF OneStop
  <2>2. i \in 1 .. Len(t) /\ t[i] = s[i]
    BY <1>1
  <2> QED
    BY <1>2, <2>1, <2>2 DEF OneStop
<1>5. ASSUME TwoStops(s, kinds) PROVE TwoStops(t, kinds)
  <2>1. PICK i \in 1 .. Len(s), j \in 1 .. Len(s) :
            /\ i < j /\ s[i] \in Shown /\ s[j] \in kinds
            /\ \A k \in 1 .. Len(s) : s[k] \in Stops => k \in {i, j}
    BY <1>5 DEF TwoStops
  <2>2. i \in 1 .. Len(t) /\ j \in 1 .. Len(t) /\ t[i] = s[i] /\ t[j] = s[j]
    BY <1>1
  <2> QED
    BY <1>2, <2>1, <2>2 DEF TwoStops
<1> QED
  BY <1>3, <1>4, <1>5

(* A batch without a stop leaves the stops to the rest.                     *)
LEMMA StopsOfRest ==
    ASSUME NEW s \in Seq(Records), NEW t \in Seq(Records), NEW n \in 1 .. Len(s),
           NEW kinds \in SUBSET Stops,
           Len(t) = Len(s) - n, \A i \in 1 .. Len(s) - n : t[i] = s[n + i],
           \A i \in 1 .. n : s[i] \notin Stops
    PROVE  /\ NoStop(s) => NoStop(t)
           /\ OneStop(s, kinds) => OneStop(t, kinds)
           /\ TwoStops(s, kinds) => TwoStops(t, kinds)
<1>1. Len(s) \in Nat /\ Len(t) \in Nat /\ n \in Nat
  OBVIOUS
<1>2. \A k \in 1 .. Len(t) : n + k \in 1 .. Len(s) /\ t[k] = s[n + k]
  BY <1>1
<1>3. \A i \in 1 .. Len(s) : s[i] \in Stops => i - n \in 1 .. Len(t) /\ t[i - n] = s[i]
  BY <1>1, <1>2
<1>4. NoStop(s) => NoStop(t)
  BY <1>2 DEF NoStop
<1>5. ASSUME OneStop(s, kinds) PROVE OneStop(t, kinds)
  <2>1. PICK i \in 1 .. Len(s) : s[i] \in kinds /\ \A k \in 1 .. Len(s) : s[k] \in Stops => k = i
    BY <1>5 DEF OneStop
  <2>2. i - n \in 1 .. Len(t) /\ t[i - n] = s[i]
    BY <1>3, <2>1
  <2>3. ASSUME NEW k \in 1 .. Len(t), t[k] \in Stops PROVE k = i - n
    <3>1. n + k = i
      BY <1>2, <2>1, <2>3
    <3> QED
      BY <1>1, <3>1
  <2> QED
    BY <2>1, <2>2, <2>3 DEF OneStop
<1>6. ASSUME TwoStops(s, kinds) PROVE TwoStops(t, kinds)
  <2>1. PICK i \in 1 .. Len(s), j \in 1 .. Len(s) :
            /\ i < j /\ s[i] \in Shown /\ s[j] \in kinds
            /\ \A k \in 1 .. Len(s) : s[k] \in Stops => k \in {i, j}
    BY <1>6 DEF TwoStops
  <2>2. Shown \subseteq Stops
    BY DEF Shown, Stops
  <2>3. /\ i - n \in 1 .. Len(t) /\ t[i - n] = s[i]
        /\ j - n \in 1 .. Len(t) /\ t[j - n] = s[j] /\ i - n < j - n
    BY <1>3, <2>1, <2>2
  <2>4. ASSUME NEW k \in 1 .. Len(t), t[k] \in Stops PROVE k \in {i - n, j - n}
    <3>1. n + k = i \/ n + k = j
      BY <1>2, <2>1, <2>4
    <3> QED
      BY <1>1, <3>1
  <2> QED
    BY <2>1, <2>3, <2>4 DEF TwoStops
<1> QED
  BY <1>4, <1>5, <1>6

(* A batch with a stop takes the first.                                    *)
FirstStop(s, t, n, p) ==
    /\ s \in Seq(Records) /\ t \in Seq(Records) /\ n \in 1 .. Len(s) /\ p \in 1 .. n
    /\ Len(t) = Len(s) - n /\ \A i \in 1 .. Len(s) - n : t[i] = s[n + i]
    /\ s[p] \in Stops /\ \A i \in 1 .. n : s[i] \in Stops => i = p

LEMMA StopsOfRestBehind ==
    ASSUME NEW s, NEW t, NEW n, NEW p, FirstStop(s, t, n, p), NEW kinds \in SUBSET Stops
    PROVE  /\ ~ NoStop(s)
           /\ OneStop(s, kinds) => s[p] \in kinds /\ NoStop(t)
           /\ TwoStops(s, kinds) => s[p] \in Shown /\ OneStop(t, kinds)
<1>0. /\ s \in Seq(Records) /\ t \in Seq(Records) /\ n \in 1 .. Len(s) /\ p \in 1 .. n
      /\ Len(t) = Len(s) - n /\ \A i \in 1 .. Len(s) - n : t[i] = s[n + i]
      /\ s[p] \in Stops /\ \A i \in 1 .. n : s[i] \in Stops => i = p
  BY DEF FirstStop
<1>1. Len(s) \in Nat /\ Len(t) \in Nat /\ n \in Nat /\ p \in 1 .. Len(s)
  BY <1>0
<1>2. \A k \in 1 .. Len(t) : n + k \in 1 .. Len(s) /\ t[k] = s[n + k] /\ n + k # p
  BY <1>0, <1>1
<1>3. ~ NoStop(s)
  BY <1>0, <1>1 DEF NoStop
<1>4. ASSUME OneStop(s, kinds) PROVE s[p] \in kinds /\ NoStop(t)
  <2>1. s[p] \in kinds /\ \A k \in 1 .. Len(s) : s[k] \in Stops => k = p
    BY <1>0, <1>1, <1>4 DEF OneStop
  <2> QED
    BY <1>2, <2>1 DEF NoStop
<1>5. ASSUME TwoStops(s, kinds) PROVE s[p] \in Shown /\ OneStop(t, kinds)
  <2>1. PICK i \in 1 .. Len(s), j \in 1 .. Len(s) :
            /\ i < j /\ s[i] \in Shown /\ s[j] \in kinds
            /\ \A k \in 1 .. Len(s) : s[k] \in Stops => k \in {i, j}
    BY <1>5 DEF TwoStops
  <2>2. Shown \subseteq Stops
    BY DEF Shown, Stops
  <2>3. p = i /\ n < j
    BY <1>0, <1>1, <2>1, <2>2
  <2>4. j - n \in 1 .. Len(t) /\ t[j - n] = s[j]
    BY <1>0, <1>1, <2>3
  <2>5. ASSUME NEW k \in 1 .. Len(t), t[k] \in Stops PROVE k = j - n
    <3>1. n + k \in {i, j} /\ n + k > i
      BY <1>1, <1>2, <2>1, <2>3, <2>5
    <3> QED
      BY <1>1, <3>1
  <2> QED
    BY <2>1, <2>3, <2>4, <2>5 DEF OneStop
<1> QED
  BY <1>3, <1>4, <1>5

(* What is told of a whole batch: its only stop, or none.                  *)
LEMMA StopOfWhole ==
    ASSUME NEW batch \in Seq(Records), Len(batch) > 0, Whole(batch)
    PROVE  \/ /\ LastOf(batch, Stops) = "none"
              /\ \A i \in 1 .. Len(batch) : batch[i] \notin Stops
           \/ \E p \in 1 .. Len(batch) :
                /\ batch[p] \in Stops /\ LastOf(batch, Stops) = batch[p]
                /\ \A i \in 1 .. Len(batch) : batch[i] \in Stops => i = p
<1> DEFINE at == {i \in DOMAIN batch : batch[i] \in Stops}
<1>1. DOMAIN batch = 1 .. Len(batch) /\ Len(batch) \in Nat
  OBVIOUS
<1>2. IsFiniteSet(at) /\ Cardinality(at) <= 1
  <2>1. IsFiniteSet(1 .. Len(batch))
    BY <1>1, FS_Interval
  <2> QED
    BY <1>1, <2>1, FS_Subset DEF Whole
<1>3. \A i, j \in at : i = j
  <2> HIDE DEF at
  <2>1. Cardinality(at) = 0 \/ Cardinality(at) = 1
    BY <1>2, FS_CardinalityType
  <2>2. at = {} \/ \E x : at = {x}
    BY <1>2, <2>1, FS_EmptySet, FS_Singleton
  <2> QED
    BY <2>2
<1> QED
  BY <1>1, <1>3, NoneIsNoRecord, LastOfProperties

(* What the UI thread does with a batch in a calm behaviour.               *)
LEMMA CalmBatch ==
    ASSUME CalmInv, calm, NEW n \in 1 .. Len(out), HandleBatch(n)
    PROVE  Calm'
<1> DEFINE batch == SubSeq(out, 1, n)
           stop  == LastOf(batch, Stops)
<1>1. /\ out \in Seq(Records) /\ Len(out) \in Nat /\ n \in Nat /\ n <= Len(out)
      /\ batch \in Seq(Records) /\ Len(batch) = n
      /\ \A i \in 1 .. n : batch[i] = out[i]
  BY Cut DEF CalmInv, IInv, TypeOK
<1>2. /\ out' \in Seq(Records) /\ Len(out') = Len(out) - n
      /\ \A i \in 1 .. Len(out) - n : out'[i] = out[n + i]
  BY Cut DEF CalmInv, IInv, TypeOK, HandleBatch
<1>3. /\ UNCHANGED <<target, cmds>> /\ Whole(batch) /\ running' = runningAfter(batch)
      /\ suppress' = (IF stop \in {"hit", "halt"} /\ suppress > 0 THEN suppress - 1 ELSE suppress)
      /\ painted' = (IF stop = "none" THEN painted
                     ELSE stop # "exited" /\ ~(stop \in {"hit", "halt"} /\ suppress > 0))
  BY DEF HandleBatch, Handle
<1> HIDE DEF batch
<1>4. /\ (Resuming' <=> Resuming) /\ (Up' <=> Up) /\ Last' = Last
      /\ Last \subseteq Stops /\ Shown \subseteq Stops
  BY <1>3 DEF Resuming, Up, Last, Shown, Stops
<1>5. out # <<>>
  BY <1>1
<1>6. CommandsInOrder'
  BY <1>3, <1>4, <1>5 DEF CalmInv, Calm, CommandsInOrder
<1>7. TokensMatch'
  <2>1. CASE stop = "none" /\ \A i \in 1 .. n : batch[i] \notin Stops
    <3>1. UNCHANGED <<suppress, painted>>
      BY <1>3, <2>1
    <3>2. \A i \in 1 .. n : out[i] \notin Stops
      BY <1>1, <2>1
    <3> HIDE DEF stop
    <3>3. /\ NoStop(out) => NoStop(out')
          /\ OneStop(out, Shown) => OneStop(out', Shown)
          /\ OneStop(out, Last) => OneStop(out', Last)
          /\ TwoStops(out, Last) => TwoStops(out', Last)
      BY <1>1, <1>2, <1>4, <3>2, StopsOfRest
    <3> QED
      BY <1>3, <1>4, <3>1, <3>3 DEF CalmInv, Calm, TokensMatch, Balanced
  <2>2. ASSUME NEW p \in 1 .. n, batch[p] \in Stops, stop = batch[p],
               \A i \in 1 .. n : batch[i] \in Stops => i = p
        PROVE  TokensMatch'
    <3>1. out[p] \in Stops /\ stop = out[p] /\ \A i \in 1 .. n : out[i] \in Stops => i = p
      BY <1>1, <2>2
    <3> HIDE DEF stop
    <3>2. /\ ~ NoStop(out)
          /\ OneStop(out, Shown) => stop \in Shown /\ NoStop(out')
          /\ OneStop(out, Last) => stop \in Last /\ NoStop(out')
          /\ TwoStops(out, Last) => stop \in Shown /\ OneStop(out', Last)
      <4>1. FirstStop(out, out', n, p)
        BY <1>1, <1>2, <3>1 DEF FirstStop
      <4>2. /\ ~ NoStop(out)
            /\ OneStop(out, Shown) => out[p] \in Shown /\ NoStop(out')
            /\ OneStop(out, Last) => out[p] \in Last /\ NoStop(out')
            /\ TwoStops(out, Last) => out[p] \in Shown /\ OneStop(out', Last)
        BY <1>4, <4>1, StopsOfRestBehind
      <4> QED
        BY <3>1, <4>1, <4>2
    <3>3. CASE Resuming <=> ~ Up
      <4>1. suppress = 1 /\ OneStop(out, Shown)
        BY <3>2, <3>3 DEF CalmInv, Calm, TokensMatch, Balanced
      <4>2. suppress' = 0 /\ NoStop(out')
        BY <1>3, <3>2, <4>1 DEF Shown
      <4> QED
        BY <1>4, <3>3, <4>2 DEF TokensMatch, Balanced
    <3>4. CASE Resuming /\ Up
      BY <3>2, <3>4 DEF CalmInv, Calm, TokensMatch
    <3>5. CASE ~ Resuming /\ ~ Up
      <4>1. CASE suppress = 0 /\ OneStop(out, Last)
        <5>1. suppress' = 0 /\ NoStop(out') /\ stop \in Last
          BY <1>3, <3>2, <4>1
        <5>2. painted' <=> target = "stopped"
          <6>1. painted' = (stop # "exited")
            BY <1>3, <4>1, <5>1 DEF Last, Shown
          <6>2. stop # "exited" <=> target = "stopped"
            BY <5>1 DEF Last, Shown
          <6> QED
            BY <6>1, <6>2
        <5> QED
          BY <1>3, <1>4, <3>5, <5>1, <5>2 DEF TokensMatch
      <4>2. CASE suppress = 1 /\ TwoStops(out, Last)
        <5>1. suppress' = 0 /\ OneStop(out', Last)
          BY <1>3, <3>2, <4>2 DEF Shown
        <5> QED
          BY <1>4, <3>5, <5>1 DEF TokensMatch
      <4> QED
        BY <3>2, <3>5, <4>1, <4>2 DEF CalmInv, Calm, TokensMatch
    <3> QED
      BY <3>3, <3>4, <3>5
  <2> QED
    BY <1>1, <1>3, <2>1, <2>2, StopOfWhole
<1>8. FlagIsKept'
  <2> SUFFICES ASSUME target = "running"
               PROVE  \/ out' = <<>> /\ running'
                      \/ /\ cmds = <<>> /\ Len(out') >= 2
                         /\ out'[Len(out') - 1] = "running" /\ out'[Len(out')] = "prompt"
    BY <1>3 DEF FlagIsKept
  <2>1. cmds = <<>> /\ Len(out) >= 2 /\ out[Len(out) - 1] = "running" /\ out[Len(out)] = "prompt"
    BY <1>5 DEF CalmInv, Calm, FlagIsKept
  <2>2. n # Len(out) - 1
    BY <1>1, <1>3, <2>1 DEF Whole
  <2>3. CASE n = Len(out)
    <3> DEFINE kinds == {"running", "done"} \cup Stops
    <3>1. out' = <<>>
      BY <1>1, <1>2, <2>3, EmptySeq
    <3>2. kinds \in SUBSET Records /\ "prompt" \notin kinds /\ "running" \in kinds
      BY DEF Records, Stops
    <3>3. batch[n - 1] = "running" /\ batch[n] = "prompt" /\ n - 1 \in 1 .. n
      BY <1>1, <2>1, <2>3
    <3> HIDE DEF kinds
    <3>4. PICK i \in 1 .. n : /\ batch[i] \in kinds /\ LastOf(batch, kinds) = batch[i]
                              /\ \A j \in 1 .. n : batch[j] \in kinds => j <= i
      BY <1>1, <3>2, <3>3, LastOfProperties
    <3>5. i # n /\ n - 1 <= i
      BY <3>2, <3>3, <3>4
    <3>6. i = n - 1
      BY <1>1, <3>4, <3>5
    <3>7. stateOf(batch) = "running"
      BY <3>3, <3>4, <3>6 DEF stateOf, kinds
    <3>8. runningAfter(batch) = TRUE
      BY <3>7 DEF runningAfter
    <3> QED
      BY <1>3, <3>1, <3>8
  <2>4. CASE n # Len(out)
    <3>1. Len(out') >= 2 /\ Len(out') - 1 \in 1 .. Len(out) - n /\ Len(out') \in 1 .. Len(out) - n
      BY <1>1, <1>2, <2>2, <2>4
    <3>2. n + (Len(out') - 1) = Len(out) - 1 /\ n + Len(out') = Len(out)
      BY <1>1, <1>2
    <3> QED
      BY <1>2, <2>1, <3>1, <3>2
  <2> QED
    BY <2>3, <2>4
<1> QED
  BY <1>6, <1>7, <1>8 DEF Calm

(* The program comes to rest: its stop is the one the token is for, or the *)
(* last.                                                                   *)
LEMMA CalmStop ==
    ASSUME CalmInv, Calm, Up, ~ Up', UNCHANGED <<cmds, suppress>>,
           NEW r \in Stops, out' = Append(out, r), r \in Last',
           Resuming => target' = "stopped"
    PROVE  Calm'
<1>1. out \in Seq(Records) /\ r \in Last' /\ Resuming' = Resuming
  BY DEF CalmInv, IInv, TypeOK, Resuming
<1>2. /\ NoStop(out) => OneStop(out', Last')
      /\ OneStop(out, Shown) => TwoStops(out', Last')
  <2>1. /\ NoStop(out) => OneStop(out', {r})
        /\ OneStop(out, Shown) => TwoStops(out', {r})
    BY <1>1, StopsOfAppended
  <2>2. OneStop(out', {r}) => OneStop(out', Last')
    BY <1>1 DEF OneStop
  <2>3. TwoStops(out', {r}) => TwoStops(out', Last')
    BY <1>1 DEF TwoStops
  <2> QED
    BY <2>1, <2>2, <2>3
<1>3. CommandsInOrder'
  BY <1>1 DEF Calm, CommandsInOrder, Up
<1>4. TokensMatch'
  BY <1>1, <1>2 DEF Calm, TokensMatch, Balanced, Last
<1>5. FlagIsKept'
  BY DEF FlagIsKept, Up
<1> QED
  BY <1>3, <1>4, <1>5 DEF Calm

(* GDB reads a command: it resumes the program, or answers.                *)
LEMMA CalmRead == ASSUME CalmInv, calm, GdbReads PROVE Calm'
<1> USE DEF channel, ui, rest
<1>1. /\ cmds \in Seq(Commands) /\ cmds # <<>> /\ out \in Seq(Records) /\ Calm
      /\ Len(cmds) \in Nat /\ 1 <= Len(cmds) /\ Head(cmds) = cmds[1] /\ Len(out) \in Nat
  BY EmptySeq DEF CalmInv, IInv, TypeOK, GdbReads
<1>2. cmds' \in Seq(Commands) /\ Len(cmds') = Len(cmds) - 1 /\ \A i \in 1 .. Len(cmds') : cmds'[i] = cmds[i + 1]
  BY <1>1, HeadTailProperties DEF GdbReads
<1>3. target # "stopping" /\ UNCHANGED <<running, suppress, painted>>
  BY DEF GdbReads
<1>4. Shown \subseteq Stops
  BY DEF Shown, Stops
<1>5. CASE Resumes(cmds[1])
  <2>1. ~ Up
    BY <1>5 DEF Resumes, Up
  <2>2. Len(cmds) = 1
    <3>1. 1 \in 1 .. Len(cmds) /\ cmds[1] \in {"exec", "continue"}
      BY <1>1, <1>5 DEF Resumes
    <3> QED
      BY <1>1, <3>1 DEF Calm, CommandsInOrder
  <2>3. cmds' = <<>> /\ ~ Resuming' /\ target' = "running" /\ Up'
    BY <1>1, <1>2, <1>5, <2>2, EmptySeq DEF GdbReads, Resuming, Up
  <2>4. out' = out \o <<"running", "prompt">>
    BY <1>1, <1>5 DEF GdbReads
  <2>5. /\ out' \in Seq(Records) /\ Len(out') = Len(out) + 2
        /\ \A i \in 1 .. Len(out) : out'[i] = out[i]
        /\ out'[Len(out) + 1] = "running" /\ out'[Len(out) + 2] = "prompt"
    <3>1. PICK b : b = <<"running", "prompt">>
      OBVIOUS
    <3>2. b \in Seq(Records) /\ Len(b) = 2 /\ b[1] = "running" /\ b[2] = "prompt"
      BY <3>1 DEF Records
    <3>3. /\ out \o b \in Seq(Records) /\ Len(out \o b) = Len(out) + Len(b)
          /\ \A i \in 1 .. Len(out) + Len(b) :
               (out \o b)[i] = IF i <= Len(out) THEN out[i] ELSE b[i - Len(out)]
      BY <1>1, <3>2, ConcatProperties
    <3>4. out' = out \o b
      BY <2>4, <3>1
    <3> HIDE <2>4, <3>1
    <3>5. Len(out) \in Nat
      BY <1>1
    <3>6. \A i \in 1 .. Len(out) : out'[i] = out[i]
      BY <3>2, <3>3, <3>4, <3>5
    <3>7. out'[Len(out) + 1] = "running" /\ out'[Len(out) + 2] = "prompt"
      BY <3>2, <3>3, <3>4, <3>5
    <3> QED
      BY <3>2, <3>3, <3>4, <3>6, <3>7
  <2>6. \A i \in Len(out) + 1 .. Len(out') : out'[i] \notin Stops
    <3> SUFFICES ASSUME NEW i \in Len(out) + 1 .. Len(out') PROVE out'[i] \notin Stops
      OBVIOUS
    <3>1. i = Len(out) + 1 \/ i = Len(out) + 2
      BY <1>1, <2>5
    <3> QED
      BY <2>5, <3>1 DEF Stops
  <2>7. (NoStop(out) => NoStop(out')) /\ (OneStop(out, Shown) => OneStop(out', Shown))
    <3>1. Len(out) <= Len(out') /\ \A i \in 1 .. Len(out) : out'[i] = out[i]
      BY <1>1, <2>5
    <3>2. out \in Seq(Records) /\ out' \in Seq(Records)
      BY <1>1, <2>5
    <3> QED
      BY <2>6, <3>1, <3>2, StopsOfExtended
  <2>8. Balanced
    <3>1. CASE cmds[1] = "continue"
      BY <1>1, <2>1, <3>1 DEF Resuming, Calm, TokensMatch
    <3>2. CASE cmds[1] = "exec"
      <4>1. out = <<>> /\ ~ Resuming
        BY <1>1, <2>2, <3>2 DEF Calm, CommandsInOrder, Resuming
      <4>2. NoStop(out) /\ ~ OneStop(out, Last) /\ ~ TwoStops(out, Last)
        BY <1>1, <4>1 DEF NoStop, OneStop, TwoStops
      <4> QED
        BY <1>1, <2>1, <4>1, <4>2 DEF Calm, TokensMatch, Balanced
    <3> QED
      BY <1>5, <3>1, <3>2 DEF Resumes
  <2>9. Balanced'
    BY <1>3, <2>7, <2>8 DEF Balanced
  <2>10. CommandsInOrder'
    BY <2>3, EmptySeq DEF CommandsInOrder
  <2>11. TokensMatch'
    BY <2>3, <2>9 DEF TokensMatch
  <2>12. FlagIsKept'
    BY <1>1, <2>3, <2>5 DEF FlagIsKept
  <2> QED
    BY <2>10, <2>11, <2>12 DEF Calm
<1>6. CASE ~ Resumes(cmds[1])
  <2>1. /\ out' = Append(out, "done")
        /\ target' = IF cmds[1] = "interrupt" /\ target = "running" THEN "stopping" ELSE target
    BY <1>1, <1>6 DEF GdbReads
  <2>2. cmds[1] # "exec"
    BY <1>1, <1>6 DEF CalmInv, IInv, TypeOK, Resumes, Calm, CommandsInOrder, Up
  <2>3. \A i \in 1 .. Len(cmds) : cmds[i] # "exec"
    BY <1>1, <2>2 DEF Calm, CommandsInOrder
  <2>4. cmds[1] # "continue"
    <3> SUFFICES ASSUME cmds[1] = "continue" PROVE FALSE
      OBVIOUS
    <3>1. Resuming
      BY <1>1 DEF Resuming
    <3>2. target \in {"none", "running"}
      BY <1>3, <1>6 DEF CalmInv, IInv, TypeOK, Resumes
    <3> QED
      BY <1>1, <3>1, <3>2 DEF Calm, CommandsInOrder
  <2>5. Resuming' <=> Resuming
    <3>1. Resuming' => Resuming
      BY <1>1, <1>2 DEF Resuming
    <3>2. ASSUME Resuming PROVE Resuming'
      <4>1. PICK i \in 1 .. Len(cmds) : cmds[i] = "continue"
        BY <3>2 DEF Resuming
      <4>2. i - 1 \in 1 .. Len(cmds') /\ cmds'[i - 1] = cmds[i]
        BY <1>1, <1>2, <2>4, <4>1
      <4> QED
        BY <4>1, <4>2 DEF Resuming
    <3> QED
      BY <3>1, <3>2
  <2>6. (Up' <=> Up) /\ (~ Up => Last' = Last /\ target' = target) /\ target' # "running" /\ Last \subseteq Stops
    BY <1>1, <2>1 DEF Up, Last, Shown, Stops, Calm, CommandsInOrder
  <2>7. /\ out' \in Seq(Records) /\ Len(out) <= Len(out') /\ \A i \in 1 .. Len(out) : out'[i] = out[i]
        /\ \A i \in Len(out) + 1 .. Len(out') : out'[i] \notin Stops
    BY <1>1, <2>1 DEF Records, Stops
  <2>8. /\ NoStop(out) => NoStop(out')
        /\ OneStop(out, Shown) => OneStop(out', Shown)
        /\ OneStop(out, Last) => OneStop(out', Last)
        /\ TwoStops(out, Last) => TwoStops(out', Last)
    BY <1>1, <2>7, StopsOfExtended
  <2>9. CommandsInOrder'
    <3>1. \A i \in 1 .. Len(cmds') : cmds'[i] = "continue" => i = Len(cmds')
      BY <1>1, <1>2 DEF Calm, CommandsInOrder
    <3>2. \A i \in 1 .. Len(cmds') : cmds'[i] # "exec"
      BY <1>1, <1>2, <2>3
    <3>3. Resuming' => target' # "none"
      BY <1>1, <2>1, <2>5 DEF Calm, CommandsInOrder
    <3> QED
      BY <2>6, <3>1, <3>2, <3>3 DEF CommandsInOrder
  <2>10. TokensMatch'
    BY <1>1, <1>3, <2>5, <2>6, <2>8 DEF Calm, TokensMatch, Balanced
  <2>11. FlagIsKept'
    BY <2>6 DEF FlagIsKept
  <2> QED
    BY <2>9, <2>10, <2>11 DEF Calm
<1> QED
  BY <1>5, <1>6

(* At rest, a calm user interface knows how the program is.                *)
LEMMA CalmAtRest ==
    ASSUME CalmInv, calm, Quiet
    PROVE  /\ Calm /\ ~ Resuming /\ NoStop(out) /\ suppress = 0
           /\ running <=> target = "running"
           /\ Up <=> target = "running"
           /\ ~ Up => (painted <=> target = "stopped")
<1>1. Calm /\ cmds = <<>> /\ out = <<>> /\ Len(cmds) = 0 /\ Len(out) = 0
  BY DEF CalmInv, Quiet
<1>2. ~ Resuming /\ NoStop(out) /\ (Up <=> target = "running")
  BY <1>1 DEF Resuming, NoStop, Up, Quiet
<1>3. ~ OneStop(out, Shown) /\ ~ OneStop(out, Last) /\ ~ TwoStops(out, Last)
  BY <1>1 DEF OneStop, TwoStops
<1>4. CASE target = "running"
  BY <1>1, <1>2, <1>3, <1>4 DEF Calm, TokensMatch, Balanced, FlagIsKept
<1>5. CASE target # "running"
  <2>1. ~ running
    BY <1>5, IInvImplies DEF CalmInv, RunningHasCause
  <2>2. suppress = 0 /\ (painted <=> target = "stopped")
    BY <1>1, <1>2, <1>3, <1>5 DEF Calm, TokensMatch
  <2> QED
    BY <1>1, <1>2, <1>5, <2>1, <2>2
<1> QED
  BY <1>4, <1>5

(* What one act of the user or of a refresh sends, at rest.                *)
LEMMA CalmSends ==
    ASSUME CalmInv, calm, Quiet, UNCHANGED <<target, out, running, painted>>,
           \A i \in 1 .. Len(cmds') : cmds'[i] = "continue" => i = Len(cmds'),
           \A i \in 1 .. Len(cmds') : cmds'[i] = "exec" => Len(cmds') = 1 /\ ~ Up,
           target = "running" /\ cmds' # <<>> => cmds'[1] = "interrupt",
           Resuming' => target = "running" /\ suppress' = 1,
           ~ Resuming' => suppress' = 0
    PROVE  Calm'
<1>1. Calm /\ NoStop(out') /\ out' = <<>> /\ (Up' <=> Up) /\ (Up <=> target' = "running")
      /\ (running' <=> target' = "running") /\ (~ Up' => (painted' <=> target' = "stopped"))
  BY CalmAtRest DEF Up, Quiet
<1>2. CommandsInOrder'
  BY <1>1 DEF CommandsInOrder
<1>3. TokensMatch'
  BY <1>1 DEF TokensMatch, Balanced
<1>4. FlagIsKept'
  BY <1>1 DEF FlagIsKept
<1> QED
  BY <1>2, <1>3, <1>4 DEF Calm

LEMMA CalmSent ==
    ASSUME CalmInv, calm, NEW cmd \in {"insert", "remove", "select"}, SendCmd(cmd)
    PROVE  Calm'
<1> USE DEF rest
<1>1. Quiet /\ UNCHANGED <<target, out, running, painted>> /\ cmds = <<>>
  BY DEF SendCmd, User, Quiet
<1>2. (running <=> target = "running") /\ suppress = 0
  BY <1>1, CalmAtRest
<1>3. CASE ~ running
  <2>1. cmds' = <<cmd>> /\ suppress' = 0
    BY <1>1, <1>2, <1>3 DEF SendCmd, willResume
  <2>2. Len(cmds') = 1 /\ cmds'[1] = cmd /\ ~ Resuming'
    BY <2>1 DEF Resuming
  <2> QED
    BY <1>1, <1>2, <1>3, <2>1, <2>2, CalmSends
<1>4. CASE running /\ ~ willResume(cmd)
  <2>1. cmds' = <<"interrupt", cmd>> /\ suppress' = 0
    BY <1>1, <1>2, <1>4 DEF SendCmd
  <2>2. Len(cmds') = 2 /\ cmds'[1] = "interrupt" /\ cmds'[2] = cmd
    BY <2>1
  <2>3. \A i \in 1 .. Len(cmds') : cmds'[i] # "continue" /\ cmds'[i] # "exec"
    <3>1. \A i \in 1 .. Len(cmds') : i = 1 \/ i = 2
      BY <2>2
    <3> QED
      BY <2>2, <3>1
  <2>4. ~ Resuming'
    BY <2>3 DEF Resuming
  <2> QED
    BY <1>1, <2>1, <2>2, <2>3, <2>4, CalmSends
<1>5. CASE running /\ willResume(cmd)
  <2> DEFINE first == <<"interrupt", cmd>>
  <2>1. cmds' = first \o <<"continue">> /\ suppress' = 1
    <3>1. cmds' = <<>> \o first \o <<"continue">>
      BY <1>1, <1>5 DEF SendCmd
    <3>2. <<>> \o first = first
      OBVIOUS
    <3>3. suppress' = 1
      BY <1>2, <1>5 DEF SendCmd
    <3> QED
      BY <3>1, <3>2, <3>3
  <2>2. Len(cmds') = 3 /\ cmds'[1] = "interrupt" /\ cmds'[2] = cmd /\ cmds'[3] = "continue"
    <3>1. first \in Seq(Commands) /\ Len(first) = 2 /\ first[1] = "interrupt" /\ first[2] = cmd
      BY DEF Commands
    <3>2. <<"continue">> \in Seq(Commands) /\ Len(<<"continue">>) = 1 /\ <<"continue">>[1] = "continue"
      BY DEF Commands
    <3> HIDE DEF first
    <3> QED
      BY <2>1, <3>1, <3>2, ConcatProperties
  <2>3. \A i \in 1 .. Len(cmds') : cmds'[i] # "exec" /\ (cmds'[i] = "continue" => i = Len(cmds'))
    <3>1. \A i \in 1 .. Len(cmds') : i = 1 \/ i = 2 \/ i = 3
      BY <2>2
    <3> QED
      BY <2>2, <3>1
  <2>4. Resuming'
    BY <2>2 DEF Resuming
  <2> QED
    BY <1>1, <1>2, <1>5, <2>1, <2>2, <2>3, <2>4, CalmSends
<1> QED
  BY <1>3, <1>4, <1>5

LEMMA CalmInit == ASSUME Init PROVE CalmInv
<1>1. Len(cmds) = 0 /\ Len(out) = 0
  BY DEF Init
<1>2. CommandsInOrder /\ FlagIsKept
  BY <1>1 DEF Init, CommandsInOrder, FlagIsKept, Resuming, Up
<1>3. TokensMatch
  BY <1>1 DEF Init, TokensMatch, Balanced, NoStop, Resuming, Up
<1> QED
  BY <1>2, <1>3, IInvInit DEF CalmInv, Calm

LEMMA CalmNext == ASSUME CalmInv, [Next]_vars PROVE CalmInv'
<1> USE DEF channel, ui, rest
<1>1. IInv' /\ calm' = calm
  BY IInvNext, Steps DEF CalmInv, ExecUI, SendCmd, Interrupt, SuspendInferior, Query, GdbReads,
     Halts, Hits, Exits, HandleBatch, vars
<1> SUFFICES ASSUME calm PROVE Calm'
  BY <1>1 DEF CalmInv
<1>2. Calm
  BY DEF CalmInv
<1>3. CASE ExecUI
  <2>1. Quiet /\ ~ running /\ UNCHANGED <<target, out, suppress, painted>> /\ cmds' = <<"exec">>
    BY <1>3 DEF ExecUI, User, Quiet
  <2>2. target # "running" /\ ~ Up /\ suppress = 0 /\ NoStop(out) /\ out = <<>>
        /\ (painted <=> target = "stopped")
    BY <2>1, CalmAtRest DEF Quiet
  <2>3. Len(cmds') = 1 /\ cmds'[1] = "exec" /\ ~ Resuming' /\ ~ Up' /\ NoStop(out')
    BY <2>1, <2>2 DEF Resuming, Up
  <2>4. CommandsInOrder' /\ FlagIsKept'
    BY <2>1, <2>2, <2>3 DEF CommandsInOrder, FlagIsKept
  <2>5. TokensMatch'
    BY <2>1, <2>2, <2>3 DEF TokensMatch, Balanced
  <2> QED
    BY <2>4, <2>5 DEF Calm
<1>4. ASSUME NEW cmd \in {"insert", "remove", "select"}, SendCmd(cmd) PROVE Calm'
  BY <1>4, CalmSent
<1>5. CASE Interrupt
  <2>1. Quiet /\ UNCHANGED <<target, out, running, suppress, painted>>
        /\ cmds' = IF running THEN <<"interrupt">> ELSE <<>>
    BY <1>5 DEF Interrupt, User, Quiet
  <2>2. (running <=> target = "running") /\ suppress' = 0
    BY <2>1, CalmAtRest
  <2>3. \A i \in 1 .. Len(cmds') : cmds'[i] = "interrupt"
    BY <2>1
  <2>4. ~ Resuming' /\ (cmds' # <<>> => cmds'[1] = "interrupt")
    BY <2>1, <2>3 DEF Resuming
  <2> QED
    BY <2>1, <2>2, <2>3, <2>4, CalmSends
<1>6. CASE SuspendInferior
  <2>1. Quiet /\ running /\ UNCHANGED <<cmds, suppress>>
    BY <1>6 DEF SuspendInferior, User
  <2>2. target = "running"
    BY <2>1, CalmAtRest
  <2>3. target' = "stopped" /\ out' = Append(out, "hit")
    BY <1>6, <2>2 DEF SuspendInferior
  <2>4. Up /\ ~ Up' /\ "hit" \in Last' /\ "hit" \in Stops
    BY <2>2, <2>3 DEF Up, Last, Shown, Stops
  <2> QED
    BY <1>2, <2>1, <2>3, <2>4, CalmStop
<1>7. CASE Query
  <2>1. Quiet /\ ~ running /\ UNCHANGED <<target, out, running, suppress, painted>> /\ cmds' = <<"query">>
    BY <1>7 DEF Query, Quiet
  <2>2. target # "running" /\ suppress' = 0
    BY <2>1, CalmAtRest
  <2>3. Len(cmds') = 1 /\ cmds'[1] = "query" /\ ~ Resuming'
    BY <2>1 DEF Resuming
  <2> QED
    BY <2>1, <2>2, <2>3, CalmSends
<1>8. CASE GdbReads
  BY <1>8, CalmRead
<1>9. CASE Halts
  <2>1. Up /\ ~ Up' /\ "halt" \in Last' /\ "halt" \in Stops
    BY <1>9 DEF Halts, Up, Last, Shown, Stops
  <2> QED
    BY <1>2, <1>9, <2>1, CalmStop DEF Halts
<1>10. CASE Hits
  <2>1. Up /\ ~ Up' /\ "hit" \in Last' /\ "hit" \in Stops
    BY <1>10 DEF Hits, Up, Last, Shown, Stops
  <2> QED
    BY <1>2, <1>10, <2>1, CalmStop DEF Hits
<1>11. CASE Exits
  <2>1. Up /\ ~ Up' /\ "exited" \in Last' /\ "exited" \in Stops
    BY <1>11 DEF Exits, Up, Last, Stops
  <2>2. ~ Resuming
    BY <1>11 DEF Exits, Resuming
  <2> QED
    BY <1>2, <1>11, <2>1, <2>2, CalmStop DEF Exits
<1>12. ASSUME NEW n \in 1 .. Len(out), HandleBatch(n) PROVE Calm'
  BY <1>12, CalmBatch
<1>13. CASE UNCHANGED vars
  BY <1>2, <1>13 DEF vars, Calm, CommandsInOrder, TokensMatch, Balanced, FlagIsKept, Resuming, Up,
     Last, NoStop, OneStop, TwoStops
<1> QED
  BY <1>3, <1>4, <1>5, <1>6, <1>7, <1>8, <1>9, <1>10, <1>11, <1>12, <1>13, Steps

(* In a calm behaviour the flag is set exactly while the program runs,     *)
(* through the stop and resume of every break set in a running program.    *)
THEOREM FlagFollows == Spec => []FlagFollowsTargetWhenCalm
<1>1. Init => CalmInv
  BY CalmInit
<1>2. CalmInv /\ [Next]_vars => CalmInv'
  BY CalmNext
<1>3. CalmInv => FlagFollowsTargetWhenCalm
  BY CalmAtRest DEF FlagFollowsTargetWhenCalm, FlagFollowsTarget
<1> QED
  BY <1>1, <1>2, <1>3, PTL DEF Spec

(* In a calm behaviour a program at rest at a stop is shown there: every   *)
(* token hides the stop of the interrupt it was given for.                 *)
THEOREM StopsAreShown == Spec => []StopIsShown
<1>1. Init => CalmInv
  BY CalmInit
<1>2. CalmInv /\ [Next]_vars => CalmInv'
  BY CalmNext
<1>3. CalmInv => StopIsShown
  BY CalmAtRest DEF StopIsShown
<1> QED
  BY <1>1, <1>2, <1>3, PTL DEF Spec
===========================================================================
