--------------------------- MODULE Session_proofs ---------------------------
(***************************************************************************)
(* Proofs about Session, for any locations, any number of windows, of acts *)
(* of the user and of runs of gdbforge: the program's terminal and the     *)
(* windows, the file of the breakpoints, and what becomes of the           *)
(* breakpoints at a quit, a start and a change of session.                 *)
(***************************************************************************)
EXTENDS Session, TLAPS

(***************************************************************************)
(* Windows.                                                                *)
(***************************************************************************)
LEMMA Numbers == MaxWindows \in Nat /\ 0 \notin Windows /\ Internal \notin Windows
                 /\ Elsewhere \notin Windows /\ Windows \subseteq 0 .. MaxWindows
BY InferiorTerminalAssumption DEF Windows, Internal, Elsewhere

Fields == {"open", "helper", "claims", "pid", "path", "used"}
Shaped(ws) == DOMAIN ws = Windows /\ \A w \in Windows : DOMAIN ws[w] = Fields

(* A window of which less is left: what its helper did and said stays. *)
Left(a, b) == /\ DOMAIN b = Fields
              /\ b.claims = a.claims /\ b.used = a.used /\ b.pid = a.pid /\ b.path = a.path
              /\ (b.open => a.open) /\ (b.helper => a.helper)
Lesser(ws, vs) == DOMAIN vs = Windows /\ \A w \in Windows : Left(ws[w], vs[w])

LEMMA LesserIsTransitive ==
    ASSUME NEW us, NEW vs, NEW ws, Lesser(us, vs), Lesser(vs, ws)
    PROVE  Lesser(us, ws)
BY DEF Lesser, Left

LEMMA LesserIsShaped ==
    ASSUME NEW us, NEW vs, Lesser(us, vs)
    PROVE  Shaped(vs)
BY DEF Lesser, Left, Shaped

LEMMA Closings ==
    ASSUME NEW ws, Shaped(ws), NEW w
    PROVE  /\ Lesser(ws, HungUp(ws, w)) /\ Lesser(ws, Killed(ws, w)) /\ Lesser(ws, TermKilled(ws, w))
           /\ w \in Windows => ~Killed(ws, w)[w].open
<1>1. Lesser(ws, ws)
  BY DEF Shaped, Lesser, Left
<1>2. Lesser(ws, HungUp(ws, w))
  <2> DEFINE r == [ws[w] EXCEPT !.open = FALSE, !.helper = @ /\ ws[w].claims = "no"]
             vs == HungUp(ws, w)
  <2>1. DOMAIN vs = Windows /\ \A v \in Windows : v # w => vs[v] = ws[v]
    BY DEF HungUp, Shaped
  <2>2. w \in Windows => vs[w] = r
    BY DEF HungUp, Shaped
  <2>3. w \in Windows => Left(ws[w], r)
    BY DEF Shaped, Left, Fields
  <2> HIDE DEF vs, r
  <2>4. Lesser(ws, vs)
    BY <2>1, <2>2, <2>3, <1>1 DEF Lesser
  <2> QED
    BY <2>4 DEF vs
<1>3. Lesser(ws, Killed(ws, w)) /\ (w \in Windows => ~Killed(ws, w)[w].open)
  <2> DEFINE r == [ws[w] EXCEPT !.open = FALSE, !.helper = FALSE]
             vs == Killed(ws, w)
  <2>1. DOMAIN vs = Windows /\ \A v \in Windows : v # w => vs[v] = ws[v]
    BY DEF Killed, Shaped
  <2>2. w \in Windows => vs[w] = r
    BY DEF Killed, Shaped
  <2>3. w \in Windows => Left(ws[w], r) /\ ~r.open
    BY DEF Shaped, Left, Fields
  <2> HIDE DEF vs, r
  <2>4. Lesser(ws, vs)
    BY <2>1, <2>2, <2>3, <1>1 DEF Lesser
  <2> QED
    BY <2>2, <2>3, <2>4 DEF vs
<1> QED
  BY <1>1, <1>2, <1>3 DEF TermKilled

(* The windows after `internal', another `external' and the end. *)
LEMMA HoldsClosed ==
    ASSUME Shaped(wins)
    PROVE  /\ Lesser(wins, HoldClosed) /\ Lesser(wins, AllClosed)
           /\ hold.pid \in Windows => ~HoldClosed[hold.pid].open /\ ~AllClosed[hold.pid].open
<1> DEFINE ws == IF hold.pid # 0 THEN Killed(wins, hold.pid) ELSE wins
<1>1. Lesser(wins, wins)
  BY DEF Shaped, Lesser, Left
<1>2. Lesser(wins, ws) /\ Shaped(ws) /\ (hold.pid \in Windows => ~ws[hold.pid].open)
  BY <1>1, Closings, Numbers, LesserIsShaped
<1> HIDE DEF ws
<1>3. HoldClosed = IF hold.term # 0 THEN TermKilled(ws, hold.term) ELSE ws
  BY DEF HoldClosed, ws
<1>4. Lesser(ws, HoldClosed)
  <2>1. Lesser(ws, ws)
    BY <1>2 DEF Lesser, Left, Shaped
  <2> QED
    BY <1>2, <1>3, <2>1, Closings
<1>5. Lesser(wins, HoldClosed) /\ (hold.pid \in Windows => ~HoldClosed[hold.pid].open)
  BY <1>2, <1>4, LesserIsTransitive DEF Lesser, Left
<1>6. \A w \in Windows : Left(wins[w], AllClosed[w])
  BY Closings DEF AllClosed, Lesser
<1>7. Lesser(wins, AllClosed)
  BY <1>6 DEF AllClosed, Lesser
<1>8. hold.pid \in Windows => ~AllClosed[hold.pid].open
  BY Closings DEF AllClosed
<1> QED
  BY <1>5, <1>7, <1>8

(***************************************************************************)
(* The invariant of the terminals.  A path that anyone has read is that of *)
(* a window whose helper has let go and has written its pid before it; the *)
(* window being opened is the only one that may write files.               *)
(***************************************************************************)
TermShape ==
    /\ Shaped(wins)
    /\ hold \in [pid: 0 .. MaxWindows, term: 0 .. MaxWindows]
    /\ opening \in [win: 0 .. MaxWindows, pts: 0 .. MaxWindows, pid: 0 .. MaxWindows,
                    at: {"none", "path", "pid"}]
    /\ opening = NoOpening \/ (opening.at # "none" /\ opening.win \in Windows)
    /\ pathFile \in 0 .. MaxWindows /\ pidFile \in 0 .. MaxWindows

Helps(w) == /\ (w.open \/ w.helper \/ w.pid \/ w.path => w.used)
            /\ (w.path => w.pid)
            /\ (w.pid => w.claims # "yes")
HelpersOrdered == \A w \in Windows : Helps(wins[w])

Written(w) == w # 0 => wins[w].path
PathsAreWritten ==
    /\ Written(pathFile) /\ Written(opening.pts)
    /\ tty \in Windows => wins[tty].path

Alone(w) == /\ \A v \in Windows : v # w => ~wins[v].open /\ (wins[v].used => wins[v].path)
            /\ {pathFile, pidFile, opening.pts, opening.pid} \subseteq {0, w}
            /\ opening.at = "path" => opening.pts = 0
            /\ wins[w].pid => pidFile = w
OneIsHeld ==
    ~gaveUp =>
        /\ opening = NoOpening =>
              \A w \in Windows : /\ wins[w].open => hold # NoHold /\ hold.pid = w
                                 /\ wins[w].used => wins[w].path
        /\ opening # NoOpening => Alone(opening.win)

TInv == TermShape /\ HelpersOrdered /\ PathsAreWritten /\ OneIsHeld

LEMMA TInvStarts == TerminalStarts => TInv
<1> SUFFICES ASSUME TerminalStarts PROVE TInv
  OBVIOUS
<1>1. TermShape
  BY Numbers DEF TerminalStarts, TermShape, Shaped, Unused, Fields, NoHold, NoOpening
<1>2. HelpersOrdered /\ PathsAreWritten /\ OneIsHeld
  BY Numbers DEF TerminalStarts, HelpersOrdered, Helps, PathsAreWritten, Written, OneIsHeld,
                 Unused, NoOpening
<1> QED
  BY <1>1, <1>2 DEF TInv

LEMMA TInvEnds == TerminalEnds => TInv'
<1> SUFFICES ASSUME TerminalEnds PROVE TInv'
  OBVIOUS
<1>1. TermShape'
  BY Numbers DEF TerminalEnds, TermShape, Shaped, Unused, Fields, NoHold, NoOpening
<1>2. HelpersOrdered' /\ PathsAreWritten' /\ OneIsHeld'
  BY Numbers DEF TerminalEnds, HelpersOrdered, Helps, PathsAreWritten, Written, OneIsHeld,
                 Unused, NoOpening
<1> QED
  BY <1>1, <1>2 DEF TInv

(* Steps that leave the windows alone: the program may be pointed at the IO
   pane or away. *)
LEMMA TInvPoints ==
    ASSUME TInv, UNCHANGED window, tty' \in {tty, Internal, Elsewhere}
    PROVE  TInv'
<1>1. UNCHANGED <<wins, pathFile, pidFile, hold, opening, gaveUp>>
  BY DEF window, files
<1>2. TermShape' /\ HelpersOrdered'
  BY <1>1 DEF TInv, TermShape, HelpersOrdered
<1>3. PathsAreWritten'
  BY <1>1, Numbers DEF TInv, PathsAreWritten, Written
<1>4. OneIsHeld'
  BY <1>1 DEF TInv, OneIsHeld, Alone
<1> QED
  BY <1>2, <1>3, <1>4 DEF TInv

(* Windows that close, while no window or the same is being opened. *)
LEMMA TInvCloses ==
    ASSUME TInv, Lesser(wins, wins'), UNCHANGED <<files, opening, gaveUp>>,
           tty' \in {tty, Internal},
           \/ UNCHANGED hold
           \/ /\ hold' = NoHold /\ opening = NoOpening
              /\ hold.pid \in Windows => ~wins'[hold.pid].open
    PROVE  TInv'
<1>1. UNCHANGED <<pathFile, pidFile, opening, gaveUp>>
  BY DEF files
<1>2. \A w \in Windows : Left(wins[w], wins'[w])
  BY DEF Lesser
<1>3. TermShape'
  BY <1>1, LesserIsShaped, Numbers DEF TInv, TermShape, NoHold
<1>4. HelpersOrdered'
  BY <1>2 DEF TInv, HelpersOrdered, Helps, Left
<1>5. pathFile \in Windows \cup {0} /\ opening.pts \in Windows \cup {0}
  BY DEF TInv, TermShape, Windows
<1>6. PathsAreWritten'
  BY <1>1, <1>2, <1>5, Numbers DEF TInv, PathsAreWritten, Written, Left
<1>7. OneIsHeld'
  <2> SUFFICES ASSUME ~gaveUp PROVE OneIsHeld'
    BY <1>1 DEF OneIsHeld
  <2>1. CASE opening = NoOpening
    <3>1. \A w \in Windows : /\ wins'[w].open => hold' # NoHold /\ hold'.pid = w
                             /\ wins'[w].used => wins'[w].path
      BY <1>2, <2>1, Numbers DEF TInv, OneIsHeld, Left, NoHold
    <3> QED
      BY <1>1, <2>1, <3>1 DEF OneIsHeld
  <2>2. CASE opening # NoOpening
    <3>1. Alone(opening.win) /\ opening.win \in Windows
      BY <2>2 DEF TInv, OneIsHeld, TermShape
    <3>2. Alone(opening.win)'
      BY <1>1, <1>2, <3>1 DEF Alone, Left
    <3> QED
      BY <1>1, <2>2, <3>2 DEF OneIsHeld
  <2> QED
    BY <2>1, <2>2
<1> QED
  BY <1>3, <1>4, <1>6, <1>7 DEF TInv

(* A step of a helper: which of the window's marks it may change. *)
LEMMA TInvHelps ==
    ASSUME TInv, NEW w \in Windows, wins[w].helper, NEW r, DOMAIN r = Fields,
           wins' = [wins EXCEPT ![w] = r], UNCHANGED <<hold, opening, gaveUp, tty>>,
           Helps(r), r.used = wins[w].used, r.open => wins[w].open,
           wins[w].path => r.path,
           pathFile' = pathFile \/ (pathFile' = w /\ r.path /\ ~wins[w].path),
           \/ pidFile' = pidFile /\ r.pid = wins[w].pid
           \/ pidFile' = w /\ ~wins[w].pid
    PROVE  TInv'
<1>1. Shaped(wins) /\ DOMAIN wins = Windows /\ wins[w].used
  BY DEF TInv, TermShape, Shaped, HelpersOrdered, Helps
<1>2. wins'[w] = r /\ DOMAIN wins' = Windows /\ \A v \in Windows : v # w => wins'[v] = wins[v]
  BY <1>1
<1>3. TermShape'
  BY <1>1, <1>2, Numbers DEF TInv, TermShape, Shaped
<1>4. HelpersOrdered'
  BY <1>2 DEF TInv, HelpersOrdered
<1>5. PathsAreWritten'
  <2>1. pathFile \in Windows \cup {0} /\ opening.pts \in Windows \cup {0}
    BY DEF TInv, TermShape, Windows
  <2>2. \A v \in Windows : wins[v].path => wins'[v].path
    BY <1>2
  <2> QED
    BY <1>2, <2>1, <2>2, Numbers DEF TInv, PathsAreWritten, Written
<1>6. OneIsHeld'
  <2> SUFFICES ASSUME ~gaveUp PROVE OneIsHeld'
    BY DEF OneIsHeld
  <2>1. \A v \in Windows : (wins'[v].open => wins[v].open) /\ wins'[v].used = wins[v].used
                           /\ (wins[v].path => wins'[v].path)
    BY <1>2
  <2>2. CASE opening = NoOpening
    <3>1. \A v \in Windows : /\ wins'[v].open => hold # NoHold /\ hold.pid = v
                             /\ wins'[v].used => wins'[v].path
      BY <2>1, <2>2 DEF TInv, OneIsHeld
    <3> QED
      BY <2>2, <3>1 DEF OneIsHeld
  <2>3. CASE opening # NoOpening
    <3> DEFINE o == opening.win
    <3>1. Alone(o) /\ o \in Windows
      BY <2>3 DEF TInv, OneIsHeld, TermShape
    <3>2. w # o => wins[w].path /\ wins[w].pid
      BY <1>1, <3>1 DEF Alone, TInv, HelpersOrdered, Helps
    <3>3. {pathFile', pidFile'} \subseteq {0, o}
      BY <3>1, <3>2 DEF Alone
    <3>4. wins'[o].pid => pidFile' = o
      BY <1>2, <3>1, <3>2 DEF Alone
    <3>5. \A v \in Windows : v # o => ~wins'[v].open /\ (wins'[v].used => wins'[v].path)
      BY <2>1, <3>1 DEF Alone
    <3>6. Alone(o)'
      BY <3>1, <3>3, <3>4, <3>5 DEF Alone
    <3> QED
      BY <2>3, <3>6 DEF OneIsHeld
  <2> QED
    BY <2>2, <2>3
<1> QED
  BY <1>3, <1>4, <1>5, <1>6 DEF TInv

LEMMA StepHelpers ==
    ASSUME TInv, NEW w \in Windows, LetGo(w) \/ WritePid(w) \/ WritePath(w) \/ HelperFails(w)
    PROVE  TInv'
<1>1. /\ wins[w].helper /\ UNCHANGED <<hold, opening, gaveUp, tty>>
      /\ DOMAIN wins = Windows /\ DOMAIN wins[w] = Fields /\ Helps(wins[w]) /\ wins[w].used
  BY DEF LetGo, WritePid, WritePath, HelperFails, Helping, io, TInv, TermShape, Shaped,
         HelpersOrdered, Helps
<1>2. CASE LetGo(w)
  <2>1. PICK c \in {"no", "kept"} : wins' = [wins EXCEPT ![w].claims = c]
    BY <1>2 DEF LetGo
  <2> DEFINE r == [wins[w] EXCEPT !.claims = c]
  <2>2. wins' = [wins EXCEPT ![w] = r]
    BY <1>1, <2>1
  <2>3. DOMAIN r = Fields /\ Helps(r) /\ r.used = wins[w].used /\ r.open = wins[w].open
        /\ r.path = wins[w].path /\ r.pid = wins[w].pid
    BY <1>1 DEF Helps, Fields
  <2>4. UNCHANGED <<pathFile, pidFile>>
    BY <1>2 DEF LetGo, files
  <2> HIDE DEF r
  <2> QED
    BY <1>1, <2>2, <2>3, <2>4, TInvHelps
<1>3. CASE WritePid(w)
  <2> DEFINE r == [wins[w] EXCEPT !.pid = TRUE]
  <2>1. wins' = [wins EXCEPT ![w] = r] /\ pidFile' = w /\ ~wins[w].pid /\ pathFile' = pathFile
    BY <1>1, <1>3 DEF WritePid
  <2>2. DOMAIN r = Fields /\ Helps(r) /\ r.used = wins[w].used /\ r.open = wins[w].open
        /\ r.path = wins[w].path
    BY <1>1, <1>3 DEF Helps, Fields, WritePid
  <2> HIDE DEF r
  <2> QED
    BY <1>1, <2>1, <2>2, TInvHelps
<1>4. CASE WritePath(w)
  <2> DEFINE r == [wins[w] EXCEPT !.path = TRUE]
  <2>1. wins' = [wins EXCEPT ![w] = r] /\ pathFile' = w /\ ~wins[w].path /\ pidFile' = pidFile
    BY <1>1, <1>4 DEF WritePath
  <2>2. DOMAIN r = Fields /\ Helps(r) /\ r.used = wins[w].used /\ r.open = wins[w].open
        /\ r.path /\ r.pid = wins[w].pid
    BY <1>1, <1>4 DEF Helps, Fields, WritePath
  <2> HIDE DEF r
  <2> QED
    BY <1>1, <2>1, <2>2, TInvHelps
<1>5. CASE HelperFails(w)
  <2> DEFINE r == [wins[w] EXCEPT !.helper = FALSE, !.open = FALSE]
  <2>1. wins' = [wins EXCEPT ![w] = r] /\ UNCHANGED <<pathFile, pidFile>>
    BY <1>1, <1>5 DEF HelperFails, files
  <2>2. DOMAIN r = Fields /\ Helps(r) /\ r.used = wins[w].used /\ ~r.open
        /\ r.path = wins[w].path /\ r.pid = wins[w].pid
    BY <1>1 DEF Helps, Fields
  <2> HIDE DEF r
  <2> QED
    BY <1>1, <2>1, <2>2, TInvHelps
<1> QED
  BY <1>2, <1>3, <1>4, <1>5

(***************************************************************************)
(* OpenExternalTTY, from the window to the answer.                         *)
(***************************************************************************)
LEMMA StepOpen == ASSUME TInv, opening = NoOpening, OpenExternalTTY PROVE TInv'
<1>1. /\ Shaped(wins) /\ UNCHANGED <<tty, gaveUp>> /\ hold' = NoHold
      /\ pathFile' = 0 /\ pidFile' = 0
  BY DEF OpenExternalTTY, io, TInv, TermShape
<1> DEFINE ws == HoldClosed
<1>2. Lesser(wins, ws) /\ (hold.pid \in Windows => ~ws[hold.pid].open)
  BY <1>1, HoldsClosed
<1> HIDE DEF ws
<1>3. /\ DOMAIN ws = Windows /\ Shaped(ws)
      /\ \A w \in Windows : /\ Helps(ws[w]) /\ ws[w].used = wins[w].used
                            /\ ws[w].path = wins[w].path
  BY <1>2, LesserIsShaped DEF Lesser, Left, Helps, TInv, HelpersOrdered
<1>4. ~gaveUp => \A w \in Windows : ~ws[w].open /\ (ws[w].used => ws[w].path)
  BY <1>2 DEF TInv, OneIsHeld, Lesser, Left
<1>5. tty \in Windows => ws[tty].path /\ ws[tty].used
  BY <1>3 DEF TInv, PathsAreWritten, Helps
<1>6. CASE wins' = HoldClosed /\ UNCHANGED opening
  <2>1. wins' = ws /\ opening' = NoOpening
    BY <1>6 DEF ws
  <2>2. TermShape'
    BY <1>1, <1>3, <2>1, Numbers DEF TermShape, NoHold, NoOpening
  <2>3. HelpersOrdered' /\ PathsAreWritten'
    BY <1>1, <1>3, <1>5, <2>1 DEF HelpersOrdered, PathsAreWritten, Written, NoOpening
  <2>4. OneIsHeld'
    BY <1>1, <1>4, <2>1 DEF OneIsHeld
  <2> QED
    BY <2>2, <2>3, <2>4 DEF TInv
<1>7. ASSUME NEW w \in Windows, ~wins[w].used, wins' = [HoldClosed EXCEPT ![w] = Fresh],
             opening' = [win |-> w, pts |-> 0, pid |-> 0, at |-> "path"]
      PROVE  TInv'
  <2>1. /\ DOMAIN wins' = Windows /\ wins'[w] = Fresh
        /\ \A v \in Windows : v # w => wins'[v] = ws[v]
    BY <1>3, <1>7 DEF ws
  <2>2. /\ DOMAIN Fresh = Fields /\ Helps(Fresh) /\ ~Fresh.pid
    BY DEF Fresh, Unused, Fields, Helps
  <2>3. TermShape'
    BY <1>1, <1>3, <1>7, <2>1, <2>2, Numbers DEF TermShape, Shaped, NoHold
  <2>4. HelpersOrdered'
    BY <1>3, <2>1, <2>2 DEF HelpersOrdered
  <2>5. PathsAreWritten'
    BY <1>1, <1>3, <1>5, <1>7, <2>1 DEF PathsAreWritten, Written
  <2>6. OneIsHeld'
    BY <1>1, <1>4, <1>7, <2>1, <2>2, Numbers DEF OneIsHeld, Alone, NoOpening
  <2> QED
    BY <2>3, <2>4, <2>5, <2>6 DEF TInv
<1> QED
  BY <1>6, <1>7 DEF OpenExternalTTY

(* The terminal is there: the path is that of the window being opened. *)
LEMMA TInvOpened ==
    ASSUME TInv, opening # NoOpening, NEW p \in 0 .. MaxWindows, opening.pts # 0,
           p # 0 \/ gaveUp, ~gaveUp => p = opening.win,
           NEW e \in 0 .. MaxWindows, Opened([pid |-> p, term |-> e])
    PROVE  TInv'
<1>1. /\ UNCHANGED <<wins, pathFile, pidFile, gaveUp>> /\ opening' = NoOpening
      /\ tty' = opening.pts /\ hold' = [pid |-> p, term |-> e]
  BY DEF Opened, files
<1>2. opening.pts \in Windows
  BY DEF TInv, TermShape, Windows
<1>3. TermShape' /\ HelpersOrdered'
  BY <1>1, Numbers DEF TInv, TermShape, HelpersOrdered, NoOpening
<1>4. PathsAreWritten'
  BY <1>1, <1>2 DEF TInv, PathsAreWritten, Written, NoOpening
<1>5. OneIsHeld'
  <2> SUFFICES ASSUME ~gaveUp PROVE OneIsHeld'
    BY <1>1 DEF OneIsHeld
  <2>1. Alone(opening.win) /\ opening.win \in Windows /\ opening.pts = opening.win
    BY <1>2 DEF TInv, OneIsHeld, TermShape, Alone
  <2>2. wins[opening.win].path
    BY <1>2, <2>1, Numbers DEF TInv, PathsAreWritten, Written
  <2>3. hold'.pid = opening.win /\ hold' # NoHold
    BY <1>1, <2>1, Numbers DEF NoHold
  <2>4. \A w \in Windows : wins[w].open => w = opening.win
    BY <2>1 DEF Alone
  <2>5. \A w \in Windows : wins[w].used => wins[w].path
    BY <2>1, <2>2 DEF Alone
  <2> QED
    BY <1>1, <2>3, <2>4, <2>5 DEF OneIsHeld
<1> QED
  BY <1>3, <1>4, <1>5 DEF TInv

LEMMA StepOpens == ASSUME TInv, PollPath \/ PollPid \/ Deadline PROVE TInv'
<1>1. CASE PollPath
  <2> DEFINE q == IF opening.pts = 0 /\ pathFile # 0 /\ wins[pathFile].open
                  THEN pathFile ELSE opening.pts
  <2>1. /\ UNCHANGED <<wins, pathFile, pidFile, hold, gaveUp, tty>> /\ opening.at = "path"
        /\ opening' = [opening EXCEPT !.at = "pid", !.pts = q]
    BY <1>1 DEF PollPath, files, io
  <2>2. opening.win \in Windows /\ opening # NoOpening /\ q \in 0 .. MaxWindows
    BY <2>1 DEF TInv, TermShape, NoOpening
  <2>3. Written(q) /\ (~gaveUp => q \in {0, opening.win})
    BY <2>2 DEF TInv, PathsAreWritten, OneIsHeld, Alone, Written
  <2> HIDE DEF q
  <2>4. /\ opening'.win = opening.win /\ opening'.pts = q /\ opening'.pid = opening.pid
        /\ opening'.at = "pid" /\ opening' # NoOpening
    BY <2>1, <2>2 DEF TInv, TermShape, NoOpening
  <2>5. TermShape'
    BY <2>1, <2>2, <2>4 DEF TInv, TermShape
  <2>6. HelpersOrdered' /\ PathsAreWritten'
    BY <2>1, <2>3, <2>4 DEF TInv, HelpersOrdered, PathsAreWritten, Written
  <2>7. OneIsHeld'
    <3> SUFFICES ASSUME ~gaveUp PROVE Alone(opening.win)'
      BY <2>1, <2>4 DEF OneIsHeld
    <3>1. Alone(opening.win)
      BY <2>2 DEF TInv, OneIsHeld
    <3> QED
      BY <2>1, <2>3, <2>4, <3>1 DEF Alone
  <2> QED
    BY <2>5, <2>6, <2>7 DEF TInv
<1>2. CASE PollPid
  <2> DEFINE p == IF opening.pid = 0 THEN pidFile ELSE opening.pid
  <2>1. opening.at = "pid" /\ opening # NoOpening /\ opening.win \in Windows
        /\ p \in 0 .. MaxWindows /\ UNCHANGED gaveUp
    <3>1. opening.at = "pid"
      BY <1>2 DEF PollPid
    <3>2. opening # NoOpening
      BY <3>1 DEF NoOpening
    <3>3. UNCHANGED gaveUp
      BY <1>2 DEF PollPid, Opened
    <3> QED
      BY <3>1, <3>2, <3>3 DEF TInv, TermShape
  <2>2. ~gaveUp => /\ Alone(opening.win) /\ p \in {0, opening.win}
                   /\ opening.pts # 0 => p = opening.win
    <3> SUFFICES ASSUME ~gaveUp PROVE /\ Alone(opening.win) /\ p \in {0, opening.win}
                                      /\ opening.pts # 0 => p = opening.win
      OBVIOUS
    <3>1. Alone(opening.win)
      BY <2>1 DEF TInv, OneIsHeld
    <3>2. opening.pts # 0 => wins[opening.win].pid
      BY <2>1, <3>1 DEF Alone, TInv, PathsAreWritten, Written, HelpersOrdered, Helps
    <3> QED
      BY <2>1, <3>1, <3>2, Numbers DEF Alone
  <2>3. CASE opening.pts # 0 /\ p # 0
    <3>1. Opened([pid |-> p, term |-> opening.win])
      BY <1>2, <2>3 DEF PollPid
    <3> HIDE DEF p
    <3> QED
      BY <2>1, <2>2, <2>3, <3>1, Numbers, TInvOpened
  <2>4. CASE ~(opening.pts # 0 /\ p # 0)
    <3>1. /\ opening' = [opening EXCEPT !.at = "path", !.pid = p]
          /\ UNCHANGED <<wins, pathFile, pidFile, hold, tty>>
      BY <1>2, <2>4 DEF PollPid, files, io
    <3> HIDE DEF p
    <3>2. /\ opening'.win = opening.win /\ opening'.pts = opening.pts /\ opening'.pid = p
          /\ opening'.at = "path" /\ opening' # NoOpening
      BY <2>1, <3>1 DEF TInv, TermShape, NoOpening
    <3>3. TermShape'
      BY <2>1, <3>1, <3>2 DEF TInv, TermShape
    <3>4. HelpersOrdered' /\ PathsAreWritten'
      BY <3>1, <3>2 DEF TInv, HelpersOrdered, PathsAreWritten, Written
    <3>5. OneIsHeld'
      <4> SUFFICES ASSUME ~gaveUp PROVE Alone(opening.win)'
        BY <2>1, <3>2 DEF OneIsHeld
      <4>1. opening.pts = 0
        BY <2>1, <2>2, <2>4, Numbers
      <4> QED
        BY <2>2, <3>1, <3>2, <4>1 DEF Alone
    <3> QED
      BY <3>3, <3>4, <3>5 DEF TInv
  <2> QED
    BY <2>3, <2>4
<1>3. CASE Deadline
  <2>1. opening.at = "path" /\ opening # NoOpening /\ opening.win \in Windows
    BY <1>3 DEF Deadline, NoOpening, TInv, TermShape
  <2>2. CASE opening.pts # 0
    <3>1. Opened([pid |-> opening.pid, term |-> opening.win])
      BY <1>3, <2>2 DEF Deadline
    <3>2. gaveUp
      BY <2>1, <2>2 DEF TInv, OneIsHeld, Alone
    <3>3. opening.pid \in 0 .. MaxWindows /\ opening.win \in 0 .. MaxWindows
      BY DEF TInv, TermShape
    <3> QED
      BY <2>1, <2>2, <3>1, <3>2, <3>3, TInvOpened
  <2>3. CASE opening.pts = 0
    <3>1. /\ wins' = TermKilled(wins, opening.win) /\ opening' = NoOpening /\ gaveUp' = TRUE
          /\ UNCHANGED <<pathFile, pidFile, hold, tty>>
      BY <1>3, <2>3 DEF Deadline, files, io
    <3>2. Lesser(wins, wins') /\ Shaped(wins')
      BY <3>1, Closings, LesserIsShaped DEF TInv, TermShape
    <3>3. TermShape'
      BY <3>1, <3>2, Numbers DEF TInv, TermShape, NoOpening
    <3>4. HelpersOrdered'
      BY <3>2 DEF TInv, HelpersOrdered, Helps, Lesser, Left
    <3>5. pathFile \in Windows \cup {0}
      BY DEF TInv, TermShape, Windows
    <3>6. PathsAreWritten'
      BY <3>1, <3>2, <3>5, Numbers DEF TInv, PathsAreWritten, Written, Lesser, Left, NoOpening
    <3> QED
      BY <3>1, <3>3, <3>4, <3>6 DEF TInv, OneIsHeld
  <2> QED
    BY <2>2, <2>3
<1> QED
  BY <1>1, <1>2, <1>3

(***************************************************************************)
(* The other steps of the terminals and sessions.                          *)
(***************************************************************************)
LEMMA TInvSame == ASSUME TInv, UNCHANGED terminal PROVE TInv'
BY TInvPoints DEF terminal, io

LEMMA StepSetsTTY == ASSUME TInv, SetsTTY PROVE TInv'
<1>1. opening = NoOpening /\ Shaped(wins)
  BY DEF SetsTTY, Acts, Up, Responsive, TInv, TermShape
<1>2. ASSUME NEW w \in Windows, UserClosesWindow(w) PROVE TInv'
  <2>1. Lesser(wins, wins') /\ UNCHANGED <<files, opening, gaveUp, tty, hold>>
    BY <1>1, <1>2, Closings DEF UserClosesWindow, io
  <2> QED
    BY <2>1, TInvCloses
<1>3. CASE SetInternal
  <2>1. /\ wins' = HoldClosed /\ hold' = NoHold /\ tty' = Internal
        /\ UNCHANGED <<files, opening, gaveUp>>
    BY <1>3 DEF SetInternal
  <2> QED
    BY <1>1, <2>1, HoldsClosed, TInvCloses
<1>4. CASE SetPath \/ startDlvExternal \/ wireSerialConsole \/ restoreInferiorIO
  <2>1. UNCHANGED window /\ tty' \in {tty, Elsewhere}
    BY <1>4 DEF SetPath, startDlvExternal, wireSerialConsole, restoreInferiorIO, OnDlv
  <2> QED
    BY <2>1, TInvPoints
<1> QED
  BY <1>1, <1>2, <1>3, <1>4, StepOpen DEF SetsTTY

LEMMA StepClose == ASSUME TInv, Up, Close PROVE TInv'
<1>1. opening = NoOpening /\ Shaped(wins)
  BY DEF Up, Responsive, TInv, TermShape
<1>2. /\ wins' = AllClosed /\ hold' = NoHold /\ opening' = opening
      /\ UNCHANGED <<files, gaveUp, tty>>
  BY <1>1 DEF Close, io
<1> QED
  BY <1>1, <1>2, HoldsClosed, TInvCloses

LEMMA TInvNext == ASSUME TInv, [Next]_vars PROVE TInv'
<1>1. CASE UNCHANGED vars
  BY <1>1, TInvSame DEF vars
<1>2. CASE Start \/ Fetch \/ MergeFetched \/ Run \/ Stop \/ Exit \/ Write
  BY <1>2, TInvSame DEF Start, Fetch, MergeFetched, Run, Stop, Exit, Write, Program
<1>3. ASSUME NEW l \in Loc, Toggle(l) \/ ToggleEnable(l) \/ Condition(l) PROVE TInv'
  <2>1. UNCHANGED terminal
    BY <1>3 DEF Toggle, ToggleEnable, Condition, Edited
  <2> QED
    BY <2>1, TInvSame
<1>4. CASE Quit \/ CtrlD
  BY <1>4, StepClose, TInvSame DEF Quit, CtrlD
<1>5. CASE Rename \/ End \/ Crash
  BY <1>5, TInvEnds DEF Rename, End, Crash, Gone
<1>6. CASE PortIsSilent \/ Connects \/ Restarts
  <2>1. UNCHANGED window /\ UNCHANGED tty
    BY <1>6 DEF PortIsSilent, Connects, Restarts, NotListening, ConnectDlv, setDlvInferiorTTY, OnDlv
  <2> QED
    BY <2>1, TInvPoints
<1>7. CASE Attaches
  <2>1. UNCHANGED window /\ tty' \in {Internal, Elsewhere}
    <3>1. PICK to \in {"attached", "local", "none"} : Attach(to)
      BY <1>7 DEF Attaches
    <3> QED
      BY <3>1 DEF Attach, OnDlv
  <2> QED
    BY <2>1, TInvPoints
<1>8. CASE Reapplies
  BY <1>8, TInvPoints DEF Reapplies, io
<1>9. CASE Helpers \/ Opens \/ SetsTTY
  BY <1>9, StepHelpers, StepOpens, StepSetsTTY DEF Helpers, Opens
<1> QED
  BY <1>1, <1>2, <1>3, <1>4, <1>5, <1>6, <1>7, <1>8, <1>9 DEF Next

LEMMA TInvAlways == Spec => []TInv
<1>1. Init => TInv
  BY TInvStarts DEF Init
<1> QED
  BY <1>1, TInvNext, PTL DEF Spec

(* The program is never pointed at a terminal its helper still claims. *)
THEOREM TerminalIsReleased == Spec => []TTYIsReleased
<1>1. TInv => TTYIsReleased
  BY DEF TInv, PathsAreWritten, HelpersOrdered, Helps, TTYIsReleased
<1> QED
  BY <1>1, TInvAlways, PTL

(* Every window on the screen is the one gdbforge would close, unless an
   open gave up. *)
THEOREM NoWindowIsLost == Spec => []WindowsAreHeld
<1>1. TInv => WindowsAreHeld
  BY DEF TInv, OneIsHeld, WindowsAreHeld
<1> QED
  BY <1>1, TInvAlways, PTL

(***************************************************************************)
(* Breakpoints: what the sets of rows are.                                 *)
(***************************************************************************)
RowsOK(rs) == \A l \in DOMAIN rs : DOMAIN rs[l] = {"en", "cond"}

(* What a quit writes, and when it is what the debugger has. *)
Final == IF list = None THEN snapshot.rows ELSE list
Agree(rs, d) ==
    \A l \in Loc : \/ l \in DOMAIN d /\ l \in DOMAIN rs /\ rs[l].cond = d[l].cond
                   \/ l \notin DOMAIN d /\ (l \in DOMAIN rs => ~rs[l].en)

LEMMA RowsKept ==
    ASSUME NEW rs, RowsOK(rs), NEW l, NEW places
    PROVE  /\ RowsOK(Without(rs, l)) /\ RowsOK(Taken(rs, places))
           /\ RowsOK([rs EXCEPT ![l].cond = TRUE]) /\ RowsOK(None)
           /\ DOMAIN rs \cup places = DOMAIN Taken(rs, places)
<1>1. RowsOK(Without(rs, l))
  <2>1. DOMAIN Without(rs, l) = DOMAIN rs \ {l}
        /\ \A k \in DOMAIN rs \ {l} : Without(rs, l)[k] = rs[k]
    BY DEF Without, Restrict
  <2> QED
    BY <2>1 DEF RowsOK
<1>2. RowsOK(Taken(rs, places)) /\ DOMAIN rs \cup places = DOMAIN Taken(rs, places)
  BY DEF RowsOK, Taken, Plain
<1>3. RowsOK([rs EXCEPT ![l].cond = TRUE])
  <2> DEFINE r == [rs[l] EXCEPT !.cond = TRUE]
             qs == [rs EXCEPT ![l].cond = TRUE]
  <2>1. DOMAIN qs = DOMAIN rs /\ \A k \in DOMAIN rs : qs[k] = IF k = l THEN r ELSE rs[k]
    OBVIOUS
  <2>2. l \in DOMAIN rs => DOMAIN r = {"en", "cond"}
    BY DEF RowsOK
  <2> HIDE DEF r, qs
  <2>3. RowsOK(qs)
    BY <2>1, <2>2 DEF RowsOK
  <2> QED
    BY <2>3 DEF qs
<1>4. RowsOK(None)
  BY DEF RowsOK, None
<1> QED
  BY <1>1, <1>2, <1>3, <1>4

(* A list merged with the rows of the debugger is what a quit may write. *)
LEMMA Merged ==
    ASSUME NEW ls, NEW d, RowsOK(d)
    PROVE  Agree(Merge(ls, d), d)
<1> DEFINE m == Merge(ls, d)
           D == DOMAIN d \cup {k \in DOMAIN ls : ~ls[k].en}
<1>1. DOMAIN m = D /\ \A l \in D : m[l] = IF l \in DOMAIN d THEN [d[l] EXCEPT !.en = TRUE] ELSE ls[l]
  BY DEF Merge
<1>2. \A l \in DOMAIN d : l \in DOMAIN m /\ m[l] = [d[l] EXCEPT !.en = TRUE]
  BY <1>1
<1>3. \A l \in DOMAIN d : [d[l] EXCEPT !.en = TRUE].cond = d[l].cond
  BY DEF RowsOK
<1>4. \A l \in DOMAIN m : l \notin DOMAIN d => ~m[l].en
  BY <1>1
<1> HIDE DEF m
<1>5. Agree(m, d)
  BY <1>2, <1>3, <1>4 DEF Agree
<1> QED
  BY <1>5 DEF m

(* What a start leaves, if its query was answered. *)
LEMMA RestoredRows ==
    ASSUME NEW saved, NEW there, RowsOK(there), NEW places, NEW answered \in BOOLEAN
    PROVE  LET r == Restored(saved, there, places, answered)
           IN  /\ RowsOK(r.dbg)
               /\ answered => \A l \in DOMAIN saved \cap places :
                                  /\ l \in DOMAIN r.dbg
                                  /\ r.dbg[l].en => saved[l].en
                                  /\ saved[l].cond => r.dbg[l].cond
<1> DEFINE inserted == Taken(there, DOMAIN saved \cap places)
           live     == [l \in DOMAIN inserted |->
                           IF l \in DOMAIN saved
                           THEN [en   |-> inserted[l].en /\ saved[l].en,
                                 cond |-> inserted[l].cond \/ saved[l].cond]
                           ELSE inserted[l]]
           r == Restored(saved, there, places, answered)
<1>1. r.dbg = IF answered THEN live ELSE inserted
  BY DEF Restored
<1>2. RowsOK(inserted) /\ DOMAIN saved \cap places \subseteq DOMAIN inserted
  BY RowsKept
<1> HIDE DEF inserted, r
<1>3. DOMAIN live = DOMAIN inserted
  OBVIOUS
<1>4. \A l \in DOMAIN inserted : l \notin DOMAIN saved => live[l] = inserted[l]
  OBVIOUS
<1>5. \A l \in DOMAIN inserted : l \in DOMAIN saved =>
          live[l] = [en |-> inserted[l].en /\ saved[l].en, cond |-> inserted[l].cond \/ saved[l].cond]
  OBVIOUS
<1> HIDE DEF live
<1>6. RowsOK(live)
  <2>1. ASSUME NEW l \in DOMAIN inserted, l \in DOMAIN saved
        PROVE  DOMAIN live[l] = {"en", "cond"}
    <3>1. PICK e, c : live[l] = [en |-> e, cond |-> c]
      BY <1>5, <2>1
    <3> QED
      BY <3>1
  <2> QED
    BY <1>2, <1>3, <1>4, <2>1 DEF RowsOK
<1>7. \A l \in DOMAIN inserted : l \in DOMAIN saved =>
          (live[l].en => saved[l].en) /\ (saved[l].cond => live[l].cond)
  <2> SUFFICES ASSUME NEW l \in DOMAIN inserted, l \in DOMAIN saved
               PROVE  (live[l].en => saved[l].en) /\ (saved[l].cond => live[l].cond)
    OBVIOUS
  <2>1. live[l] = [en |-> inserted[l].en /\ saved[l].en, cond |-> inserted[l].cond \/ saved[l].cond]
    BY <1>5
  <2>2. live[l].en = (inserted[l].en /\ saved[l].en)
    BY <2>1
  <2>3. live[l].cond = (inserted[l].cond \/ saved[l].cond)
    BY <2>1
  <2> QED
    BY <2>2, <2>3
<1>8. /\ RowsOK(r.dbg)
      /\ answered => \A l \in DOMAIN saved \cap places :
                         /\ l \in DOMAIN r.dbg
                         /\ r.dbg[l].en => saved[l].en
                         /\ saved[l].cond => r.dbg[l].cond
  BY <1>1, <1>2, <1>3, <1>6, <1>7
<1> QED
  BY <1>8 DEF r

(***************************************************************************)
(* The invariant of the breakpoints and of their file.                     *)
(***************************************************************************)
Off     == phase = "off" => session = "local" /\ wanted = {} /\ ~fetched.busy
Shown   == list = None \/ snapshot.rows = list
Settled == ~dirty /\ ~fetched.busy /\ ~behind
Ready   == /\ phase = "up" /\ Settled => Agree(Final, dbg)
           /\ phase = "up" /\ fetched.busy /\ ~dirty /\ ~behind => fetched.rows = dbg
           /\ phase \in {"saving", "saved"} /\ Settled => Agree(tmp.rows, dbg)
Changing == session \in {"connecting", "restarting", "attached"} /\ ~raced =>
                ~dirty /\ ~fetched.busy /\ wanted \subseteq DOMAIN list
FileOK  == file.whole /\ (phase = "saved" => tmp.whole)

RInv == RowsOK(dbg) /\ Off /\ Shown /\ Ready /\ Changing /\ ConnectKeepsBreakpoints /\ FileOK

LEMMA InitRInv == Init => RInv
<1> SUFFICES ASSUME Init PROVE RInv
  OBVIOUS
<1>1. RowsOK(dbg) /\ Off /\ Shown
  BY DEF Init, TerminalStarts, RowsOK, None, Off, Shown, NotFetching
<1>2. Ready /\ Changing /\ ConnectKeepsBreakpoints /\ FileOK
  BY DEF Init, TerminalStarts, Ready, Changing, ConnectKeepsBreakpoints, FileOK, Whole
<1> QED
  BY <1>1, <1>2 DEF RInv

LEMMA RInvSame ==
    ASSUME RInv, UNCHANGED <<phase, rows, session, disk, behind, wanted, raced>>
    PROVE  RInv'
BY DEF RInv, rows, disk, Off, Shown, Ready, Settled, Final, Changing, ConnectKeepsBreakpoints, FileOK

LEMMA StepStart == ASSUME RInv, Start PROVE RInv'
<1>1. /\ phase = "off" /\ phase' = "up" /\ session = "local" /\ wanted = {} /\ ~fetched.busy
      /\ UNCHANGED <<session, wanted, fetched, file, tmp, raced>>
  BY DEF Start, RInv, Off, terminal, dlvSide, disk
<1> DEFINE saved == IF file.whole THEN file.rows ELSE None
<1>2. PICK script \in SUBSET bound', scripted \in BOOLEAN, answered \in BOOLEAN :
         LET there == Taken(None, script)
             main  == IF scripted THEN {} ELSE {Main} \cap bound'
             r     == Restored(saved, there, bound', answered)
         IN  IF DOMAIN saved = {}
             THEN /\ dbg' = Taken(there, main) /\ list' = None /\ snapshot' = Torn(None)
                  /\ dirty' = (kind = "gdb" /\ main # {}) /\ behind' = ~dirty'
             ELSE /\ dbg' = r.dbg /\ list' = r.list /\ snapshot' = Whole(r.list)
                  /\ dirty' = answered /\ behind' = ~answered
  BY DEF Start
<1> DEFINE there == Taken(None, script)
           main  == IF scripted THEN {} ELSE {Main} \cap bound'
           r     == Restored(saved, there, bound', answered)
<1>3. RowsOK(there) /\ RowsOK(Taken(there, main)) /\ RowsOK(r.dbg)
  <2>1. RowsOK(None)
    BY DEF RowsOK, None
  <2>2. RowsOK(there)
    BY <2>1, RowsKept
  <2> HIDE DEF there
  <2> QED
    BY <2>2, RowsKept, RestoredRows
<1> HIDE DEF there, main, r, saved
<1>4. \/ /\ dbg' = Taken(there, main) /\ list' = None /\ snapshot' = Torn(None) /\ behind' = ~dirty'
      \/ /\ dbg' = r.dbg /\ list' = r.list /\ snapshot' = Whole(r.list)
         /\ dirty' = answered /\ behind' = ~answered
  BY <1>2 DEF there, main, r
<1>5. RowsOK(dbg') /\ Shown'
  BY <1>3, <1>4 DEF Shown, Whole
<1>6. dirty' \/ behind'
  BY <1>4
<1>7. Off' /\ Ready' /\ Changing' /\ ConnectKeepsBreakpoints' /\ FileOK'
  BY <1>1, <1>5, <1>6 DEF Off, Ready, Settled, Changing, ConnectKeepsBreakpoints, FileOK, RInv
<1> QED
  BY <1>5, <1>7 DEF RInv

(* A change of the breakpoints by the user: something is to come. *)
LEMMA RInvEdited ==
    ASSUME RInv, Acts, UNCHANGED <<session, fetched, bound, raced>>, wanted' = {},
           dirty' \/ behind', RowsOK(dbg'), Shown'
    PROVE  RInv'
<1>1. phase = "up" /\ session \in {"local", "connect", "none"} /\ UNCHANGED <<phase, file, tmp>>
  BY DEF Acts, Up, Responsive, disk
<1> QED
  BY <1>1 DEF RInv, Off, Ready, Settled, Changing, ConnectKeepsBreakpoints, FileOK

LEMMA StepEdit ==
    ASSUME RInv, NEW l \in Loc, Toggle(l) \/ ToggleEnable(l) \/ Condition(l)
    PROVE  RInv'
<1>1. /\ Acts /\ UNCHANGED <<session, fetched, bound, raced>> /\ wanted' = {}
      /\ dirty' \/ behind'
  BY DEF Toggle, ToggleEnable, Condition, Edited, Announce, terminal, dlvSide
<1>2. RowsOK(dbg')
  <2>1. \/ dbg' = dbg \/ dbg' = Without(dbg, l)
        \/ dbg' = Taken(dbg, {l} \cap bound)
        \/ dbg' = [dbg EXCEPT ![l].cond = TRUE]
    BY DEF Toggle, ToggleEnable, Condition
  <2>2. RowsOK(dbg)
    BY DEF RInv
  <2>3. /\ RowsOK(Without(dbg, l)) /\ RowsOK(Taken(dbg, {l} \cap bound))
        /\ RowsOK([dbg EXCEPT ![l].cond = TRUE])
    BY <2>2, RowsKept
  <2> QED
    BY <2>1, <2>2, <2>3
<1>3. Shown'
  <2>1. (\E ls : list' = ls /\ snapshot' = Whole(ls)) \/ UNCHANGED <<list, snapshot>>
    BY DEF Toggle, ToggleEnable, Condition, Edited
  <2> QED
    BY <2>1 DEF Shown, Whole, RInv
<1> QED
  BY <1>1, <1>2, <1>3, RInvEdited

LEMMA StepFetch == ASSUME RInv, Fetch PROVE RInv'
<1>1. /\ phase = "up" /\ dirty /\ ~fetched.busy /\ ~dirty'
      /\ UNCHANGED <<phase, session, bound, dbg, list, snapshot, file, tmp, wanted, raced>>
      /\ fetched' = [busy |-> TRUE, rows |-> dbg] \/ (behind' /\ fetched' = fetched)
  BY DEF Fetch, terminal, dlvSide, disk
<1>2. (fetched'.busy /\ fetched'.rows = dbg') \/ (behind' /\ ~fetched'.busy)
  <2>1. CASE fetched' = [busy |-> TRUE, rows |-> dbg]
    BY <1>1, <2>1
  <2>2. CASE behind' /\ fetched' = fetched
    BY <1>1, <2>2
  <2> QED
    BY <1>1, <2>1, <2>2
<1> QED
  BY <1>1, <1>2 DEF RInv, Off, Shown, Ready, Settled, Changing, ConnectKeepsBreakpoints, FileOK

LEMMA StepMerge == ASSUME RInv, MergeFetched PROVE RInv'
<1>1. /\ phase = "up" /\ fetched.busy /\ ~fetched'.busy
      /\ list' = Merge(list, fetched.rows) /\ snapshot' = Whole(list')
      /\ behind' = (behind /\ fetched.rows # dbg)
      /\ UNCHANGED <<phase, session, bound, dbg, dirty, file, tmp, wanted, raced>>
  BY DEF MergeFetched, terminal, dlvSide, disk, NotFetching
<1>2. snapshot'.rows = list'
  BY <1>1 DEF Whole
<1>3. Settled' => Agree(Final', dbg')
  <2> SUFFICES ASSUME Settled' PROVE Agree(Final', dbg')
    OBVIOUS
  <2>1. fetched.rows = dbg
    BY <1>1 DEF Settled, RInv, Ready
  <2>2. Final' = Merge(list, dbg)
    BY <1>1, <1>2, <2>1 DEF Final
  <2> QED
    BY <1>1, <2>2, Merged DEF RInv
<1>4. Ready'
  BY <1>1, <1>3 DEF Ready
<1> QED
  BY <1>1, <1>2, <1>4 DEF RInv, Off, Shown, Changing, ConnectKeepsBreakpoints, FileOK

LEMMA StepTheProgram == ASSUME RInv, Run \/ Stop \/ Exit PROVE RInv'
<1>1. /\ phase = "up" /\ session \in {"local", "connect", "none"}
      /\ UNCHANGED <<phase, session, bound, dbg, snapshot, fetched, wanted, raced, behind, file, tmp>>
  BY DEF Run, Stop, Exit, Acts, Up, Responsive, Program, terminal, dlvSide, disk
<1>2. /\ list' = list \/ (list' = None /\ dirty' = dirty)
      /\ dirty' \/ dirty' = dirty
  BY DEF Run, Stop, Exit
<1>3. Shown' /\ (dirty' = dirty => Final' = Final)
  BY <1>1, <1>2 DEF RInv, Shown, Final
<1>4. Ready'
  BY <1>1, <1>2, <1>3 DEF RInv, Ready, Settled
<1> QED
  BY <1>1, <1>3, <1>4 DEF RInv, Off, Changing, ConnectKeepsBreakpoints, FileOK

LEMMA RInvClose == ASSUME RInv, Up, Close PROVE RInv'
<1>1. /\ phase = "up" /\ UNCHANGED <<session, bound, dbg, list, snapshot, dirty, fetched>>
      /\ UNCHANGED <<behind, wanted, raced, file>>
  BY DEF Up, Close, dlvSide, rows, aux
<1>2. \/ snapshot.whole /\ tmp' = Torn(Final) /\ phase' = "saving"
      \/ phase' = "ended" /\ tmp' = tmp
  BY DEF Close, saveOnQuit, Final
<1>3. tmp' = Torn(Final) => tmp'.rows = Final
  BY DEF Torn
<1>4. Ready'
  BY <1>1, <1>2, <1>3 DEF RInv, Ready, Settled
<1> QED
  BY <1>1, <1>2, <1>4 DEF RInv, Off, Shown, Changing, ConnectKeepsBreakpoints, FileOK

LEMMA StepQuit == ASSUME RInv, Quit \/ CtrlD PROVE RInv'
<1>1. CASE UNCHANGED <<terminal, phase, rows, disk, aux>>
  BY <1>1, RInvSame DEF terminal, dlvSide, aux
<1> QED
  BY <1>1, RInvClose DEF Quit, CtrlD

LEMMA StepSave == ASSUME RInv, Write \/ Rename \/ End \/ Crash PROVE RInv'
<1>1. CASE Write
  <2>1. /\ phase = "saving" /\ phase' = "saved" /\ tmp' = Whole(tmp.rows) /\ file' = file
        /\ UNCHANGED <<session, bound, dbg, list, snapshot, dirty, fetched, behind, wanted, raced>>
    BY <1>1 DEF Write, terminal, dlvSide, rows, aux
  <2>2. tmp'.whole /\ tmp'.rows = tmp.rows
    BY <2>1 DEF Whole
  <2> QED
    BY <2>1, <2>2 DEF RInv, Off, Shown, Ready, Settled, Changing, ConnectKeepsBreakpoints, FileOK
<1>2. CASE Rename \/ End \/ Crash
  <2>1. Gone
    BY <1>2 DEF Rename, End, Crash
  <2>2. /\ phase' = "off" /\ session' = "local" /\ wanted' = {} /\ fetched' = NotFetching
        /\ dbg' = None /\ list' = None
    BY <2>1 DEF Gone, TerminalEnds
  <2>3. file'.whole
    BY <1>2 DEF Rename, End, Crash, disk, RInv, FileOK
  <2>4. RowsOK(dbg') /\ ~fetched'.busy
    BY <2>2 DEF RowsOK, None, NotFetching
  <2> QED
    BY <2>2, <2>3, <2>4 DEF RInv, Off, Shown, Ready, Changing, ConnectKeepsBreakpoints, FileOK
<1> QED
  BY <1>1, <1>2

LEMMA StepTerminal ==
    ASSUME RInv, Helpers \/ Opens \/ SetsTTY \/ PortIsSilent
    PROVE  RInv'
<1>1. Steady /\ UNCHANGED <<phase, disk>>
  BY DEF Helpers, Opens, SetsTTY, PortIsSilent, Acts
<1>2. UNCHANGED session
  <2>1. CASE Helpers
    <3>1. PICK w \in Windows : LetGo(w) \/ WritePid(w) \/ WritePath(w) \/ HelperFails(w)
      BY <2>1 DEF Helpers
    <3> QED
      BY <3>1 DEF LetGo, WritePid, WritePath, HelperFails, Helping, dlvSide
  <2>2. CASE Opens
    BY <2>2 DEF Opens, PollPath, PollPid, Deadline, OnGdb, dlvSide
  <2>3. CASE SetsTTY
    BY <2>3 DEF SetsTTY, OpenExternalTTY, SetInternal, SetPath, startDlvExternal,
                wireSerialConsole, restoreInferiorIO, UserClosesWindow, OnGdb, OnDlv, dlvSide
  <2>4. CASE PortIsSilent
    BY <2>4 DEF PortIsSilent, NotListening
  <2> QED
    BY <2>1, <2>2, <2>3, <2>4
<1> QED
  BY <1>1, <1>2, RInvSame DEF Steady

(* A session is torn down: the list is what the next one is to have. *)
LEMMA RInvTornDown ==
    ASSUME RInv, phase = "up", TornDown, session' \in {"connecting", "restarting"},
           UNCHANGED <<phase, disk>>
    PROVE  RInv'
<1>1. /\ dbg' = None /\ wanted' = DOMAIN list /\ raced' = (dirty \/ fetched.busy) /\ behind'
      /\ UNCHANGED <<list, snapshot, dirty, fetched, file, tmp>>
  BY DEF TornDown, disk
<1>2. RowsOK(dbg')
  BY <1>1 DEF RowsOK, None
<1>3. Changing'
  BY <1>1 DEF Changing
<1> QED
  BY <1>1, <1>2, <1>3 DEF RInv, Off, Shown, Ready, Settled, ConnectKeepsBreakpoints, FileOK

LEMMA StepSession == ASSUME RInv, Connects \/ Restarts \/ Attaches \/ Reapplies PROVE RInv'
<1>1. CASE Connects
  BY <1>1, RInvTornDown DEF Connects, ConnectDlv, tearDownDlvSession, Up
<1>2. CASE Restarts
  <2>1. /\ phase = "up" /\ UNCHANGED <<phase, disk>> /\ session \in {"local", "connect", "none"}
    BY <1>2 DEF Restarts, Acts, Up, Responsive
  <2>2. CASE session = "connect"
    <3>1. session' = "restarting"
      BY <1>2, <2>2 DEF Restarts, setDlvInferiorTTY, tearDownDlvSession
    <3> QED
      BY <1>2, <2>1, <2>2, <3>1, RInvTornDown DEF Restarts
  <2>3. CASE session # "connect"
    <3>1. UNCHANGED session
      BY <1>2, <2>1, <2>3 DEF Restarts, setDlvInferiorTTY
    <3>2. Steady
      BY <1>2, <2>3 DEF Restarts
    <3> QED
      BY <2>1, <3>1, <3>2, RInvSame DEF Steady
  <2> QED
    BY <2>2, <2>3
<1>3. CASE Attaches
  <2>1. /\ phase = "up" /\ UNCHANGED <<phase, file, tmp, behind, wanted, raced>>
        /\ UNCHANGED <<bound, dbg, list, snapshot, dirty, fetched>>
        /\ session \in {"connecting", "restarting"} /\ session' \in {"attached", "local", "none"}
    BY <1>3 DEF Attaches, Attach, Steady, rows, disk
  <2>2. Ready'
    BY <2>1 DEF RInv, Ready, Settled, Final
  <2> QED
    BY <2>1, <2>2 DEF RInv, Off, Shown, Changing, ConnectKeepsBreakpoints, FileOK
<1>4. CASE Reapplies
  <2>1. /\ phase = "up" /\ session = "attached" /\ session' = "connect" /\ dirty'
        /\ dbg' = Taken(dbg, ({Main} \cup DOMAIN list) \cap bound)
        /\ UNCHANGED <<phase, bound, list, snapshot, fetched, file, tmp, behind, wanted, raced>>
    BY <1>4 DEF Reapplies, reapplyAfterDlvConnect, disk, aux
  <2>2. RowsOK(dbg') /\ DOMAIN dbg' = DOMAIN dbg \cup (({Main} \cup DOMAIN list) \cap bound)
    BY <2>1, RowsKept DEF RInv
  <2>3. ConnectKeepsBreakpoints'
    BY <2>1, <2>2 DEF RInv, Changing, ConnectKeepsBreakpoints
  <2> QED
    BY <2>1, <2>2, <2>3 DEF RInv, Off, Shown, Ready, Settled, Changing, FileOK
<1> QED
  BY <1>1, <1>2, <1>3, <1>4

LEMMA RInvNext == ASSUME RInv, [Next]_vars PROVE RInv'
<1>1. CASE UNCHANGED vars
  BY <1>1, RInvSame DEF vars, terminal, dlvSide, aux
<1> QED
  BY <1>1, StepStart, StepFetch, StepMerge, StepTheProgram, StepEdit, StepQuit, StepSave,
     StepTerminal, StepSession DEF Next

LEMMA RInvAlways == Spec => []RInv
BY InitRInv, RInvNext, PTL DEF Spec

(* A quit that finds nothing pending writes what the debugger has. *)
THEOREM QuitSavesDebugger == Spec => []FileFollowsDebugger
<1>1. RInv => FileFollowsDebugger
  BY DEF RInv, Ready, Settled, Agree, FileFollowsDebugger
<1> QED
  BY <1>1, RInvAlways, PTL

(* A change of the Delve server keeps the breakpoints of the list. *)
THEOREM ConnectReapplies == Spec => []ConnectKeepsBreakpoints
<1>1. RInv => ConnectKeepsBreakpoints
  BY DEF RInv
<1> QED
  BY <1>1, RInvAlways, PTL

(* The file is never half written, whenever gdbforge dies. *)
THEOREM FileIsNeverTorn == Spec => []FileIsWhole
<1>1. RInv => FileIsWhole
  BY DEF RInv, FileOK, FileIsWhole
<1> QED
  BY <1>1, RInvAlways, PTL

(* A start gives the debugger every saved breakpoint it takes, as it was. *)
THEOREM StartRestoresSaved == Spec => SavedIsRestored
<1>1. ASSUME Next, phase = "off", phase' = "up" PROVE Start
  BY <1>1 DEF Next, Fetch, MergeFetched, Run, Stop, Exit, Toggle, ToggleEnable, Condition, Quit,
              CtrlD, Write, Rename, End, Crash, Helpers, Opens, SetsTTY, PortIsSilent, Connects,
              Restarts, Attaches, Reapplies, Acts, Up, Gone
<1>2. ASSUME Start, file.whole, ~behind', NEW l \in DOMAIN file.rows \cap bound'
      PROVE  l \in DOMAIN dbg' /\ (dbg'[l].en => file.rows[l].en)
             /\ (file.rows[l].cond => dbg'[l].cond)
  <2> DEFINE saved == IF file.whole THEN file.rows ELSE None
  <2>1. saved = file.rows /\ DOMAIN saved # {}
    BY <1>2
  <2>2. PICK script \in SUBSET bound', answered \in BOOLEAN :
           /\ dbg' = Restored(saved, Taken(None, script), bound', answered).dbg
           /\ behind' = ~answered
    BY <1>2, <2>1 DEF Start
  <2>3. RowsOK(Taken(None, script))
    <3>1. RowsOK(None)
      BY DEF RowsOK, None
    <3> QED
      BY <3>1, RowsKept
  <2> HIDE DEF saved
  <2>4. answered
    BY <1>2, <2>2
  <2> QED
    BY <1>2, <2>1, <2>2, <2>3, <2>4, RestoredRows
<1>3. [Next]_vars =>
        [phase = "off" /\ phase' = "up" /\ file.whole /\ ~behind' =>
           \A l \in DOMAIN file.rows \cap bound' :
              /\ l \in DOMAIN dbg'
              /\ dbg'[l].en => file.rows[l].en
              /\ file.rows[l].cond => dbg'[l].cond]_vars
  BY <1>1, <1>2
<1> QED
  BY <1>3, PTL DEF Spec, SavedIsRestored
=============================================================================
