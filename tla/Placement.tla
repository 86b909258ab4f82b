----------------------------- MODULE Placement -----------------------------
(* Which pane shows what: the workspace policy above the split tree.        *)
(*                                                                         *)
(* internal/app/workspace_*.go (LayoutShell), assembly.go (where Assembly   *)
(* goes), buffers.go (:b, :edit, the source buffers) and presentLocation in *)
(* stopped.go all decide which widget a leaf of the active tab shows, and   *)
(* remember leaves under the four marks code, gdb, asm and last.  A stop, a *)
(* late disassembly, a command and an exit each move them.                  *)
(*                                                                         *)
(* The tree is the sequence of the widgets its leaves show, in tree order;  *)
(* a leaf is its position.  Geometry, drawing and keys are left out.        *)
EXTENDS Naturals, Sequences, SequencesExt

CONSTANTS
    Readable,       \* source files that can be read
    Missing,        \* source files (or functions) without readable source
    Others,         \* panes that are neither Code, GDB nor Assembly, "output"
                    \* and "logger" among them
    TextPanes,      \* those of them that take typed input (IO, exec)
    AsmSupported,   \* SupportsAssembly(): GDB yes, Delve no
    MaxPanes,       \* bound: :split and :vs stop at this many leaves
    MaxCommands,    \* bound: commands that open, close or lay out panes
    JumpMax         \* widgetJumpMax

(* Different panes have different names.                                    *)
ASSUME PlacementAssumption ==
    /\ Readable \cap Missing = {}
    /\ TextPanes \subseteq Others /\ {"output", "logger"} \subseteq Others
    /\ Others \cap (Readable \cup Missing) = {}
    /\ {"noname", "logo", "asm", "gdb", "none"} \cap (Others \cup Readable \cup Missing) = {}
    /\ AsmSupported \in BOOLEAN
    /\ JumpMax \in Nat \ {0} /\ MaxPanes \in Nat \ (0..2) /\ MaxCommands \in Nat

Files == Readable \cup Missing
Nil == 0                            \* no leaf
None == "none"                      \* no buffer

CodeWidgets == Files \cup {"noname"}
SourceSlots == CodeWidgets \cup {"logo"}
CodeSlots == SourceSlots \cup {"asm"}
Widgets == CodeSlots \cup {"gdb"} \cup Others

VARIABLES
    lay,        \* the active tab: panes, the focused leaf, the four marks
    jumps,      \* widgetJump, oldest first
    prefer,     \* preferAsm: the user asked for Assembly in the code leaf
    auto,       \* autoAsm: Assembly stands in for a frame without source
    bufs,       \* what each source buffer holds
    primary,    \* bufferCtl.primary
    current,    \* Debug().CurrentFile()
    lastText,   \* lastTextPane, None for the GDB console as for no pane
    commands    \* how many of those commands were given

buffers == <<bufs, primary, current>>
placementVars == <<lay, jumps, prefer, auto, buffers, lastText, commands>>

-----------------------------------------------------------------------------
(* The tree.  A leaf that leaves the tree takes its marks with it.          *)

Leaves(t) == DOMAIN t.panes
Focused(t) == t.panes[t.focus]
FindLeaf(t, ws) ==
    LET found == {leaf \in Leaves(t) : t.panes[leaf] \in ws}
    IN  IF found = {} THEN Nil ELSE Min(found)
Shows(t, leaf, ws) == leaf # Nil /\ t.panes[leaf] \in ws
Put(t, leaf, w) == [t EXCEPT !.panes[leaf] = w]
FocusLeaf(t, leaf) == IF leaf = Nil THEN t ELSE [t EXCEPT !.focus = leaf]

(* ReplaceMatchingLeafWidget: the first matching leaf, and a new code mark.  *)
ReplaceMatching(t, w, ws) ==
    LET leaf == FindLeaf(t, ws)
        s == IF leaf = Nil THEN t ELSE Put(t, leaf, w)
    IN  IF leaf = Nil THEN t ELSE [s EXCEPT !.code = FindLeaf(s, ws)]

(* Split keeps the focus; the new leaf comes right after the focused one.    *)
Split(t, w) ==
    LET moved(leaf) == IF leaf > t.focus THEN leaf + 1 ELSE leaf
    IN  [panes |-> InsertAt(t.panes, t.focus + 1, w), focus |-> t.focus,
         code |-> moved(t.code), gdb |-> moved(t.gdb),
         asm |-> moved(t.asm), last |-> moved(t.last)]

(* DeleteFocus: some other leaf, the tree's choice, gets the focus.          *)
Delete(t, next) ==
    LET moved(leaf) == CASE leaf = t.focus -> Nil
                         [] leaf > t.focus -> leaf - 1
                         [] OTHER          -> leaf
    IN  [panes |-> RemoveAt(t.panes, t.focus), focus |-> moved(next),
         code |-> moved(t.code), gdb |-> moved(t.gdb),
         asm |-> moved(t.asm), last |-> moved(t.last)]

OnlyLeaf(t) ==
    LET kept(leaf) == IF leaf = t.focus THEN 1 ELSE Nil
    IN  [panes |-> <<Focused(t)>>, focus |-> 1,
         code |-> kept(t.code), gdb |-> kept(t.gdb),
         asm |-> kept(t.asm), last |-> kept(t.last)]

-----------------------------------------------------------------------------
(* Marks and the leaves they stand for.                                     *)

IsGdbLeaf(t, leaf) == leaf # Nil /\ (t.gdb = leaf \/ Shows(t, leaf, {"gdb"}))

(* A dedicated Assembly leaf, apart from the code leaf.                      *)
HasSplit(t) == Shows(t, t.asm, {"asm"}) /\ t.code \notin {Nil, t.asm}

(* The result is the tree with its code mark on the leaf found, Nil if none. *)
FindCodeLeaf(t) ==
    LET source == FindLeaf(t, SourceSlots)
    IN  CASE Shows(t, t.code, SourceSlots) -> t
          [] Shows(t, t.code, {"asm"}) ->
               [t EXCEPT !.asm = IF @ = t.code THEN Nil ELSE @]
          [] OTHER ->
               IF source # Nil THEN [t EXCEPT !.code = source]
               ELSE IF Shows(t, t.asm, {"asm"})
                    THEN [t EXCEPT !.code = t.asm, !.asm = Nil]
                    ELSE [t EXCEPT !.code = Nil]

RememberFocus(t) ==
    LET w == Focused(t)
    IN  CASE w = "asm" ->
               IF t.code \notin {Nil, t.focus} THEN [t EXCEPT !.asm = t.focus]
               ELSE [t EXCEPT !.code = t.focus, !.asm = Nil, !.last = Nil]
          [] w \in SourceSlots -> [t EXCEPT !.code = t.focus, !.last = Nil]
          [] w = "gdb" -> [t EXCEPT !.gdb = t.focus]
          [] w \in TextPanes -> t
          [] OTHER -> [t EXCEPT !.last = t.focus]

PutFocused(t, w) == RememberFocus(Put(t, t.focus, w))

-----------------------------------------------------------------------------
(* Code and Assembly in the location leaf.                                   *)

(* Code goes where the location leaf is found, unless Assembly owns it.      *)
(* p is preferAsm and a is autoAsm at the call.                              *)
CodeIntoFound(t, w, p) ==
    LET s == FindCodeLeaf(t)
        leaf == s.code
    IN  IF leaf # Nil /\ ~IsGdbLeaf(s, leaf)
        THEN IF Shows(s, leaf, {"asm"}) /\ p THEN s
             ELSE [Put(s, leaf, w) EXCEPT !.asm = IF @ = leaf THEN Nil ELSE @]
        ELSE ReplaceMatching(s, w, SourceSlots)

(* With a dedicated Assembly leaf in focus, only the code leaf may change.   *)
CodeBesideAsm(t, w, p) ==
    LET s == FindCodeLeaf(t)
        leaf == s.code
        mayPut == /\ leaf # Nil /\ ~IsGdbLeaf(s, leaf)
                  /\ IF t.focus = t.asm
                     THEN leaf # t.asm /\ ~(Shows(s, leaf, {"asm"}) /\ p)
                     ELSE ~Shows(s, leaf, {"asm"})
    IN  IF mayPut THEN Put(s, leaf, w) ELSE s

(* Mutant: any focused pane but the GDB slot takes the source.               *)
PlaceCode_AnyFocus(t, w, p) ==
    IF p /\ ~HasSplit(t) THEN t
    ELSE IF HasSplit(t) /\ Focused(t) = "asm" THEN CodeBesideAsm(t, w, p)
    ELSE IF ~IsGdbLeaf(t, t.focus) THEN PutFocused(t, w)
    ELSE CodeIntoFound(t, w, p)

(* Mutant: a focused Assembly leaf is replaced even if it is dedicated.      *)
PlaceCode_OverSplit(t, w, p) ==
    IF p /\ ~HasSplit(t) THEN t
    ELSE IF ~IsGdbLeaf(t, t.focus) /\ Focused(t) \in CodeSlots THEN PutFocused(t, w)
    ELSE CodeIntoFound(t, w, p)

PlaceCode(t, w, p) ==
    LET split == HasSplit(t)
        ownLeaf == ~IsGdbLeaf(t, t.focus) /\ Focused(t) \in CodeSlots
    IN  IF p /\ ~split THEN t
        ELSE IF split /\ (t.focus = t.asm \/ Focused(t) = "asm")
             THEN CodeBesideAsm(t, w, p)
        ELSE IF ownLeaf THEN PutFocused(t, w)
        ELSE CodeIntoFound(t, w, p)

PlaceAsm(t, p, a) ==
    LET dedicated == t.asm # Nil /\ ~IsGdbLeaf(t, t.asm)
        healed == [t EXCEPT !.asm = IF dedicated THEN Nil ELSE @]
        s == FindCodeLeaf(healed)
    IN  IF dedicated /\ t.code # t.asm THEN Put(t, t.asm, "asm")
        ELSE IF ~(p \/ a) THEN healed
        ELSE IF ~IsGdbLeaf(healed, healed.focus) /\ Focused(healed) \in CodeSlots
             THEN PutFocused(healed, "asm")
        ELSE IF s.code # Nil /\ ~IsGdbLeaf(s, s.code) THEN Put(s, s.code, "asm")
        ELSE ReplaceMatching(s, "asm", CodeSlots)

PlaceLogo(t) ==
    IF Focused(t) \in CodeWidgets /\ ~IsGdbLeaf(t, t.focus)
    THEN LET s == Put(t, t.focus, "logo")
         IN  [s EXCEPT !.code = FindLeaf(s, CodeSlots)]
    ELSE ReplaceMatching(t, "logo", CodeSlots)

-----------------------------------------------------------------------------
(* Buffers.  The Go map's order decides among several files.                 *)

Opened(bs) == {f \in Files : bs[f] \in {"source", "empty"}}
OneOf(fs) == IF fs = {} THEN {None} ELSE fs

CodeForB == IF primary \in Opened(bufs) THEN {primary} ELSE OneOf(Opened(bufs))

(* activeCodeWidget for tree t, buffers bs, the primary buffer and current.  *)
ActiveCode(t, bs, prim, cur) ==
    CASE Focused(t) \in CodeWidgets -> {Focused(t)}
      [] Focused(t) \notin CodeWidgets /\ cur # None -> {cur}
      [] OTHER -> IF prim # None THEN {prim}
                  ELSE OneOf({f \in Files : bs[f] # "none"})

Loaded(f) == IF f \in Readable THEN "source" ELSE "banner"

(* FocusCode: cw is what activeCodeWidget answers.                           *)
FocusCode(t, cw, p) ==
    LET s == FindCodeLeaf(t)
        leaf == IF s.code = Nil THEN 1 ELSE s.code
        r == IF p /\ ~HasSplit(s) THEN Put(s, leaf, "asm")
             ELSE IF cw # None THEN Put(s, leaf, cw) ELSE s
    IN  [r EXCEPT !.focus = leaf, !.code = leaf]

(* activateGdbPane: the leaf that shows GDB, or one that is made to.         *)
ActivateGdb(t) ==
    LET found == IF Shows(t, t.gdb, {"gdb"}) THEN t.gdb ELSE FindLeaf(t, {"gdb"})
        spare == {leaf \in Leaves(t) : leaf # t.code}
        first == IF spare = {} THEN 1
                 ELSE CHOOSE leaf \in spare : \A other \in spare : leaf <= other
        leaf == IF found # Nil THEN found ELSE first
    IN  [Put(t, leaf, "gdb") EXCEPT !.focus = leaf, !.gdb = leaf]

-----------------------------------------------------------------------------
Command == commands < MaxCommands /\ commands' = commands + 1

(* The user moves the focus.                                                 *)

NoteText(t) == lastText' = CASE Focused(t) \in TextPanes -> Focused(t)
                             [] Focused(t) = "gdb"         -> None
                             [] OTHER                      -> lastText

(* Ctrl-W h/j/k/l, or a click, which also notes a pane that takes text.      *)
FocusPane(leaf, mouse) ==
    /\ leaf \in Leaves(lay)
    /\ lay' = RememberFocus(FocusLeaf(lay, leaf))
    /\ IF mouse THEN NoteText(lay') ELSE UNCHANGED lastText
    /\ UNCHANGED <<jumps, prefer, auto, buffers, commands>>

Escape ==
    /\ IF lay.last # Nil /\ ~Shows(lay, lay.last, CodeSlots \cup {"gdb"})
       THEN lay' = FocusLeaf(lay, lay.last)
       ELSE \E cw \in ActiveCode(lay, bufs, primary, current) :
                lay' = FocusCode(lay, cw, prefer)
    /\ UNCHANGED <<jumps, prefer, auto, buffers, lastText, commands>>

InsertKey ==
    LET back == FindLeaf(lay, {lastText})
    IN  /\ IF Focused(lay) \in TextPanes \cup {"gdb"} THEN lay' = lay
           ELSE IF lastText \in TextPanes /\ back # Nil
                THEN lay' = FocusLeaf(RememberFocus(lay), back)
                ELSE lay' = ActivateGdb(RememberFocus(lay))
        /\ NoteText(lay)
        /\ UNCHANGED <<jumps, prefer, auto, buffers, commands>>

BufferGdb ==
    /\ lay' = ActivateGdb(lay)
    /\ UNCHANGED <<jumps, prefer, auto, buffers, lastText, commands>>

-----------------------------------------------------------------------------
(* Commands that change what the focused pane shows.                         *)

Pushed(w) ==
    LET longer == Append(jumps, w)
    IN  IF jumps # <<>> /\ jumps[Len(jumps)] = w THEN jumps
        ELSE IF Len(longer) > JumpMax THEN Tail(longer) ELSE longer

(* Mutant: the GDB slot is a pane like any other.                            *)
MaySwap_Anywhere(w) == Focused(lay) # w

MaySwap(w) == /\ w # "gdb" => ~IsGdbLeaf(lay, lay.focus)
              /\ Focused(lay) # w

Swapped(w) == PutFocused(lay, w)

(* :b name, :help, :edit, :!cmd for a builtin; :b name for an open file.     *)
BufferName(w) ==
    /\ Command
    /\ w \in Others \/ (w \in Files /\ bufs[w] # "none")
    /\ MaySwap(w)
    /\ lay' = Swapped(w)
    /\ jumps' = Pushed(Focused(lay))
    /\ UNCHANGED <<prefer, auto, buffers, lastText>>

(* :edit file and a row of the file list.                                    *)
EditFile(f) ==
    /\ Command
    /\ bufs' = [bufs EXCEPT ![f] = Loaded(f)]
    /\ primary' = f
    /\ IF MaySwap(f)
       THEN /\ lay' = [Swapped(f) EXCEPT !.code = FindLeaf(Swapped(f), {f})]
            /\ jumps' = Pushed(Focused(lay))
       ELSE UNCHANGED <<lay, jumps>>
    /\ UNCHANGED <<prefer, auto, current, lastText>>

(* Ctrl-O, and the dismissal of an ended :! pane.  The marks stay.           *)
JumpBack ==
    /\ Command
    /\ jumps # <<>>
    /\ LET w == jumps[Len(jumps)]
       IN  /\ w # "gdb" => ~IsGdbLeaf(lay, lay.focus)
           /\ lay' = Put(lay, lay.focus, w)
    /\ jumps' = SubSeq(jumps, 1, Len(jumps) - 1)
    /\ UNCHANGED <<prefer, auto, buffers, lastText>>

(* :b code, and open_buffer("code") of a script, which leaves preferAsm.     *)
BufferCode(fromLua) ==
    LET p == fromLua /\ prefer
    IN  /\ prefer' = p
        /\ auto' = (fromLua /\ auto)
        /\ \E cw \in CodeForB :
             LET placed == IF cw = None THEN lay ELSE PlaceCode(lay, cw, p)
                 prim == IF cw = None THEN primary ELSE cw
             IN  /\ primary' = prim
                 /\ IF cw = None /\ ~fromLua THEN UNCHANGED lay
                    ELSE \E active \in ActiveCode(placed, bufs, prim, current) :
                            lay' = FocusCode(placed, active, p)
        /\ UNCHANGED <<jumps, bufs, current, lastText, commands>>

(* :b asm.                                                                   *)
BufferAsm ==
    /\ AsmSupported
    /\ IF HasSplit(lay)
       THEN /\ lay' = FocusLeaf(lay, lay.asm)
            /\ UNCHANGED <<prefer, auto>>
       ELSE LET placed == PlaceAsm(lay, TRUE, FALSE)
            IN  /\ prefer' = TRUE
                /\ auto' = FALSE
                /\ \E cw \in ActiveCode(placed, bufs, primary, current) :
                       lay' = FocusCode(placed, cw, TRUE)
    /\ UNCHANGED <<jumps, buffers, lastText, commands>>

-----------------------------------------------------------------------------
(* Panes come and go.                                                        *)

(* prepareCodeForSplit and the split itself, for tree t; cw is the source    *)
(* buffer put back and active what FocusCode shows.                          *)
Prepared(t, cw) ==
    LET s == FindCodeLeaf(t)
    IN  IF Shows(s, s.code, {"asm"})
        THEN Put(s, s.code, IF cw = None THEN "logo" ELSE cw)
        ELSE s

AsmSplitOf(t) ==
    LET s == Split(t, "asm")
    IN  IF IsGdbLeaf(t, t.focus) THEN t
        ELSE [s EXCEPT !.code = s.focus, !.asm = FindLeaf(s, {"asm"})]

(* :vs asm, :sp asm.                                                         *)
SplitAsm ==
    /\ AsmSupported
    /\ IF HasSplit(lay)
       THEN /\ lay' = FocusLeaf(lay, lay.asm)
            /\ UNCHANGED <<prefer, auto, commands>>
       ELSE /\ Command
            /\ Len(lay.panes) < MaxPanes
            /\ prefer' = FALSE
            /\ auto' = FALSE
            /\ \E cw \in IF CodeForB = {None} THEN {primary} ELSE CodeForB :
                 LET s == Prepared(lay, cw)
                 IN  \E active \in ActiveCode(s, bufs, primary, current) :
                         lay' = AsmSplitOf(FocusCode(s, active, FALSE))
    /\ UNCHANGED <<jumps, buffers, lastText>>

(* :vs opens an empty Code pane, :split a log pane (a logger of its own,     *)
(* taken for the builtin one).                                               *)
SplitPane(w) ==
    /\ Command
    /\ w \in {"noname", "logger"}
    /\ Len(lay.panes) < MaxPanes
    /\ lay' = Split(lay, w)
    /\ UNCHANGED <<jumps, prefer, auto, buffers, lastText>>

ClosePane(next) ==
    /\ Command
    /\ next \in Leaves(lay) \ {lay.focus}
    /\ lay' = Delete(lay, next)
    /\ UNCHANGED <<jumps, prefer, auto, buffers, lastText>>

OnlyFocus ==
    /\ Command
    /\ Len(lay.panes) > 1
    /\ lay' = RememberFocus(OnlyLeaf(lay))
    /\ UNCHANGED <<jumps, prefer, auto, buffers, lastText>>

LayoutCode == CASE current # None -> current
                [] current = None /\ primary # None -> primary
                [] OTHER -> "logo"

(* The named layouts' leaves in tree order.  The Threads, Call Stack and     *)
(* Breakpoints panes, which the policy treats as it does the logger, are     *)
(* left out.  "panels" orders its leaves as "default" does.                  *)
Layout(name, code) ==
    CASE name = "classic" -> <<code, "gdb">>
      [] name = "default" -> <<code, "gdb", "output">>
      [] name = "wide"    -> <<code, "output", "gdb">>

Fresh(panes) ==
    LET code == SelectInSeq(panes, LAMBDA w : w \in CodeSlots)
        gdb == SelectInSeq(panes, LAMBDA w : w = "gdb")
    IN  [panes |-> panes, focus |-> gdb, code |-> code, gdb |-> gdb,
         asm |-> Nil, last |-> Nil]

ApplyLayout(name) ==
    /\ Command
    /\ lay' = Fresh(Layout(name, LayoutCode))
    /\ UNCHANGED <<jumps, prefer, auto, buffers, lastText>>

-----------------------------------------------------------------------------
(* What the debugger shows: a stop, a selected frame, a breakpoint's row.    *)

(* showCodeAt, showCodeBrowse and showCodeUnavailable update the buffer of   *)
(* f; presentLocation then chooses what the location leaf shows.  named says *)
(* whether the frame has a file, and f is None for a frame with neither file *)
(* nor function.  focus says whether FocusCode follows (Enter on a row).     *)
Presented(f) ==
    LET readable == f \in Readable
    IN  CASE HasSplit(lay) -> IF readable THEN PlaceCode(lay, f, prefer) ELSE lay
          [] ~HasSplit(lay) /\ prefer -> PlaceAsm(lay, TRUE, FALSE)
          [] OTHER -> IF ~readable /\ AsmSupported THEN PlaceAsm(lay, FALSE, TRUE)
                      ELSE IF f # None THEN PlaceCode(lay, f, FALSE) ELSE lay

Present(f, named, focus) ==
    /\ f \in Readable => named
    /\ f = None => ~named
    /\ bufs' = [b \in Files |-> IF b = f THEN Loaded(f) ELSE bufs[b]]
    /\ primary' = IF f = None THEN primary ELSE f
    /\ current' = IF named THEN f ELSE current
    /\ IF HasSplit(lay) THEN UNCHANGED auto
       ELSE auto' = (~prefer /\ f \notin Readable /\ AsmSupported)
    /\ IF focus
       THEN \E cw \in ActiveCode(Presented(f), bufs', primary', current') :
               lay' = FocusCode(Presented(f), cw, prefer)
       ELSE lay' = Presented(f)
    /\ UNCHANGED <<jumps, prefer, lastText, commands>>

(* A breakpoint on an address, without a file.                               *)
ActivateAddress ==
    /\ AsmSupported
    /\ auto' = (auto \/ (~HasSplit(lay) /\ ~prefer))
    /\ LET placed == PlaceAsm(lay, prefer, auto')
       IN  lay' = IF HasSplit(placed) THEN FocusLeaf(placed, placed.asm) ELSE placed
    /\ UNCHANGED <<jumps, prefer, buffers, lastText, commands>>

(* applyRefresh re-asserts Assembly's place whenever an answer arrives: late *)
(* ones, and those of the refetches a resize or a scroll starts.  It finds   *)
(* nothing to do before the first disassembly.                               *)
RefreshAsm ==
    /\ lay' = PlaceAsm(lay, prefer, auto)
    /\ UNCHANGED <<jumps, prefer, auto, buffers, lastText, commands>>

(* clearCodePane, when the program exits.                                    *)
Exit ==
    /\ bufs' = [f \in Files |-> IF bufs[f] = "none" THEN "none" ELSE "empty"]
    /\ primary' = None
    /\ current' = None
    /\ lay' = PlaceLogo(lay)
    /\ UNCHANGED <<jumps, prefer, auto, lastText, commands>>

-----------------------------------------------------------------------------
PlacementInit ==
    /\ lay = Fresh(Layout("wide", "logo"))
    /\ jumps = <<>>
    /\ prefer = FALSE /\ auto = FALSE
    /\ bufs = [f \in Files |-> "none"]
    /\ primary = None /\ current = None /\ lastText = None
    /\ commands = 0

Show == \/ \E f \in Files \cup {None}, named, focus \in BOOLEAN : Present(f, named, focus)
        \/ ActivateAddress
        \/ RefreshAsm

PlacementNext ==
    \/ \E leaf \in 1..MaxPanes, mouse \in BOOLEAN : FocusPane(leaf, mouse)
    \/ Escape
    \/ InsertKey
    \/ BufferGdb
    \/ \E w \in Others \cup Files : BufferName(w)
    \/ \E f \in Files : EditFile(f)
    \/ JumpBack
    \/ \E fromLua \in BOOLEAN : BufferCode(fromLua)
    \/ BufferAsm
    \/ SplitAsm
    \/ \E w \in {"noname", "logger"} : SplitPane(w)
    \/ \E next \in 1..MaxPanes : ClosePane(next)
    \/ OnlyFocus
    \/ \E name \in {"classic", "default", "wide"} : ApplyLayout(name)
    \/ Show
    \/ Exit

PlacementSpec == PlacementInit /\ [][PlacementNext]_placementVars

-----------------------------------------------------------------------------
PlacementTypeOK ==
    /\ lay.panes \in Seq(Widgets) /\ Len(lay.panes) \in 1..MaxPanes
    /\ lay.focus \in Leaves(lay)
    /\ \A m \in {lay.code, lay.gdb, lay.asm, lay.last} : m \in 0..Len(lay.panes)
    /\ jumps \in Seq(Widgets) /\ Len(jumps) <= JumpMax
    /\ prefer \in BOOLEAN /\ auto \in BOOLEAN
    /\ bufs \in [Files -> {"none", "source", "banner", "empty"}]
    /\ primary \in Files \cup {None} /\ current \in Files \cup {None}
    /\ lastText \in TextPanes \cup {None} /\ commands \in 0..MaxCommands

(* No command or stop takes the console away while a leaf shows source: only *)
(* closing panes and a new layout do.                                        *)
ConsoleStays ==
    [][ Len(lay.panes) <= Len(lay'.panes) /\ FindLeaf(lay, SourceSlots) # Nil
          /\ FindLeaf(lay, {"gdb"}) # Nil
             => FindLeaf(lay', {"gdb"}) # Nil ]_placementVars

(* A step that only presents: nothing asked for the focus.                   *)
ShowOnly == \/ \E f \in Files \cup {None}, named \in BOOLEAN : Present(f, named, FALSE)
            \/ ActivateAddress
            \/ RefreshAsm

(* A stop, a frame or a late disassembly takes no pane away: it changes a    *)
(* leaf that showed Code, the logo or Assembly, or the leaf marked asm.      *)
Taken == {leaf \in Leaves(lay) \cap DOMAIN lay'.panes :
            /\ lay'.panes[leaf] # lay.panes[leaf]
            /\ lay.panes[leaf] \notin CodeSlots
            /\ leaf # lay.asm}

StopsStealNoPane == [][Taken # {} => ~ShowOnly]_placementVars

(* A dedicated Assembly pane stays while the code leaf shows source.         *)
SplitLost == /\ HasSplit(lay)
             /\ Shows(lay, lay.code, SourceSlots)
             /\ lay.asm \in Leaves(lay')
             /\ ~Shows(lay', lay.asm, {"asm"})

SplitSurvives == [][SplitLost => ~ShowOnly]_placementVars
=============================================================================
