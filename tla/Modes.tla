------------------------------- MODULE Modes -------------------------------
(***************************************************************************)
(* Who gets the next key.  The app routes a key by the mode of AppState,   *)
(* and the mode is not all there is: the focused pane, the green status of *)
(* Insert, the cmdline, the wildmenu and its two owner flags, the Lua pane *)
(* that ticks, and the target of '/' are kept by six controllers, each of  *)
(* which writes the mode as it sees fit.  Keys, clicks and the calls of a  *)
(* script run on the UI thread; what the cmdline widget has to say comes   *)
(* back as a posted interrupt, behind whatever was queued before it.       *)
(*                                                                         *)
(* The state of the UI is one record, ui, and a controller's method is a   *)
(* function from such a record to the next (or to a set of them, where the *)
(* geometry of the panes or the text of a line decides).                   *)
(***************************************************************************)
EXTENDS Naturals, Sequences

CONSTANTS MaxChars,   \* characters kept of the cmdline behind its ':' or '/'
          MaxPosts    \* interrupts of the cmdline that may be queued

ASSUME BoundsAssumption == MaxChars \in Nat \ {0} /\ MaxPosts \in Nat \ {0}

Modes == {"normal", "insert", "command", "search", "completion", "lua"}
Texts == {"gdb", "repl", "io"}            \* panes that read what is typed
Panes == Texts \cup {"code", "list", "lua"}

Posts == [msg : {"exit", "submit"}] \cup [msg : {"names"}, n : 0..2]
         \cup [msg : {"text"}, some : BOOLEAN]

VARIABLES
  ui,       \* the record described above
  posts,    \* what the cmdline posted, oldest first
  calm,     \* no input overtook a post and nobody barged in (see Disturbs)
  cut,      \* the lone ':' was deleted: INPUT.md's "app should reset mode" gap
  escs      \* Escs since the last other input, none typed ahead, up to 2

modesVars == <<ui, posts, calm, cut, escs>>

UI == [mode : Modes, focus : Panes, green : BOOLEAN,
       cmd : [active : BOOLEAN, kind : {"command", "search"}, chars : 0..MaxChars],
       menu : 0..2,                         \* candidates: none, one, several
       forGDB : BOOLEAN, forLua : BOOLEAN,  \* the console Tab was pressed in
       lua : BOOLEAN,                       \* luaCtl.active is set, ticks run
       target : {"none", "code", "list"},   \* searchCtl.target
       previews : SUBSET {"code", "list"}]  \* panes with an uncommitted pattern

\* A type invariant of the app's input state: nothing else is ever stored.
ModesTypeOK ==
  /\ ui \in UI
  /\ posts \in Seq(Posts) /\ Len(posts) <= MaxPosts
  /\ calm \in BOOLEAN /\ cut \in BOOLEAN /\ escs \in 0..2

ModesInit ==
  /\ ui = [mode |-> "insert", focus |-> "gdb", green |-> TRUE,
           cmd |-> [active |-> FALSE, kind |-> "command", chars |-> 0],
           menu |-> 0, forGDB |-> FALSE, forLua |-> FALSE, lua |-> FALSE,
           target |-> "none", previews |-> {}]
  /\ posts = << >> /\ calm = TRUE /\ cut = FALSE /\ escs = 0

-----------------------------------------------------------------------------
(* The controllers' methods.                                               *)

luaLeave(u) ==
  [u EXCEPT !.lua = FALSE, !.mode = IF @ = "lua" THEN "normal" ELSE @]

luaEnter(u) == [u EXCEPT !.lua = TRUE, !.green = FALSE, !.mode = "lua"]

EnterInsertMode(u) == [luaLeave(u) EXCEPT !.green = TRUE, !.mode = "insert"]

FocusCode(u) ==
  [u EXCEPT !.green = FALSE, !.mode = "normal", !.focus = "code"]

activateGdbInsertMode(u) == EnterInsertMode([u EXCEPT !.focus = "gdb"])

\* Esc goes back to the last pane that is neither Code nor GDB, or to Code;
\* with :set noesctocode the focus stays.
onEscape(u) ==
  {[u EXCEPT !.green = FALSE, !.mode = "normal", !.focus = p] :
     p \in (Panes \ {"gdb"}) \cup {u.focus}}

\* The GDB leaf keeps its widget: swapping another one in fails.
swapFocusedWidget(u, p) ==
  IF u.focus = "gdb" THEN u ELSE [u EXCEPT !.focus = p]

JumpBack(u) == {swapFocusedWidget(u, p) : p \in Panes}

\* A Lua pane is entered even when the swap failed because it is on the GDB
\* leaf (or already focused).
focusBufferWidget(u, p) ==
  LET v == swapFocusedWidget(u, p)
  IN  IF p = "lua" THEN luaEnter(v) ELSE v

\* The REPL takes the focused pane; on the GDB leaf its own pane is focused,
\* and if it has none the focus stays on GDB.
openConsole(u) ==
  {[luaLeave(u) EXCEPT !.focus = p, !.green = TRUE, !.mode = "insert"] :
     p \in {"repl"} \cup ({u.focus} \cap {"gdb"})}

clear(u) == [u EXCEPT !.menu = 0]

\* Mutant: the wildmenu always goes back to the cmdline.
leaveCompletion_Cmd(u) ==
  [clear(u) EXCEPT !.forGDB = FALSE, !.forLua = FALSE, !.mode = "command"]

leaveCompletion(u) ==
  [clear(u) EXCEPT !.forGDB = FALSE, !.forLua = FALSE,
                   !.mode = IF u.forGDB \/ u.forLua THEN "insert" ELSE "command"]

useConsoleInput(u) == (u.forGDB \/ u.forLua) /\ ~u.cmd.active

SearchHostOf(p) == IF p = "list" THEN "list" ELSE "code"

searchHost(u) == IF u.target = "none" THEN SearchHostOf(u.focus) ELSE u.target

revertPreview(u) == [u EXCEPT !.previews = @ \ {u.target}]

Activated(kind) == [active |-> TRUE, kind |-> kind, chars |-> 0]

enterCommandMode(u) ==
  [clear(luaLeave(u)) EXCEPT
     !.forGDB = FALSE, !.green = FALSE, !.target = "none", !.mode = "command",
     !.cmd = IF @.active THEN @ ELSE Activated("command")]

enterSearchMode(u) ==
  [clear(luaLeave(u)) EXCEPT
     !.forGDB = FALSE, !.green = FALSE, !.target = SearchHostOf(u.focus),
     !.mode = "search", !.cmd = Activated("search")]

\* Mutant: the target is dropped, as ':' drops it, before the preview is undone.
leaveCommandMode_TargetFirst(u) ==
  [clear(u) EXCEPT !.target = "none", !.forGDB = FALSE, !.cmd.active = FALSE,
                   !.mode = "normal"]

leaveCommandMode(u) ==
  LET v == IF u.mode = "search" \/ u.cmd.kind = "search"
             THEN revertPreview(u) ELSE u
  IN  [clear(v) EXCEPT !.forGDB = FALSE, !.cmd.active = FALSE, !.mode = "normal"]

clickCmdLine(u) ==
  IF u.mode # "completion" THEN u
  ELSE [clear(u) EXCEPT
          !.forGDB = FALSE,
          !.mode = IF u.cmd.kind = "search" THEN "search" ELSE "command",
          !.cmd = IF @.active THEN @ ELSE Activated(@.kind)]

\* Mutant: a click on a pane without text only takes the green away.
FocusAt_KeepsMode(u, p) ==
  LET v == [u EXCEPT !.focus = p]
  IN  CASE p = "lua"   -> luaEnter(v)
        [] p \in Texts -> EnterInsertMode(v)
        [] OTHER       -> [v EXCEPT !.green = FALSE]

\* A click lands on a pane: it is focused, and the pane decides the mode.
FocusAt(u, p) ==
  LET v == [u EXCEPT !.focus = p]
  IN  CASE p = "lua"   -> luaEnter(v)
        [] p \in Texts -> EnterInsertMode(v)
        [] OTHER       -> [luaLeave(v) EXCEPT !.green = FALSE, !.mode = "normal"]

\* i: the focused pane if it reads text or is a Lua pane, else the last such
\* pane still on the screen, else GDB.
insertKey(u) ==
  IF u.focus \in Texts \cup {"lua"} THEN {FocusAt(u, u.focus)}
  ELSE {FocusAt(u, p) : p \in Texts \cup {"lua"}}

\* The wildmenu gets n candidates; the cmdline's own enter ModeCompletion.
onCompletion(u, n) ==
  LET v == [u EXCEPT !.menu = n]
  IN  IF n > 1 /\ u.cmd.active /\ u.mode \in {"command", "completion"}
      THEN [v EXCEPT !.forGDB = FALSE, !.forLua = FALSE, !.mode = "completion"]
      ELSE v

\* Tab in the GDB console (tab = "gdb") or the REPL: one candidate completes
\* the line, several open the wildmenu.
tabComplete(u, tab, n) ==
  IF n < 2 THEN clear(onCompletion(u, n))
  ELSE [onCompletion(u, n) EXCEPT
          !.forGDB = (tab = "gdb"), !.forLua = (tab = "repl"), !.mode = "completion"]

\* A letter typed into the console's line under the wildmenu queries again; a
\* blank line (or a confirmation that opened) closes the menu.
refreshMenu(u) ==
  {leaveCompletion(u)} \cup
  {[onCompletion(u, n) EXCEPT !.forGDB = u.forGDB, !.mode = "completion",
                              !.forLua = u.forLua /\ ~u.forGDB] : n \in 0..2}

refreshCmdMenu(u) ==
  {IF n < 2 THEN leaveCompletion(onCompletion(u, n)) ELSE onCompletion(u, n) :
     n \in 0..2}

\* A builtin, an open file or a Lua pane by its name.
openOrCreate(u) == {focusBufferWidget(u, p) : p \in {"io", "list", "lua", "code"}}

\* gdbforge.open_buffer(name) of a script.
openBuffer(u) ==
  {FocusCode(luaLeave(u)), EnterInsertMode([u EXCEPT !.focus = "gdb"])}
  \cup openConsole(u) \cup openOrCreate(u)

\* What the ':' commands do to the UI: nothing; :b gdb, :only, :close and
\* :split move the focus; :b code, :b lua, :b and :edit; :layout and :quit
\* (GDB insert); :! (its pane, in Insert).
Commands(u) ==
  {u} \cup {[u EXCEPT !.focus = p] : p \in Panes}
  \cup {FocusCode(u), activateGdbInsertMode(u)}
  \cup openConsole(u) \cup openOrCreate(u)
  \cup (IF u.focus = "gdb" THEN {}
        ELSE {EnterInsertMode(swapFocusedWidget(u, "io"))})

-----------------------------------------------------------------------------
(* The cmdline widget (external): what a key does to it, and what it posts.*)

Told(cmd) == IF cmd.kind = "search" THEN <<[msg |-> "text", some |-> cmd.chars > 0]>>
                                    ELSE << >>

\* The outcomes of an editing key: the line longer, shorter (MaxChars stands
\* for that many or more), or closed by deleting its lone ':' or '/'.
Edited(cmd) ==
  IF ~cmd.active THEN {[cmd |-> cmd, post |-> << >>]}
  ELSE LET lines == {[cmd EXCEPT !.chars = n] :
                       n \in {n \in 0..MaxChars : \/ n = cmd.chars + 1
                                                  \/ n + 1 = cmd.chars
                                                  \/ n = cmd.chars /\ n = MaxChars}}
       IN  {[cmd |-> c, post |-> Told(c)] : c \in lines} \cup
           (IF cmd.chars = 0 THEN {[cmd |-> [cmd EXCEPT !.active = FALSE], post |-> << >>]}
                             ELSE {})

-----------------------------------------------------------------------------
(* One input: a key, a click or a call of a script.                        *)

Typing == {"command", "search", "completion"}

\* The mode has a pane that reads its keys.
Reads(u) == /\ u.mode = "insert" => u.focus \in Texts
            /\ u.mode = "lua" => u.focus = "lua"

\* One input leaves ui = v and posts post.  It ends the calm if it overtakes
\* something the cmdline posted (typing ahead), or if it barges: Ctrl-D or a
\* script with the cmdline or the wildmenu open, a click on the cmdline from
\* the wildmenu of a console, a pane swapped in place under Insert or Lua by
\* one that reads no keys.  What each of those leaves behind is in the README.
Input(v, post, barges) ==
  /\ Len(posts) + Len(post) <= MaxPosts
  /\ ui' = v
  /\ posts' = posts \o post
  /\ calm' = (calm /\ posts = << >> /\ ~barges)

NotEsc == escs' = 0
IsEsc  == escs' = IF posts # << >> THEN 0 ELSE IF escs = 2 THEN 2 ELSE escs + 1

Barging == ui.mode \in Typing \/ ui.cmd.active

NormalKey ==
  /\ ui.mode = "normal"
  /\ \/ /\ IsEsc /\ \E v \in onEscape(ui) : Input(v, << >>, FALSE)
     \/ /\ NotEsc
        /\ \/ Input(enterCommandMode(ui), << >>, FALSE)
           \/ Input(enterSearchMode(ui), << >>, FALSE)
           \/ \E v \in insertKey(ui) : Input(v, << >>, FALSE)
           \/ \E p \in Panes :                              \* <C-w> chords
                Input([ui EXCEPT !.focus = p], << >>, FALSE)
           \/ \E v \in JumpBack(ui) : Input(v, << >>, FALSE)
           \/ /\ ui.focus = "list"                          \* Enter on a row
              /\ \/ Input(FocusCode(ui), << >>, FALSE)
                 \/ Input(swapFocusedWidget(ui, "code"), << >>, FALSE)
           \/ LET h == SearchHostOf(ui.focus)               \* '*' and '#'
              IN  Input([ui EXCEPT !.target = h, !.previews = @ \ {h}], << >>, FALSE)
  /\ UNCHANGED cut

InsertKey ==
  /\ ui.mode = "insert"
  /\ \/ /\ IsEsc /\ \E v \in onEscape(ui) : Input(v, << >>, FALSE)
     \/ /\ NotEsc
        /\ \/ /\ ui.focus \in {"gdb", "repl"}               \* Tab
              /\ \E n \in 0..2 : Input(tabComplete(ui, ui.focus, n), << >>, FALSE)
           \/ /\ ui.focus = "io"       \* any key to an exec pane that ended
              /\ \E v \in JumpBack(ui) : Input(v, << >>, ~Reads(v))
  /\ UNCHANGED cut

LuaKey ==
  /\ ui.mode = "lua"
  /\ IsEsc /\ Input(luaLeave(ui), << >>, FALSE)
  /\ UNCHANGED cut

\* handleCommandKey: everything goes to the widget; Tab may open the wildmenu
\* before the posted candidates arrive, Enter runs the command (or commits, if
\* the line is a '/' line) and ends the mode unless the command chose one.
CommandKey ==
  LET u == [ui EXCEPT !.forGDB = FALSE]
      done(v) == [clear(v) EXCEPT !.cmd.active = FALSE,
                                  !.mode = IF @ = "command" THEN "normal" ELSE @]
  IN
  /\ ui.mode = "command"
  /\ \/ /\ IsEsc
        /\ IF ui.cmd.active THEN Input(u, <<[msg |-> "exit"]>>, FALSE)
                            ELSE Input(u, << >>, FALSE)
        /\ UNCHANGED cut
     \/ /\ NotEsc
        /\ \E e \in Edited(ui.cmd) :
             /\ Input([u EXCEPT !.cmd = e.cmd], e.post, FALSE)
             /\ cut' = (cut \/ ~e.cmd.active)
     \/ /\ NotEsc /\ ui.cmd.active /\ ui.cmd.kind = "command"       \* Tab
        /\ \E n \in 0..2 :
             Input(IF u.menu = 2 \/ n > 1
                     THEN [u EXCEPT !.forLua = FALSE, !.mode = "completion"] ELSE u,
                   <<[msg |-> "names", n |-> n]>>, FALSE)
        /\ UNCHANGED cut
     \/ /\ NotEsc /\ ui.cmd.active /\ ui.cmd.kind = "command"       \* Enter
        /\ \E v \in Commands(u) : Input(done(v), << >>, ~Reads(done(v)))
        /\ cut' = FALSE
     \/ /\ NotEsc /\ ui.cmd.active /\ ui.cmd.kind = "search"
        /\ Input(done(u), <<[msg |-> "submit"]>>, FALSE)
        /\ cut' = FALSE
     \/ /\ NotEsc /\ ~ui.cmd.active
        /\ Input(done(u), << >>, FALSE)
        /\ cut' = FALSE

\* handleSearchKey: the mode ends when the widget has closed.
SearchKey ==
  LET u == clear([ui EXCEPT !.forGDB = FALSE])
      after(v) == [v EXCEPT !.mode = IF v.cmd.active THEN @ ELSE "normal"]
  IN
  /\ ui.mode = "search"
  /\ \/ IsEsc /\ Input(after(u), IF ui.cmd.active THEN <<[msg |-> "exit"]>> ELSE << >>, FALSE)
     \/ NotEsc /\ \E e \in Edited(ui.cmd) : Input(after([u EXCEPT !.cmd = e.cmd]), e.post, FALSE)
     \/ /\ NotEsc /\ ui.cmd.active                                  \* Enter
        /\ Input(after([u EXCEPT !.cmd.active = FALSE]), <<[msg |-> "submit"]>>, FALSE)
  /\ UNCHANGED cut

\* handleCompletionKey: Esc and Enter close the menu (Enter on a menu narrowed
\* to nothing goes to the console instead); a letter edits the line the menu
\* is for; any other key leaves the menu and goes to that line.
CompletionKey ==
  LET console == ui.forGDB \/ ui.forLua IN
  /\ ui.mode = "completion"
  /\ \/ IsEsc /\ Input(leaveCompletion(ui), << >>, FALSE) /\ UNCHANGED cut
     \/ NotEsc /\ Input(leaveCompletion(ui), << >>, FALSE) /\ UNCHANGED cut
     \/ /\ NotEsc /\ useConsoleInput(ui)
        /\ \E v \in refreshMenu(ui) : Input(v, << >>, FALSE)
        /\ UNCHANGED cut
     \/ /\ NotEsc /\ ~useConsoleInput(ui)
        /\ \E e \in Edited(ui.cmd) :
             LET u == [ui EXCEPT !.forGDB = FALSE, !.cmd = e.cmd]
             IN  \E v \in IF e.cmd.active THEN refreshCmdMenu(u)
                                          ELSE {[clear(u) EXCEPT !.mode = "normal"]} :
                   Input(v, e.post, FALSE)
        /\ UNCHANGED cut
     \/ /\ NotEsc /\ console
        /\ Input([clear(ui) EXCEPT !.forGDB = FALSE, !.forLua = FALSE,
                                   !.mode = "insert"], << >>, FALSE)
        /\ UNCHANGED cut
     \/ /\ NotEsc /\ ~console
        /\ \E e \in Edited(ui.cmd) :
             /\ Input([clear(ui) EXCEPT !.mode = "command", !.cmd = e.cmd], e.post, FALSE)
             /\ cut' = (cut \/ ~e.cmd.active)

\* HandleMouse: on the cmdline, on a pane, or on a row of a list, which may
\* also activate it.
Click ==
  LET out == IF ui.mode \in Typing THEN leaveCommandMode(ui) ELSE ui IN
  /\ NotEsc
  /\ \/ /\ ui.mode \in Typing
        /\ Input(clickCmdLine(ui), << >>, ui.forGDB \/ ui.forLua)
        /\ UNCHANGED cut
     \/ /\ ui.mode \notin Typing
        /\ Input(enterCommandMode(ui), << >>, FALSE)
        /\ UNCHANGED cut
     \/ /\ \E p \in Panes : Input(FocusAt(out, p), << >>, FALSE)
        /\ cut' = FALSE
     \/ /\ Input(FocusCode(FocusAt(out, "list")), << >>, FALSE)
        /\ cut' = FALSE

\* Ctrl-D in any mode: GDB is asked to quit, and its console is where the
\* question appears.
CtrlD == /\ NotEsc /\ Input(activateGdbInsertMode(ui), << >>, Barging)
         /\ cut' = FALSE

Script == /\ NotEsc /\ UNCHANGED cut
          /\ \E v \in openBuffer(ui) : Input(v, << >>, Barging \/ ~Reads(v))

\* HandleInterrupt: the oldest post is dispatched on the bus.
Deliver ==
  /\ posts # << >>
  /\ posts' = Tail(posts)
  /\ LET p == Head(posts)
         h == searchHost(ui)
     IN  ui' = CASE p.msg = "exit"   -> leaveCommandMode(ui)
                 [] p.msg = "names"  -> onCompletion(ui, p.n)
                 [] p.msg = "submit" -> [ui EXCEPT !.previews = @ \ {h}, !.target = h]
                 [] p.msg = "text"   ->
                      IF ui.cmd.kind # "search" THEN ui
                      ELSE [ui EXCEPT !.target = h,
                              !.previews = IF p.some THEN @ \cup {h} ELSE @ \ {h}]
  /\ cut' = (cut /\ Head(posts).msg # "exit")
  /\ UNCHANGED <<calm, escs>>

ModesNext == \/ NormalKey \/ InsertKey \/ LuaKey \/ CommandKey \/ SearchKey
             \/ CompletionKey \/ Click \/ CtrlD \/ Script \/ Deliver

ModesSpec == ModesInit /\ [][ModesNext]_modesVars

-----------------------------------------------------------------------------
(* Properties.                                                             *)

Quiet == calm /\ posts = << >>

\* In Insert, Lua and the wildmenu of a console, the keys go to a pane that is
\* there to read them: Insert is on a pane that takes text and is shown green,
\* Lua's ticking pane is the focused one, the menu completes the line of the
\* console in focus and no cmdline competes for its letters.
KeysHaveAReader ==
  calm => /\ Reads(ui)
          /\ (ui.mode = "insert") => ui.green
          /\ ui.lua <=> (ui.mode = "lua")
          /\ (ui.mode = "completion" /\ ui.forGDB) => (ui.focus = "gdb" /\ ~ui.cmd.active)
          /\ (ui.mode = "completion" /\ ui.forLua) => (ui.focus = "repl" /\ ~ui.cmd.active)

\* Whatever happened before, two Escs lead home: each pressed once the posts
\* before it are delivered, they leave the app in Normal (unless the lone ':' was deleted, which
\* leaves Command with a cmdline that hears no Esc).
EscsLeadHome ==
  (escs = 2 /\ posts = << >> /\ ~cut) => ui.mode = "normal"

\* The cmdline is open exactly while the mode says it has the keys, no menu is
\* left on the screen outside a mode that shows one, and a '/' preview never
\* outlives the search that painted it.
NothingIsLeftOpen ==
  Quiet => /\ ~cut => (ui.cmd.active <=>
                         \/ ui.mode \in {"command", "search"}
                         \/ ui.mode = "completion" /\ ~ui.forGDB /\ ~ui.forLua)
           /\ ui.green => ui.mode \in {"insert", "completion"}
           /\ (ui.menu > 1) => (ui.mode = "completion")
           /\ (ui.previews # {}) => ui.mode = "search"

=============================================================================
