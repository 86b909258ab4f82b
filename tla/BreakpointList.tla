-------------------------- MODULE BreakpointList --------------------------
(***************************************************************************)
(* The shared breakpoint model, internal/gdbforge/models/breakpoints.go.   *)
(*                                                                         *)
(* A list is a sequence of rows; every operation is a pure operator from a *)
(* list to a list, and the toggling ones also yield the intent             *)
(* (models/break_intent.go) the controller sends to the debugger.          *)
(*                                                                         *)
(* A source location (full path and line) is a model value of Loc, and     *)
(* Base maps it to what the code compares, the base name and the line.     *)
(***************************************************************************)
EXTENDS Naturals, Sequences, FiniteSets

CONSTANTS
    Loc,        \* full path and line
    Addr,       \* instruction addresses
    NoLoc,      \* File = "" and Line = 0
    NoAddr,     \* Addr = ""
    Base,       \* Base[l]: filepath.Base(file) with the line
    AddrOf      \* AddrOf[l]: the address the debugger resolves l to

ASSUME BreakpointListAssumption ==
    /\ NoLoc \notin Loc /\ NoAddr \notin Addr
    /\ DOMAIN Base = Loc
    /\ AddrOf \in [Loc -> Addr \cup {NoAddr}]

Row == [loc: Loc \cup {NoLoc}, addr: Addr \cup {NoAddr},
        num: Nat, en: BOOLEAN, cond: BOOLEAN]

Intent == [kind: {"none", "insert", "clear", "delete"},
           loc: Loc \cup {NoLoc}, addr: Addr \cup {NoAddr}, num: Nat]

(* BreakIntent{}: the zero value, whose Kind is IntentInsert (iota = 0). *)
ZeroIntent == [kind |-> "insert", loc |-> NoLoc, addr |-> NoAddr, num |-> 0]
Nothing    == [ZeroIntent EXCEPT !.kind = "none"]

NewRow(l, a) == [loc |-> l, addr |-> a, num |-> 0, en |-> TRUE, cond |-> FALSE]

---------------------------------------------------------------------------
(* Identity of a row and the look-ups *)

breakKey(r) ==
    IF r.loc # NoLoc THEN <<"line", Base[r.loc]>>
    ELSE IF r.addr # NoAddr THEN <<"addr", r.addr>>
    ELSE <<"num", r.num>>

SameSourceLoc(r, l) == r.loc # NoLoc /\ Base[r.loc] = Base[l]

(* The first of some indices, 0 if there is none. *)
First(S) == IF S = {} THEN 0 ELSE CHOOSE i \in S : \A j \in S : i <= j

IndexOfFileLine(items, l) == First({i \in DOMAIN items : SameSourceLoc(items[i], l)})
IndexOfAddr(items, a)     == First({i \in DOMAIN items : items[i].addr = a})

HasEnabledAt(items, l) == \E i \in DOMAIN items : items[i].en /\ SameSourceLoc(items[i], l)

(* The k-th smallest of some numbers, and the rows at some indices. *)
Nth(S, k) == CHOOSE i \in S : Cardinality({j \in S : j < i}) = k - 1

Kept(items, S) == [k \in 1 .. Cardinality(S) |-> items[Nth(S, k)]]

RemoveRow(items, i) == SubSeq(items, 1, i - 1) \o SubSeq(items, i + 1, Len(items))

---------------------------------------------------------------------------
(* MergeFromGDB: rows the debugger reports replace the local ones of the   *)
(* same key, local disabled rows it does not report stay, local enabled    *)
(* rows it does not report go, and unseen reported rows are appended.  The *)
(* report is in the order of numbers: of two rows with one key the last    *)
(* replaces, and the first is appended.                                    *)

InOrder(S) ==
    LET nums == {g.num : g \in S}
    IN  [k \in 1 .. Cardinality(nums) |-> CHOOSE g \in S : g.num = Nth(nums, k)]

reported(live, k) == {g \in live : breakKey(g) = k}
lastOf(live, k)   == CHOOSE g \in reported(live, k) : \A h \in reported(live, k) : h.num <= g.num

merged(r, live) ==
    IF reported(live, breakKey(r)) # {}
    THEN [lastOf(live, breakKey(r)) EXCEPT !.en = TRUE]
    ELSE [r EXCEPT !.num = 0]

(* A mutation: enabled rows that are not reported stay. *)
staying_All(items, live) == DOMAIN items

staying(items, live) ==
    {i \in DOMAIN items : reported(live, breakKey(items[i])) # {} \/ ~items[i].en}

unseen(items, live) ==
    {g \in live : /\ \A i \in DOMAIN items : breakKey(items[i]) # breakKey(g)
                  /\ \A h \in reported(live, breakKey(g)) : g.num <= h.num}

MergeFromGDB(items, live) ==
       Kept([i \in DOMAIN items |-> merged(items[i], live)], staying(items, live))
    \o InOrder({[g EXCEPT !.en = TRUE] : g \in unseen(items, live)})

---------------------------------------------------------------------------
(* The user's operations: what the list becomes and what is sent *)

Done(items, intent) == [items |-> items, intent |-> intent]

breakIntentClear(r) ==
    [kind |-> IF r.num > 0 THEN "delete" ELSE "clear",
     loc |-> r.loc, addr |-> r.addr, num |-> r.num]

breakIntentInsert(r) == [kind |-> "insert", loc |-> r.loc, addr |-> r.addr, num |-> 0]

ToggleEnableAt(items, i) ==
    IF items[i].en
    THEN Done([items EXCEPT ![i].en = FALSE, ![i].num = 0], breakIntentClear(items[i]))
    ELSE Done([items EXCEPT ![i].en = TRUE], breakIntentInsert(items[i]))

DeleteAt(items, i) ==
    Done(RemoveRow(items, i),
         IF items[i].en THEN breakIntentClear(items[i]) ELSE ZeroIntent)

ToggleEnableAtFileLine(items, l, codeHasEnabled) ==
    LET i == IndexOfFileLine(items, l)
    IN  IF i > 0 THEN ToggleEnableAt(items, i)
        ELSE IF codeHasEnabled
        THEN ToggleEnableAt(Append(items, NewRow(l, NoAddr)), Len(items) + 1)
        ELSE Done(items, Nothing)

ToggleEnableAtAddr(items, a, hasEnabled) ==
    LET i == IndexOfAddr(items, a)
    IN  IF i > 0 THEN ToggleEnableAt(items, i)
        ELSE IF hasEnabled
        THEN ToggleEnableAt(Append(items, NewRow(NoLoc, a)), Len(items) + 1)
        ELSE Done(items, Nothing)

ToggleInsertClear(items, l) ==
    IF HasEnabledAt(items, l)
    THEN Done(Kept(items, {i \in DOMAIN items : ~SameSourceLoc(items[i], l)}),
              [kind |-> "clear", loc |-> l, addr |-> NoAddr, num |-> 0])
    ELSE Done(Append(items, NewRow(l, NoAddr)), breakIntentInsert(NewRow(l, NoAddr)))

ToggleInsertClearAddr(items, a) ==
    LET i == IndexOfAddr(items, a)
    IN  IF i = 0
        THEN Done(Append(items, NewRow(NoLoc, a)), breakIntentInsert(NewRow(NoLoc, a)))
        ELSE IF items[i].en
        THEN Done(RemoveRow(items, i), breakIntentClear(items[i]))
        ELSE Done([items EXCEPT ![i].en = TRUE], breakIntentInsert(items[i]))
===========================================================================
