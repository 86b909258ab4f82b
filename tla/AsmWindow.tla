----------------------------- MODULE AsmWindow -----------------------------
(***************************************************************************)
(* Which instructions a sliding window of the Assembly pane holds          *)
(* (gdbforge/parse/disassemble.go).  Lists are sequences of addresses,     *)
(* indices count from 0 as in the code, and -1 is "not found".             *)
(***************************************************************************)
EXTENDS Integers, Sequences

CONSTANTS
    maxInsnBytes,    \* 15: the longest instruction
    DefaultAsmRows,  \* 20: rows of a pane that was never drawn
    MinFetch,        \* 80: the least instructions fetched
    Screens,         \* 4: screens fetched at once
    AddrMax          \* the greatest address: 2^64 - 1

ASSUME AsmWindowAssumption ==
    {maxInsnBytes, DefaultAsmRows, MinFetch, Screens, AddrMax} \subseteq Nat \ {0}

AtLeast(low, n) == IF n < low THEN low ELSE n
AtMost(high, n) == IF n > high THEN high ELSE n
Rows(n)         == IF n < 1 THEN DefaultAsmRows ELSE n
At(items, i)    == items[i + 1]

(* IndexOfAddr, indexOfAsmAddr *)
IndexOfAddr(items, addr) ==
    IF \E i \in DOMAIN items : items[i] = addr
    THEN (CHOOSE i \in DOMAIN items : items[i] = addr /\ \A j \in 1 .. i - 1 : items[j] # addr) - 1
    ELSE -1

(* The first of the nearest addresses. *)
Distance(a, b) == IF a >= b THEN a - b ELSE b - a
indexNearestAddr(items, addr) ==
    (CHOOSE i \in DOMAIN items : \A j \in DOMAIN items :
        LET di == Distance(items[i], addr)
            dj == Distance(items[j], addr)
        IN  di < dj \/ (di = dj /\ i <= j)) - 1

FetchRows(rows) == AtLeast(MinFetch, Screens * rows)

(* Bytes [first, past): room for rows instructions around center, doubled. *)
DisassembleRange(center, rows) ==
    LET half == rows \div 2
    IN  [first |-> AtLeast(0, center - 2 * half * maxInsnBytes),
         past  |-> AtMost(AddrMax, center + 2 * (rows - half + 1) * maxInsnBytes)]

(* rows of the items from index start on, moved to where they exist. *)
Fit(items, start, rows) ==
    LET first == AtLeast(0, AtMost(Len(items) - rows, start))
    IN  SubSeq(items, first + 1, first + rows)

WindowAround(items, center, rows) ==
    IF rows >= Len(items) THEN items
    ELSE Fit(items, indexNearestAddr(items, center) - (rows \div 2), rows)

WindowAtAnchor(items, center, rows, anchor) ==
    LET n == AtMost(Len(items), rows)
    IN  Fit(items, indexNearestAddr(items, center) - AtLeast(0, AtMost(n - 1, anchor)), n)

(* Bug: a slide up is anchored like a slide down. *)
BrowseAnchor_Down(dir, keep, viewH, rows) == AtMost(rows - 1, AtLeast(0, keep))

(* The index center shall have so that the caret keeps its screen row. *)
BrowseAnchor(dir, keep, viewH, rows) ==
    LET row      == AtMost(viewH - 1, IF keep < 0 THEN viewH \div 2 ELSE keep)
        afterPad == viewH - row - 1
    IN  IF dir < 0 THEN AtLeast(0, rows - 1 - afterPad) ELSE AtMost(rows - 1, row)
=============================================================================
