SPECIFICATION Spec
CONSTANTS
    a = a  b = b  x = x
    Loc = {a, b}  Addr = {x}  NoLoc = NoLoc  NoAddr = NoAddr
    Base <- MCBase
    AddrOf <- MCAddrOf
    Coalesced = Coalesced
    Stoppers = {s1}
    MaxOps = 2  MaxStops = 1  MaxExits = 1  MaxFails = 1
INVARIANTS RefreshIsCurrent GuttersFollowGdb
CHECK_DEADLOCK FALSE
