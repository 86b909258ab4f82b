SPECIFICATION FairSpec
CONSTANTS
    a = a  b = b  x = x
    Loc = {a, b}  Addr = {x}  NoLoc = NoLoc  NoAddr = NoAddr
    Base <- MCBase
    AddrOf <- MCAddrOf
    Coalesced = Coalesced
    Stoppers = {}
    MaxOps = 4  MaxStops = 0  MaxExits = 0  MaxFails = 0
PROPERTY BreakIsPainted
CHECK_DEADLOCK FALSE
