SPECIFICATION Spec
CONSTANTS
    maxInsnBytes = 2  DefaultAsmRows = 2  MinFetch = 4  Screens = 2  AddrMax = 60
    f = f  g = g  LastInsn = 22
    Code <- MCCode  StopAddrs = {6, 18, 42}
    Readable <- MCReadable  FuncOf <- MCFuncOf  SrcOf <- MCSrcOf
    NoFunc = NoFunc  NoAddr = NoAddr
    Heights = {4}
    Slots = {1, 2}
    MaxStops = 1  MaxUser = 2  MaxDraws = 1  MaxFaults = 1
 
INVARIANT GuardIsAnswered
PROPERTY SlideGoesOn
CHECK_DEADLOCK FALSE
