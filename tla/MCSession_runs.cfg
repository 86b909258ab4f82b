CONSTANTS
    Loc = {main, f}
    Main = main
    MaxActs = 3
    MaxRuns = 2
    MaxWindows = 2
SPECIFICATION Spec
INVARIANT TTYIsReleased
INVARIANT WindowsAreHeld
 
INVARIANT ConnectKeepsBreakpoints
PROPERTY SavedIsRestored
CHECK_DEADLOCK FALSE
