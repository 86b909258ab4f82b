SPECIFICATION DlvSpec
CONSTANTS
    MaxActs = 3  MaxHasty = 1  MaxStops = 2
INVARIANT StopIsNotRunPast
INVARIANT StopIsShown
 
PROPERTY RunningIsNoticed
CHECK_DEADLOCK FALSE
