SPECIFICATION FairSpec
CONSTANTS
    MaxUser = 3  MaxEvents = 2  MaxQueries = 1  Cuts = TRUE
INVARIANT RunningHasCause
 
INVARIANT StopIsShown
 
CHECK_DEADLOCK FALSE
