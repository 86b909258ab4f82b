SPECIFICATION Spec
CONSTANTS
    Scripts = {s1}
    Repl = repl
    Queue = 2
    MaxJobs = 2
INVARIANT CtrlCFindsTheJob
INVARIANT UIWorkOnUI
INVARIANT CtrlCReachesTheJob
PROPERTY CancelledJobEnds
PROPERTY QuitEnds
CHECK_DEADLOCK FALSE
