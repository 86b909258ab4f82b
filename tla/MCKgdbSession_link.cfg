SPECIFICATION FairSessionSpec
CONSTANTS
    UI = UI  Nobody = Nobody
    Job = Job  Jobs = {Job}
    Scripts <- OwnerFirst  MaxRounds = 3
INVARIANT GdbFollowsKernel
INVARIANT OwnerIsLastAsked
INVARIANT WholeMessages
PROPERTY ImplementsLink
PROPERTY MessageGoesOut
CHECK_DEADLOCK FALSE
