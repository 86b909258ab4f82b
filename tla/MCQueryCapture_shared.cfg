SPECIFICATION FairSpec
CONSTANTS
    Tools = {tool}  Agents = {tool}  Cap = 2  Tries = 2  MaxChanges = 2  MaxOthers = 1
    tool = tool
INVARIANT SettledIsCurrent
PROPERTY QueriesEnd
CHECK_DEADLOCK FALSE
