SPECIFICATION PlacementSpec
CONSTANTS
    Readable = {"src"}
    Missing = {"lib"}
    Others = {"output", "logger"}
    TextPanes = {"output"}
    AsmSupported = TRUE
    MaxPanes = 3
    MaxCommands = 2
    JumpMax = 1
PROPERTY ConsoleStays
PROPERTY StopsStealNoPane
PROPERTY SplitSurvives
