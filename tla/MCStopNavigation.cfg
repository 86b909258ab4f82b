SPECIFICATION Spec
CONSTANTS
    MaxStops = 2  MaxUser = 2  SourceSets = {{1}, {2}}
INVARIANT RowSticks
INVARIANT CodeFollowsGdb
INVARIANT PanesFollowGdb
CHECK_DEADLOCK FALSE
