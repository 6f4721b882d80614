SPECIFICATION PageSpec
CONSTANTS
    MaxRuns = 2
    MaxCalls = 3
    MaxFailures = 1
    MaxClicks = 1
    MaxOrphans = 1
CHECK_DEADLOCK FALSE
INVARIANTS
    ViewInv
PROPERTIES
    PollingStops
    EndIsShown
