SPECIFICATION ProgressionSpec
CONSTANTS
    c1 = c1
    Characters = {c1}
    Values = {20, 24, 30}
    Day = 2
    Retention = 2
    Recent = 3
    NotableAge = 1
    MaxRange = 3
    MaxLimit = 3
    MaxTime = 4
    MaxSnapshots = 3
    None = None
CHECK_DEADLOCK FALSE
INVARIANTS
    SnapshotsInv
    HistoryFaithful
    SummariesCurrent
