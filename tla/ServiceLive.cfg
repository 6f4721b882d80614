SPECIFICATION FairSpec
CONSTANTS
    r1 = r1  r2 = r2
    Runs = {r1, r2}
    NoRun = NoRun
    MaxTotal = 1
    Triggers = {"dry-run", "retry"}
    NotifyResults = {"sent"}
    NotNotified = NotNotified
    StoreFaults = FALSE
INVARIANTS
    ServiceInv
PROPERTIES
    CancelHitsLiveRun
    RunsSettle
    ShutdownReturns
