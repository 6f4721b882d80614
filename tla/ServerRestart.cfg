SPECIFICATION ServerSpec
CONSTANTS
    r1 = r1  r2 = r2
    Runs = {r1, r2}
    NoRun = NoRun
    MaxTotal = 0
    Triggers = {"scheduled", "manual"}
    NotifyResults = {"sent"}
    NotNotified = NotNotified
    StoreFaults = TRUE
SYMMETRY Symmetry
INVARIANTS
    ServerInv
    CleanStop
PROPERTIES
    KeepsLedger
