SPECIFICATION Spec
CONSTANTS
    ItemLevels = {1, 2}
    Ratings = {20, 24, 30}
    RaidSets = {{}, {2}, {1, 2}}
    Tiers = {1, 2}
    PseudoTier = 3
    MaxSyncs = 2
CHECK_DEADLOCK FALSE
INVARIANTS
    HonestReport
PROPERTIES
    DryRunWritesNothing
    GoodDataKept
