SPECIFICATION NightlySpec
CONSTANTS
    g1 = g1  g2 = g2
    Guilds = {g1, g2}
    Day = 3
    At <- MCAt
    Invalid = Invalid
    Interval = 2
    MaxSets = 1
INVARIANT
    InstantsServed
PROPERTIES
    KeepsGoing
    EndsAndTells
