SPECIFICATION FairSpec
CONSTANTS
    m1 = m1  m2 = m2  m3 = m3
    w1 = w1  w2 = w2
    thrall = thrall  jaina = jaina
    Members <- MCMembers
    Names <- MCNames
    NameOf <- MCNameOf
    Workers <- MCWorkers
    NoMember = NoMember
    StoreFaults = TRUE
INVARIANTS
    IInv
    DetailRetryable
PROPERTIES
    ReportsAdvance
    EngineSettles
    KeepsContract
