SPECIFICATION FairSpec
CONSTANTS
    q1 = q1  q2 = q2  o1 = o1  o2 = o2  t1 = t1  t2 = t2
    c1 = c1  c2 = c2  run = run  other = other  nobody = nobody
    Requests = {q1, q2}
    Officers = {o1, o2}
    Targets = {c1, c2, run, other, nobody}
    Guilds = {"home", "away"}
    GuildOf <- MCGuildOf
    Tags = {t1, t2}
    Notes = {"", "n1", "n2"}
    Statuses = {"", "trial"}
    Asks <- MixedAsks
    MaxTags = 1
    MaxBatch = 2
    None = None
INVARIANTS
    OfficerInv
PROPERTIES
    ChangesAttributed
    EveryRequestAnswered
