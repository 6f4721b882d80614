SPECIFICATION Spec
CONSTANTS
    s1 = s1  s2 = s2  c1 = c1  c2 = c2  a1 = a1  a2 = a2
    States = {s1, s2}
    Callbacks = {c1, c2}
    Accounts = {a1, a2}
    SuperAdmins = {a2}
    None = None
    StateTTL = 1
    SessionTTL = 1
    MaxTime = 2
SYMMETRY Symmetry
INVARIANTS
    SignInInv
PROPERTIES
    RolesOnlyRise
    ExpiryHonoured
