SPECIFICATION FairSpec
CONSTANTS
    w1 = w1  w2 = w2
    Callers = {w1, w2}
    NoCaller = NoCaller
    MaxAttempts = 2
    Burst = 2
    HTTPTimeout = 1
    Margin = 2
    Life = 3
INVARIANTS
    ClientInv
    TokenOutlivesAttempt
PROPERTIES
    CallsReturn
