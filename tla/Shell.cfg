SPECIFICATION MCSpec
CONSTANTS
    Page = {c1, c2}
    Plugin = {}
    TTL = 1
    MaxAttempts = 2
    MaxCode = 3
    MaxOpen = 2
    MaxTime = 2
    Wallet = {w1, w2}
    Path = {p1, p2}
    Password = {a, b}
INVARIANTS OpenGateWasShown BudgetIsKept
PROPERTIES KeepsWallets
SYMMETRY Symmetry
CHECK_DEADLOCK FALSE
