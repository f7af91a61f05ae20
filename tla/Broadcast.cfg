SPECIFICATION FairSpec

CONSTANTS
    p1 = p1
    p2 = p2
    None = None
    N = 2
    FailureThreshold = 2
    SuccessThreshold = 1
    Bound = 2
    Payment = {p1, p2}
    Content = {"rent", "food"}
    MaxNonce = 1
    MaxFaults = 2

INVARIANTS RecordedIsNotResent NonceIsTaken

PROPERTIES  RotationServes
