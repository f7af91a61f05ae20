SPECIFICATION MCSpec
CONSTANTS
    Contact = {c1, c2}
    Data = {d1, d2}
    None = None
    MaxCalls = 3
    Wallet = {w1, w2}
    MaxHomeCalls = 2
INVARIANTS PageIsTrue HomeSettles DetailIsEntered PhraseIsShown
PROPERTIES KeepsPromise
SYMMETRY Symmetry
