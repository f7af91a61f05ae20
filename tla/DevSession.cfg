SPECIFICATION FairSpec
CONSTANTS
    t1 = t1
    t2 = t2
    a1 = a1
    a2 = a2
    None = None
    Token = {t1, t2}
    Addr = {a1, a2}
    Chain = {"ethereum", "sepolia"}
    Testnet = {"sepolia"}
    Mainnet = {"ethereum"}
    DefaultTrusted = {"sepolia"}
    Adapted = {"ethereum", "sepolia"}
    BookLen = 2
    Book <- MCBookShared
    NetLists <- MCNetLists
    Minutes <- MCMinutes
    DefaultMinutes = 1
    MaxMinutes = 2
    MaxTime = 2
    MaxSigns = 1
INVARIANTS KeysFollowSessions
PROPERTIES AdmitsOnlyLive ExpiredKeysErased
