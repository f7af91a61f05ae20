SPECIFICATION FairSpec

CONSTANTS
    MaxSession = 2
    MaxCalls = 2
    MaxLogout = 1
    MaxLife = 3
    MaxIdle = 0
    Buffer = 1
    Warn = 1
    Grace = 1

INVARIANTS LockedIsRevoked IdleIsWatched

PROPERTIES EndedStaysEnded LogoutOnlyWhenIdle AwayIsLoggedOut

