SPECIFICATION MCFairSpec
CONSTANTS
  s1 = s1
  s2 = s2
  w1 = w1
  w2 = w2
  r1 = r1
  r2 = r2
  None = None
  Gone = Gone
  Topic = {s1, s2}
  Wallet = {w1, w2}
  Hidden = {w2}
  Req = {r1, r2}
  TopicOf <- MCTopicOf
  Risky = {r1, r2}
  MaxLogin = 2
  MaxFaults = 1
PROPERTIES LockSweeps AskedIsSettled
INVARIANTS SignatureIsConsented ListedIsConnected
CHECK_DEADLOCK FALSE
