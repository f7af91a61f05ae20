SPECIFICATION MCSpec

CONSTANTS
    r1 = r1
    r2 = r2
    r3 = r3
    p1 = p1
    p2 = p2
    j1 = j1
    j2 = j2
    None = None
    Req = {r1, r2, r3}
    Id = {1, 2}
    ReqId <- MCReqId
    Conn = {"a", "b"}
    ConnOf <- MCConnOf
    Poller = {p1, p2}
    Script = {r2}
    Job = {j1, j2}
INVARIANTS WaitingIsReachable
PROPERTIES Approves DeveloperModeServes
CHECK_DEADLOCK FALSE
