SPECIFICATION Spec
CONSTANTS
    u = u
    v = v
    s1 = s1
    s2 = s2
    s3 = s3
    NoSession = NoSession
    Peers = {u, v}
    Allowed = {u}
    Shapes <- MCTexts
    Configs = {}
    Json <- MCJson
    Cap = 1
    RecentCap = 1
    MaxMsgs = 2
    MaxAgain = 0
    MaxAsks = 1
INVARIANTS
    CacheIsLatest
