SPECIFICATION FairSpec
CONSTANTS
    u = u
    v = v
    s1 = s1
    s2 = s2
    s3 = s3
    NoSession = NoSession
    Peers = {u, v}
    Allowed = {u}
    Shapes <- MCShapes
    Configs <- MCConfigs
    Json <- MCJson
    Cap = 1
    RecentCap = 1
    MaxMsgs = 3
    MaxAgain = 1
    MaxAsks = 1
INVARIANTS
    TypeOK
    TokensStayWithTheirUser
    HandledOnce
    MediaQuotedOnce
PROPERTIES
    EveryTextIsHandled
