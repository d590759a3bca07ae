SPECIFICATION FairSpec
CONSTANTS
    r1 = r1
    r2 = r2
    k1 = k1
    m1 = m1
    m2 = m2
    NoKey = NoKey
    None = None
    Requests = {r1, r2}
    Keys = {k1}
    KeyOf <- MCKeyOf
    BatchN <- MCBatchN
    Monitors = {m1, m2}
    Contents <- MCContents
    MaxRuns = 2
INVARIANTS
    TypeOK
    EntryIsOwned
    GenuineApproval
    WaitIsCancellable
PROPERTIES
    ImplementsService
    EveryRequestAnswered
    MonitorNeverBlocks
