SPECIFICATION FairSpec
CONSTANTS
    Monitors = {m1, m2, m3}
    Cap = 2
    MaxJobs = 2
    NoJob = NoJob
INVARIANTS
    TypeOK
    OrderOfOneBot
    PanicOnlyInFlight
PROPERTIES
    ImplementsService
    EveryJobIsProcessed
