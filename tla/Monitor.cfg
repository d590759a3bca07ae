SPECIFICATION FairSpec
CONSTANTS
    WithId = {1}
    maxConsecutiveFailures = 2
    MaxMsgs = 2
    MaxRuns = 2
    MaxCrashes = 1
INVARIANTS
    TypeOK
    NothingSkipped
    AtMostOnce
PROPERTIES
    EveryMessageIsHandled
