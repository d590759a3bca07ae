SPECIFICATION Spec
CONSTANTS
    Waits = {1, 5}
    MinWait = 2
    DefaultWait = 9
    qrPollTimeout = 3
    FetchTimeout = 4
    pollErrBackoff = 1
    maxQRRefresh = 3
INVARIANTS
    TypeOK
    EndsInTime
    PollsWhatIsShown
    FailedLoginKeepsFile
