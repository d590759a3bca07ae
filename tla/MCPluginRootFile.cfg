SPECIFICATION Spec
CONSTANTS
    Unset = Unset
    Torn = Torn
    UnsafeIds = {"url"}
    Absolute = {}
    Values <- MCValues
    Dirs = {"d1", Unset}
    Garbled = Garbled
    Configs <- RootFile
    LoginFiles <- MCLoginFiles
    Contents <- MCContents
    Owner <- MCOwner
    NoCursor = NoCursor
    MaxBots = 2
    MaxRuns = 1
    MaxLogins = 1
INVARIANT
    DistinctAccountsSeparate
