SPECIFICATION Spec
CONSTANTS
    Unset = Unset
    Torn = Torn
    UnsafeIds = {"url"}
    Absolute = {}
    Values <- MCValues
    Dirs = {"d1", Unset}
    Garbled = Garbled
    Configs <- MCConfigs
    LoginFiles <- MCLoginFiles
    Contents <- MCContents
    Owner <- MCOwner
    NoCursor = NoCursor
    MaxBots = 2
    MaxRuns = 2
    MaxLogins = 1
INVARIANTS
    TypeOK
    MonitorsServeTheBots
    CredentialsFileWins
    CursorsStayWithTheirBot
