SPECIFICATION ScmSpec
CONSTANTS
    None = None
    app = app
    lib = lib
    Projects = {app, lib}
    Reads = {r1, r2}
    MaxTree = 1
    Files = {f, g}
    LastPage = 2
    LogAttempts = 2
    MaxTasks = 6
    Scopes <- MCScopes
INVARIANTS RefreshingIsReading HistoryOfProject PanesMatch
PROPERTIES BadgesStayFresh
CHECK_DEADLOCK FALSE
