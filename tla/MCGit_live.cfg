SPECIFICATION FairScmSpec
CONSTANTS
    None = None
    app = app
    lib = lib
    Projects = {app, lib}
    Reads = {r1, r2}
    MaxTree = 1
    Files = {f, g}
    LastPage = 2
    LogAttempts = 2
    MaxTasks = 6
    Scopes <- MCLiveScopes
PROPERTIES BadgeCatchesUp
CHECK_DEADLOCK FALSE
