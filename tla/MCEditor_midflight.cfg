SPECIFICATION EditorSpec
CONSTANTS
    f1 = f1
    Files = {f1}
    Settings <- MCSettings
    MaxFresh = 2
    MaxWrites = 3
    MaxOpens = 2
    MaxBoth = 3
    MaxOps = 2
PROPERTY MidFlightEditsMarked
CHECK_DEADLOCK FALSE
