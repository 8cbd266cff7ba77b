SPECIFICATION Spec
CONSTANTS
    p1 = p1
    p2 = p2
    draft = draft
    a = a
    b = b
    s = s
    Projects = {p1, p2}
    Scratch = draft
    Paths = {a, b, s}
    Pinned = {s}
    Home <- MCHome
    Scopes <- MCScopes
    MaxTabs = 2
    MaxIds = 3
    MaxEdits = 2
    Long = {2}
    MaxStarts = 2
INVARIANTS sessionsTypeOK TabsAtHome DraftsCover SnapshotComplete
PROPERTIES EditsStay StartKeepsSnapshot
CHECK_DEADLOCK FALSE
