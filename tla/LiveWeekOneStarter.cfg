SPECIFICATION Spec
CONSTANTS
    Players = {p1}
    NDays = 3
    Scores <- MCScores
    MaxIngests = 1
INVARIANTS
    BankedIsLocked
    ClosedLockNotRecalled
PROPERTIES
    OpenWindowCalled
    CallsAreOpen
    UnclearHasCause
