SPECIFICATION Spec
CONSTANTS
    Players = {p1}
    NDays = 3
    Scores <- MCPlayedScores
    MaxIngests = 1
INVARIANTS
    BankedAlwaysLocked
