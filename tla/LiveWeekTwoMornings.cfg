SPECIFICATION Spec
CONSTANTS
    Players = {p1}
    NDays = 3
    Scores <- MCOneScore
    MaxIngests = 2
INVARIANTS
    RepeatIsSameWindow
