SPECIFICATION Spec
CONSTANTS
    Players = {p1}
    NDays = 3
    Scores = {0, 20}
    MaxRuns = 3
    MaxOdd = 1
    MaxWeeks = 2
    GateWeeks = 2
INVARIANTS
    CleanWentWell
    GateIsEarned
    NoFalseMiss
    VerdictIsTrue
    ChargedAsFaced
CHECK_DEADLOCK FALSE
