SPECIFICATION Spec
CONSTANTS
    Sims <- MCSims
    Step = 8
    NoScore = NoScore
    AnyScore = AnyScore
    Mine <- MCMine
    Theirs <- MCTheirs
    LastDay = 3
    Fixtures <- MCFixtures
    Scores <- MCScores
    Out = Out
    Tables <- MCTables
    Debuts <- MCDebuts
    ForwardNights = 3
    Polled = TRUE
INVARIANTS
    StandingRuleHolds
    CallsAgreeWithRules
    ReplayLeavesOpenWindows
    BaseIsReplay
    ReplayReadsOnlyItsPast
    GradedIsBlind
CHECK_DEADLOCK FALSE
