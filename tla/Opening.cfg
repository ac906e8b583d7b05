SPECIFICATION Spec
CONSTANTS
    Ingests = {i1, i2}
    Digests = {d1}
    Configs <- MCConfigs
    SeasonOf <- MCSeasonOf
    Added = {"state", "poll_complete"}
    Files <- MCFiles
    Scores <- MCScores
    Lineups <- MCLineups
    NoIdentity = none
INVARIANTS
    SessionsReadWhole
    OneSeason
    AloneOpens
PROPERTIES
    AdviceSurvives
\* Every process ends.
CHECK_DEADLOCK FALSE
