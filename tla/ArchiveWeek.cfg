SPECIFICATION Spec
CONSTANTS
    Nobody = Nobody
    Observers = {o1}
    Ingests = {i1}
    Repairs = {r1}
    Values = {1, 2}
    MinObservations = 2
    Spacings = {"apart", "in turn"}
    Horizon = 3
    MaxCopies = 2
    MaxFiles = 3
    MaxPolls = 2
    Lineups <- SoloSwap
INVARIANTS FinalEvidence RepairSettles
PROPERTIES NeverOverwritten EveryReadingKept
