SPECIFICATION Spec
CONSTANTS
    Nobody = Nobody
    Observers = {o1}
    Ingests = {i1}
    Repairs = {r1}
    Values = {1, 2}
    MinObservations = 1
    Spacings = {"apart"}
    Horizon = 3
    MaxCopies = 2
    MaxFiles = 3
    MaxPolls = 2
    Lineups <- Swap
INVARIANTS TotalIsOfItsSlots
