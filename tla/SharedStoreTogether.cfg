SPECIFICATION FairSpec
CONSTANTS
    Ingests = {i1, i2}
    Digests = {d1}
    Weeks <- MCWeeks
    Coverages <- MCCoverages
    ThisWeek = 2
    Nobody = nobody
INVARIANTS
    VouchedRowsAreNoNewer
    CompleteIsWhole
    UnderwayOnlyWaits
PROPERTIES
    EveryoneEnds
    CommitsAreAtomic
\* Every process ends.
CHECK_DEADLOCK FALSE
