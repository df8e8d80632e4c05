SPECIFICATION FairSpec
CONSTANTS
    N = 3
    Limit = 2
    Retries = 2
    Framework = {nist, iso}
    Hole = Hole
    Old = Old
    Torn = Torn
INVARIANTS
    TypeOK
    ApiIsSpared
    StrictMeansMapped
PROPERTY KeepsPromise
CHECK_DEADLOCK FALSE
