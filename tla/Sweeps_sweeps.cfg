CONSTANTS
    Item <- McItem
    Home <- McHome
    Facts <- McFacts
    Gone <- McGone
    Whole <- McWhole
    EvidenceBucket <- McEvidenceBucket
    Walks <- AllWalks
    MaxSecretAge = 90
    MaxChanges = 2
    MaxPages = 2
    Budget = 4
    Reserve = 1
    MinTimeout = 1
SPECIFICATION McSpec
INVARIANTS TypeOK LastingFlawFails QuietSweepIsExact
PROPERTY SweepEnds
CHECK_DEADLOCK FALSE
