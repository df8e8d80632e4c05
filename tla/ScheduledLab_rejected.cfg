SPECIFICATION Spec
CONSTANTS
    s1 = s1
    s2 = s2
    Event = {s1}
    Labs <- FindingLabs
    Misses = {}
    Payloads <- AllKinds
    MaxOffers = 1
    MaxTries = 1
INVARIANTS
    FailHasFinding
CHECK_DEADLOCK FALSE
