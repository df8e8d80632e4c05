SPECIFICATION MCSpec
CONSTANTS
    s1 = s1
    s2 = s2
    Event = {s1, s2}
    Labs <- AllLabs
    Misses <- AllGaps
    Payloads <- AllKinds
    MaxOffers = 5
    MaxTries = 3
INVARIANTS
    TypeOK
    AnswerIsEvidenced
    AlertIsEvidenced
    FindingIsEvidenced
    AnswerIsAnnounced
    UnconfiguredLeavesNothing
PROPERTIES
    EverySweepEnds
CHECK_DEADLOCK FALSE
