CONSTANTS
    Malformed <- McMalformed
    Absent <- McAbsent
    Nothing <- McNothing
    MaxSecretAge = 90
    Labs = {"02", "03", "12", "13", "14", "15", "16", "17"}
    Rows <- McRows
    Heads <- McHeads
    Environments <- McEnvironments
    Today = 90
    Horizon = 91
    MaxRows <- McMaxRows
    MaxHandOvers = 2
SPECIFICATION Spec
INVARIANTS TypeOK AssuranceMatchesVerdict
PROPERTIES WorseNeverHelps ClaimsNeverDecide AnswerCatchesUp
CHECK_DEADLOCK FALSE
