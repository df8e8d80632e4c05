CONSTANTS
    Malformed <- McMalformed
    Absent <- McAbsent
    Nothing <- McNothing
    MaxSecretAge = 90
    Labs = {"16"}
    Rows <- McRows
    Heads <- McHeads
    Environments <- McEnvironments
    Today = 90
    Horizon = 90
    MaxRows <- McMaxRows
    MaxHandOvers = 1
SPECIFICATION Spec
INVARIANT UnexpectedDriftFails
CHECK_DEADLOCK FALSE
