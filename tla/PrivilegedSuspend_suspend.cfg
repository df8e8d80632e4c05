SPECIFICATION Spec
CONSTANTS
    admin = admin
    clerk = clerk
    ops = ops
    root = root
    k1 = k1
    k2 = k2
    r1 = r1
    User = {admin, clerk}
    Role = {ops}
    Opaque = {root}
    Key = {k1, k2}
    Owner <- KeyOwner
    Detected = {admin, root}
    LabPath = {admin, ops}
    Run = {r1}
    Asks <- AllAsks
    MaxTries = 3
INVARIANTS
    TypeOK
    PassIsContained
    FailIsAlerted
PROPERTY SuspensionIsWarranted
CHECK_DEADLOCK FALSE
