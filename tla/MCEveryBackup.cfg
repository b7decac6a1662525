SPECIFICATION Spec
CONSTANTS
    Namespace = {n1, n2, n3, n4}
    Secret = {s1}
    Service = {v1}
    Credential = {c1}
    Policy = {p1}
    None = None
    MAX_NAMESPACE_DEPTH = 2
    MaxVersion = 2
    MaxRows = 9
    MaxEpoch = 1
SYMMETRY Symmetry
INVARIANTS EveryBackupRestores
CHECK_DEADLOCK FALSE
