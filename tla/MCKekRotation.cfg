SPECIFICATION Spec
CONSTANTS
    Object = {o1, o2}
    Provider = {p1, p2}
    FirstProvider = p1
    None = None
    AuxiliaryRows = 2
    MaxKeyVersion = 2
    MaxRow = 2
    MaxObjectVersion = 2
    MaxBatches = 1
    BatchSize = 2
    MaxCrashes = 1
    Thread = {t1}
    Operation <- Everything
INVARIANTS
    Reopenable
    RingMatchesRegistry
