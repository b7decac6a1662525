SPECIFICATION FairSpec
CONSTANTS
    Object = {o1, o2}
    Provider = {p1, p2}
    FirstProvider = p1
    None = None
    AuxiliaryRows = 1
    MaxKeyVersion = 2
    MaxRow = 2
    MaxObjectVersion = 1
    MaxBatches = 1
    BatchSize = 1
    MaxCrashes = 1
    Thread = {t1, t2}
    Operation <- SecretsAndRotation
INVARIANTS
    CheckpointBehindClean
    RetiredUnneededUnlessLate
    DekStaysWithRecord
    ReadersFindKeys
PROPERTIES
    RotationCompletes
