SPECIFICATION Spec
CONSTANTS
    Starter = {s1}
    Restorer = {web}
    Channel = web
    Request = {q1, q2}
    a1 = a1
    a2 = a2
    Archive = {a1, a2}
    Stream <- MCStream
    ChunkSizes = {2, 3}
    Key = Key
    WrongKey = WrongKey
    None = None
    RECORD_HEADER_BYTES = 2
    MAX_LOGICAL_RECORD_BYTES = 2
    MAX_RECORDS = 2
    MaxFiles = 2
    MaxCommands = 1
    MaxCrashes = 2
INVARIANTS VerdictExact RestoredIsConfirmed ReadyMeansWhole ReadyVaultOpens
PROPERTIES ReadyVaultStays ChannelCloses InstallationSettles
