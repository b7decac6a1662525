SPECIFICATION Spec
CONSTANTS
    Thread = {t1, t2}
    SessionId = {s1, s2}
    Passkey = {p1}
    None = None
    CEREMONY_LIFETIME_MS = 1
    MAX_PENDING_CEREMONIES = 2
    RECENT_AUTH_MS = 1
    MaxCeremonies = 3
    MaxCounter = 2
    MaxClock = 2
SYMMETRY Symmetry
INVARIANTS CeremonyServesOnce
PROPERTIES CounterNeverBack BusyOnlyWhenFull PendingKept
