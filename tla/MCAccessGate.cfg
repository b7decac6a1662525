SPECIFICATION Spec
CONSTANTS
    Thread = {t1, t2}
    SessionId = {s1}
    CredentialId = {k1}
    PolicyId = {p1}
    None = None
    Operation = {"reveal", "logout", "issue", "revoke",
                 "create_policy", "archive_policy", "grant", "bind"}
    Expiry = {1}
    SESSION_IDLE_MS = 1
    SESSION_ABSOLUTE_MS = 2
    RECENT_AUTH_MS = 1
    MAX_ACTIVE_SESSIONS_PER_PRINCIPAL = 1
    MaxRevision = 3
    MaxClock = 3
SYMMETRY Symmetric
INVARIANTS
    NoUseAfterRevocation
    GrantedWhenUsed
PROPERTIES
    SessionsOnlyAdvance
