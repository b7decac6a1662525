CONSTANTS
    Request = {r1, r2}
    SecretId = {s1, s2}
    Name = {n1}
    Value = {a, b}
    Due = {FALSE}
    None = None
    MaxSequence = 3
SPECIFICATION Spec
INVARIANTS
    HeadNeverStale
    AckedWriteDurable
    AuditExplainsState
    RevealAuditedAndCurrent
PROPERTIES
    ImplementsStore
