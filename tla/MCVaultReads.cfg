CONSTANTS
    Request = {r1}
    SecretId = {s1, s2}
    Name = {n1, n2}
    Value = {a}
    Due = {TRUE}
    None = None
    MaxSequence = 4
    Reader = {d1}
    PageLength = 2
SPECIFICATION ReadSpec
SYMMETRY Symmetric
INVARIANTS ListComplete NoFalseTamperAlarm
