CONSTANTS
    Request = {r1, r2}
    SecretId = {s1, s2}
    Name = {n1, n2}
    Value = {a}
    Due = {FALSE}
    None = None
    MaxSequence = 5
    Key = {k1}
SPECIFICATION IdemSpec
SYMMETRY Symmetric
INVARIANTS
    SuccessIsStored
    OneAnswerPerKey
