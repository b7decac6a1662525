SPECIFICATION Spec
CONSTANTS
    Thread = {t1, t2, t3}
    Request <- Every
SYMMETRY ThreadSymmetry
INVARIANTS
    NoDeadlock
