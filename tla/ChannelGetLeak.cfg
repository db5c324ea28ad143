\* A borrower that gets a message without automatic acknowledgement.
CONSTANTS
    W = {w1, w2}
    T = {t1}
    Chan = {c1}
    None = None
    Limit = 1
    Ops <- GetOps
SPECIFICATION Spec
CHECK_DEADLOCK FALSE
INVARIANTS
    CleanLease
