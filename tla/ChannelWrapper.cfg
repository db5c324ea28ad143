\* Two wrappers over two channels, two goroutines, every kind of method the
\* documentation covers.  When both wrappers are used up nothing moves.
CONSTANTS
    W = {w1, w2}
    T = {t1, t2}
    Chan = {c1, c2}
    None = None
    Limit = 2
    Ops <- DocumentedOps
SPECIFICATION FairSpec
CHECK_DEADLOCK FALSE
INVARIANTS
    TypeOK
    MethodsUseOwnLease
    GivenBackOnce
    CleanLease
PROPERTIES
    CloseCompletes
