\* The helper with a plain connection; one reconnect, its own.
CONSTANTS
    N = 1
    Pooled = FALSE
    Loops = {"helper"}
    Policies <- DefaultOnly
    OthersRedial = FALSE
    MaxLinks = 2
    MaxTries = 0
SPECIFICATION Spec
CHECK_DEADLOCK FALSE
INVARIANTS
    EndsOnlyWhenTold
