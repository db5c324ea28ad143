\* Both loops with a pool of three connections and six policies; two
\* reconnects, by the loop or by somebody else, and seven attempts.
CONSTANTS
    N = 3
    Pooled = TRUE
    Loops = {"helper", "manager"}
    Policies <- SomePolicies
    OthersRedial = TRUE
    MaxLinks = 3
    MaxTries = 6
SPECIFICATION FairSpec
\* The helper ends, and the manager stops at the bound MaxTries.
CHECK_DEADLOCK FALSE
INVARIANTS
    TypeOK
    WithinPolicy
    ForwarderStuckOnlyByThree
PROPERTIES
    NilOnlyWhenDown
    HelperReacts
