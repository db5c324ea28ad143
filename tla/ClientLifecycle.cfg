\* Two goroutines, pools of two connections with one channel each, one
\* reconnect, both modes; every context ends.
CONSTANTS
    G = {g1, g2}
    N = 2
    ChannelPoolSize = 1
    MaxDials = 2
    Modes <- BothModes
    Patient = {}
SPECIFICATION FairSpec
INVARIANTS
    TypeOK
    NoConnectionLeaked
    PoolNotClosedUnderReader
    HealthTruthful
PROPERTIES
    GrantFromCurrent
    CloseReturns
