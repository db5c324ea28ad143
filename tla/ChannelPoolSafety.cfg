\* Three goroutines, two channels at most, one kept idle, everything may fail.
CONSTANTS
    G = {g1, g2, g3}
    Chan = {c1, c2, c3}
    None = None
    ChannelPoolSize = 2
    ChannelPoolMaxIdle = 1
    Deadlines = {g1, g2, g3}
    Upsets <- AllUpsets
SYMMETRY Symmetric
SPECIFICATION Spec
INVARIANTS
    TypeOK
    ExclusiveLease
    PermitsBalanced
    OpenWithinLimit
    NoChannelLeaked
    ActiveTracksPermits
    ClosedPoolEmpties
PROPERTIES
    NothingShelvedAfterClose
    LeasePoolSpec
