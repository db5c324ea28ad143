\* Two goroutines on one channel; a borrower may discard its lease.
CONSTANTS
    G = {g1, g2}
    Chan = {c1}
    None = None
    ChannelPoolSize = 1
    ChannelPoolMaxIdle = 1
    Deadlines = {}
    Upsets <- OnlyDiscard
SPECIFICATION FairSpec
PROPERTIES
    BlockedOnlyAtLimit
