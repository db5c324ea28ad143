\* Two goroutines on one channel, one of them with a deadline, everything may fail.
CONSTANTS
    G = {g1, g2}
    Chan = {c1, c2}
    None = None
    ChannelPoolSize = 1
    ChannelPoolMaxIdle = 1
    Deadlines = {g1}
    Upsets <- AllUpsets
SPECIFICATION FairSpec
PROPERTIES
    DeadlineHonoured
    CloseReturns
    CloseWakesWaiters
