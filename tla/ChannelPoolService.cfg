\* Three goroutines on two channels, one kept idle, no deadline, nothing fails.
CONSTANTS
    G = {g1, g2, g3}
    Chan = {c1, c2}
    None = None
    ChannelPoolSize = 2
    ChannelPoolMaxIdle = 1
    Deadlines = {}
    Upsets <- NoUpsets
SPECIFICATION FairSpec
PROPERTIES
    WaiterServed
