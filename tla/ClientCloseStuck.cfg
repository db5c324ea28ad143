\* Three goroutines, a pool of one connection with one channel; g1 asks with
\* a context that never ends.
CONSTANTS
    G = {g1, g2, g3}
    N = 1
    ChannelPoolSize = 1
    MaxDials = 1
    Modes <- PoolOnly
    Patient = {g1}
SPECIFICATION PromptSpec
PROPERTIES
    CloseReturns
CHECK_DEADLOCK FALSE
