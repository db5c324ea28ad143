\* Three messages, two workers, one retry; all four ways to consume, with
\* and without autoAck.
CONSTANTS
    Msg = {m1, m2, m3}
    W = {w1, w2}
    Main = main
    None = none
    MaxRetries = 1
    Modes <- AllModes
SPECIFICATION FairSpec
\* A call that has returned leaves nothing to do.
CHECK_DEADLOCK FALSE
INVARIANTS
    TypeOK
    OneOwner
    AtLeastOnce
    CleanStop
PROPERTIES
    CallReturns
