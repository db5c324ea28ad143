\* Two goroutines, two messages in batches, one published alone and perhaps
\* once more; with and without confirm mode.
CONSTANTS
    T = {t1, t2}
    MaxSize = 1
    MaxBatched = 2
    MaxSingle = 1
    MaxRetries = 1
SPECIFICATION FairSpec
INVARIANTS
    TypeOK
    ConfirmedMeansAcked
    FlushInOrder
    LostOnlyBehindAFailure
    BatchBounded
PROPERTIES
    CallsReturn
