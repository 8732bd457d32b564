\* Two workers, five tosses in chunks of two, a queue of two; the master and a
\* worker may be paused once each, and the program stopped.
SPECIFICATION FairSpec
CONSTANTS
    w1 = w1
    w2 = w2
    Workers = {w1, w2}
    N = 5
    C = 2
    QueueCap = 2
    MasterPauses = 1
    WorkerPauses = 1
    MayStop = TRUE
INVARIANTS
    ChunkConserved
    SumExact
PROPERTY
    EndsUnlessStranded
CHECK_DEADLOCK FALSE
