\* Three clients of which two take turns and vote, two workers, a queue of three.
SPECIFICATION FairSpec
CONSTANTS
    w1 = w1
    w2 = w2
    Clients = {1, 2, 3}
    Workers = {w1, w2}
    Script <- ExtraScript
    QueueCap = 3
    ExpectedShutdowns = 2
INVARIANTS
    OneCopy
    NeverFull
PROPERTY ServerStops
CHECK_DEADLOCK FALSE
