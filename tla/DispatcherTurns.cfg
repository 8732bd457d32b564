\* Two clients that take turns in two phases, two workers, a queue of three.
SPECIFICATION FairSpec
CONSTANTS
    w1 = w1
    w2 = w2
    Clients = {1, 2}
    Workers = {w1, w2}
    Script <- PhasedScript
    QueueCap = 3
    ExpectedShutdowns = 2
INVARIANT StopsLast
PROPERTIES
    ImplementsTurnTaking
    AllServed
CHECK_DEADLOCK FALSE
