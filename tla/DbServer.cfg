\* Two clients, one of which may die, and two workers.
SPECIFICATION FairSpec
CONSTANTS
    w1 = w1
    w2 = w2
    a = a
    Clients = {1, 2}
    Workers = {w1, w2}
    Script <- MixedScript
    Text <- MixedText
    QueueCap = 4
    ExpectedShutdowns = 2
    Names <- MCNames
    DiskSize = 1
    Bucket <- MCBucket
    SlotCount = 16
    MaxHolders = 2
    Mortal = {1}
INVARIANT TurnsAndLocksAgree
PROPERTIES
    ImplementsLockManager
    AnsweredUnlessAbandoned
CHECK_DEADLOCK FALSE
