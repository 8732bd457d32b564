\* Safety of the lock table: three workers, three clients, two buckets.
SPECIFICATION Spec
CONSTANTS
    w1 = w1
    w2 = w2
    w3 = w3
    a = a
    b = b
    c = c
    Workers = {w1, w2, w3}
    Tids = {11, 21, 31}
    Owner <- OneClientEach
    Names <- MCNames
    DiskSize = 2
    Bucket <- MCBucket
    SlotCount = 8
    MaxHolders = 3
    Program <- ThreeProgram
SYMMETRY MCSymmetry
INVARIANTS
    HoldersMatchTxns
    ExclusiveExecution
    NoLostWakeup
    WaitsUpward
    CommitReleasesAll
PROPERTIES
    NoOvertaking
    ImplementsRWLocks
    CatalogStable
