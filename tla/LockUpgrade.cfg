\* A transaction that prints a relation and then changes it.
SPECIFICATION Spec
CONSTANTS
    w1 = w1
    w2 = w2
    w3 = w3
    a = a
    b = b
    c = c
    Workers = {w1, w2}
    Tids = {11, 21}
    Owner <- OneClientEach
    Names <- MCNames
    DiskSize = 2
    Bucket <- MCBucket
    SlotCount = 8
    MaxHolders = 3
    Program <- UpgradeProgram
INVARIANT
    ConflictsSerialized
