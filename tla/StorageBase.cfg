\* Base relations: two of at most six rows, on a disk that can fill up.
SPECIFICATION Spec
CONSTANTS
    r = r
    s = s
    t = t
    p = p
    q = q
    x = x
    z = z
    DISKSIZE = 10
    BLKFAC = 2
    BLKMAX = 2
    OVBLKMAX = 1
    MAX_REL = 4
    Commands <- BaseCommands
    Hash <- MCHash
    Words <- MCWords
INVARIANTS
    BlocksOwnedOnce
    DictionarySound
    DescribedUnlessFull
PROPERTIES
    ImplementsRelationStore
    RefusedOnlyWhenFull
    OnlyTheTarget
