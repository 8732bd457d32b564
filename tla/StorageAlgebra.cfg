\* Relational operators: two small relations, results that can be too large.
SPECIFICATION Spec
CONSTANTS
    r = r
    s = s
    t = t
    p = p
    q = q
    x = x
    z = z
    DISKSIZE = 21
    BLKFAC = 2
    BLKMAX = 2
    OVBLKMAX = 1
    MAX_REL = 6
    Commands <- AlgebraCommands
    Hash <- MCHash
    Words <- MCWords
INVARIANT ResultsExact
