\* A master and three workers, and a picture of one to four rows.
SPECIFICATION FairSpec
CONSTANTS
    NProcs = 4
    MaxHeight = 4
INVARIANT NoMutualSend
PROPERTIES
    ImplementsTaskBag
    Terminates
CHECK_DEADLOCK FALSE
