CONSTANTS
    MaxLines = 2
    MaxSeq = 3
    N = 4
    Cap = 2
    Base = 2
    Passes = 2
    MaxLength = 5
    MaxRanks = 4
    CACHE_L1_SIZE = 4
    MaxN = 45
    MaxP = 3
    ClientIds = {1, 2}
    Blocks <- MCBlocks
    MaxBlocks = 3
SPECIFICATION FairSpec
INVARIANTS
    StatisticsRight
    RadixRight
    SieveRight
    ParsersAgree
PROPERTIES
    ConversationEnds
    PipelineEnds
    ImplementsLsdSort
CHECK_DEADLOCK FALSE
