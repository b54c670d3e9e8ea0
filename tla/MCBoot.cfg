SPECIFICATION BootSpec
CONSTANTS
    Width = 256
    LongBits = 8
    PageSize = 4
    Maps <- MCMaps
    Sizes = {0, 1, 4, 7, 251}
    MaxBlocks = 4
    WordSize = 4
    BufSize = 44
    Cleared = 16
    CmpLen = 22
    Garbage = {"NUL", "g"}
    Behind <- MCBehind
    BootInfos <- MCBootInfos
    Depth = 4
    Texts <- MCTexts
    IsrTexts <- MCIsrTexts
    MaxTexts = 2
    MaxIsrTexts = 3
INVARIANTS
    MapPrinted
    HeapIsLargestEntry
    BlocksDisjoint
    OnlyLastBlockOverruns
    OptionsTaken
    LineKeepsText
PROPERTY PrintingEnds
CHECK_DEADLOCK FALSE
