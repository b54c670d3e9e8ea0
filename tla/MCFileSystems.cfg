SPECIFICATION FsSpec
CONSTANTS
    fileA = fileA
    fileB = fileB
    Names = {fileA, fileB}
    cluster_n = 3
    DataSize = 2
    Bytes <- MCBytes
    HostFiles <- MCHostFiles
    Skipped = Skipped
    MaxOpen = 2
    Torn = {fileB}
    Failures <- MCFailures
    Kfs2Images <- MCKfs2Images
    FileNames = {"one", "chain", "none"}
    Ambiguous = {"chain"}
    KFS2_MAX_FILES = 2
    KFS2_DATA_SZ = 2
    Ranges <- MCRanges
    Uninit = {0, 1, 99}
INVARIANTS
    ContentKept
    HandleKeepsFile
    KernelReadsWritten
    CacheCoherent
    Kfs2HandleKeepsFile
CHECK_DEADLOCK FALSE
