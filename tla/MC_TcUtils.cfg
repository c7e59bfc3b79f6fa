CONSTANTS
    f1 = f1
    NoPath = NoPath
    NOENT = NOENT
    EIO = EIO
    Files <- MCFiles
    NULL <- NoPath
    Errors <- MCErrors
    MAX_READ_COUNT = 3
    MAX_WRITE_COUNT = 3
    MAX_OPS_PER_COMPOUND = 2
    MaxBatch = 4
SPECIFICATION FairSpec
INVARIANT TypeOK
INVARIANT NoPathCopyLeak
PROPERTY ImplementsTcCall
