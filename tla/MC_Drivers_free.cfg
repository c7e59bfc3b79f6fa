CONSTANTS
    f1 = f1
    NoPath = NoPath
    NOENT = NOENT
    MAX_READ_COUNT = 3
    MAX_WRITE_COUNT = 3
    MAX_OPS_PER_COMPOUND = 2
    OpsPerComp = 2
    NumOps = 5
    BlockSize = 4
    WordBits = 8
    Rw = 0
    T6BArgs <- MCT6BArgs
    T6MArgs <- MCT6MArgs
    T6MaxBlock = 8
    T6MaxOpts = 3
    T6WordBits = 5
    KdNArgs <- MCKdNArgs
    KdMArgs <- MCKdMArgs
    KdMaxCount = 4
SPECIFICATION Spec
INVARIANT DaemonFreesOnlyLiveBlocks
