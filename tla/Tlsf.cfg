SPECIFICATION Spec
CONSTANTS
    SIZE_ALIGN = 2
    MAX_LOG2_SLI = 1
    FLI_OFFSET = 1
    REAL_FLI = 5
    PoolSize = 28
    Request = {1, 4, 6, 10}
    Alignment = {4, 11}
    Thread <- MCThread
    Null = Null
INVARIANTS TypeOK BoundaryTags FullyMerged FreeLists SearchIsExact NothingLeaks
PROPERTY ImplementsHeap
