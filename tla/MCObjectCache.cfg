SPECIFICATION MCSpec
CONSTANTS
    NullOffset = NullOffset
    Caches = {1}
    Bins = {0, 1}
    Object = {1, 2, 3, 4}
    BinOf <- BinOfObject
    ObjectSize <- SizeOfBin
    BatchSize <- BatchOfBin
    k_capacity = 2
    NumBlocks = 3
    MaxCacheSize = 4
INVARIANTS
    CacheExact
    DeallocatedMeansUnused
PROPERTIES
    ImplementsPool
    SharedCaches
