SPECIFICATION FairSpec
CONSTANTS
    s1 = s1
    s2 = s2
    s3 = s3
    l1 = l1
    l2 = l2
    t1 = t1
    t2 = t2
    t3 = t3
    NoThread = NoThread
    Threads = {t1, t2}
    SmallBins = {s1}
    LargeBins = {l2}
    NumSlots <- MCNumSlots
    NumChunks <- MCNumChunks
    MaxNumChunks = 3
    BlockChunks = 2
    Capacity = 2
    BatchSizes = {1,2}
    ManyThreshold = 2
PROPERTIES
    CallsReturn
