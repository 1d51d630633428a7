SPECIFICATION FilesSpec
CONSTANTS
    s1 = s1
    s2 = s2
    l2 = l2
    t1 = t1
    t2 = t2
    NoThread = NoThread
    NoFile = NoFile
    Threads = {t1, t2}
    SmallBins = {s1, s2}
    LargeBins = {l2}
    NumSlots <- MCNumSlots
    NumChunks <- MCNumChunks
    MaxNumChunks = 3
    BlockChunks = 1
    Capacity = 2
    BatchSizes = {1, 2}
    ManyThreshold = 2
INVARIANTS
    SurvivesReopen
    NoOverlap
    SlotsAccounted
    BinListsExact
    FreedPagesUnused
    InsideSegment
SYMMETRY ThreadSymmetry
