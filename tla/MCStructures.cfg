SPECIFICATION AllSpec
SYMMETRY Symmetry
CONSTANTS
    Directories = {c, d}
    Names = {a}
    Offsets = {o1, o2}
    Descriptions = {"x", "y"}
    Nodes = {n1, n2}
    None = None
    NoName = NoName
    SmallBins = {"s3"}
    LargeBins = {"l1", "l2", "l3"}
    NumSlots <- MCNumSlots
    NumChunks <- MCNumChunks
    MaxNumChunks = 4
    k_block_size = 2
    Capacities = {1, 3, 4, 5, 8}
    OpenCapacity = 8
    Requests = {1, 3, 4, 5, 8}
INVARIANTS
    IndexesExact
    
    CountExact
    SizeCoversUse
    
    BitsExact
    SizesRight
PROPERTIES
    ImplementsEntries
    EraseIsExact
    ReleasedCanBeOpened
