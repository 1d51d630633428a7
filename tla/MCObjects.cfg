SPECIFICATION AllSpec
CONSTANTS
    Threads = {"t1", "t2"}
    Names = {"a"}
    None = None
    Types = {"T", "U"}
    Blocks = {"b1", "b2", "b3"}
    Lengths = {1}
    Managers = {"m1", "m2"}
    Kernels = {"k1", "k2", "k3"}
    Allocators = {"a1", "a2"}
    Memory = {"x1", "x2"}
    ThrowsAmongOthers = FALSE
    Callers = {"c"}
    Paths = {"p", "q"}
    Handles = {"h1", "h2", "h3"}
INVARIANTS
    OneEntryPerObject
    
    KernelsKept
    FreedWhereAllocated
    
