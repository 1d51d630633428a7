SPECIFICATION Spec
SYMMETRY Symmetry
CONSTANTS
    Paths = {p, q}
    Kernels = {k1, k2}
    Setups <- OneSetup
    FaultySteps = {"allocator"}
INVARIANT MarkedIsComplete
