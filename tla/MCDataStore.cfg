SPECIFICATION Spec
SYMMETRY Symmetry
CONSTANTS
    Paths = {p, q}
    Kernels = {k1, k2}
    Setups <- MCSetups
    FaultySteps = {"remove", "create_root", "create_mng", "create_segment", "write_metadata", "unmark", "open_segment", "deserialize", "snapshot_segment", "copy_mng", "mark", "release"}
INVARIANTS
    MarkedIsComplete
    UnmarkedWhileWritten
    
PROPERTIES
    SnapshotIsAnother
    
