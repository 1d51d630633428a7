SPECIFICATION ManagerSpec
CONSTANTS
    Threads = {t1, t2}
    Names = {}
    None = None
    Managers = {m1, m2}
    Kernels = {k1, k2, k3}
    Allocators = {}
    Memory = {}
    ThrowsAmongOthers = TRUE
INVARIANT KernelAliveInside
