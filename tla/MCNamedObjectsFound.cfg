SPECIFICATION Spec
CONSTANTS
    Threads = {t1, t2}
    Names = {a}
    Types = {T, U}
    Blocks = {b1, b2, b3}
    Lengths = {1}
    None = None
INVARIANT FoundIsConstructed
