SPECIFICATION Spec
CONSTANTS
    None = None
    Parts = {"keys"}
INVARIANT KeysFoundAfterErase
