SPECIFICATION Spec
CONSTANTS
    SETLIST_BATCH = 2
    StackCapacity = 32
    Programs <- WindowPrograms
    Globals <- MCGlobals
INVARIANT RegistersInBounds
