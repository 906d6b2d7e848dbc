SPECIFICATION Spec
CONSTANTS
    SETLIST_BATCH = 2
    StackCapacity = 32
    Programs <- ReturnPrograms
    Globals <- MCGlobals
INVARIANT BehavesLikeLua
