SPECIFICATION Spec
CONSTANTS
    SETLIST_BATCH = 2
    StackCapacity = 32
    Programs <- AssignPrograms
    Globals <- MCGlobals
INVARIANT BehavesLikeLua
