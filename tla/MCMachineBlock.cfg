SPECIFICATION Spec
CONSTANTS
    SETLIST_BATCH = 2
    StackCapacity = 32
    Programs <- BlockPrograms
    Globals <- MCGlobals
INVARIANT BehavesLikeLua
