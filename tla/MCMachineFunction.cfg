SPECIFICATION Spec
CONSTANTS
    SETLIST_BATCH = 2
    StackCapacity = 32
    Programs <- FunctionStatementPrograms
    Globals <- MCGlobals
INVARIANT BehavesLikeLua
