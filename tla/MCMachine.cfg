SPECIFICATION Spec
CONSTANTS
    SETLIST_BATCH = 2
    StackCapacity = 32
    Programs <- MCPrograms
    Globals <- MCGlobals
INVARIANTS CodeIsClosed BehavesLikeLua RegistersInBounds OpenUpvaluesAreLive
PROPERTIES Terminates
