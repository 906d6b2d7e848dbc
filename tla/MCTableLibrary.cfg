SPECIFICATION Spec
CONSTANTS
    Vals = {1, 2, 3}
    MinInt <- MinIntValue
    MaxInt = 5
    MaxLen = 5
    Comps = {"default", "order", "any"}
    Mutates = TRUE
INVARIANTS LibraryAgrees SortInBounds SortSorts
PROPERTIES SortEnds
