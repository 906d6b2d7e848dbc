\* Two boxes with strong and weak pointers, a host that keeps calling
\* finish_cycle, and trace methods that may panic.
SPECIFICATION FairSpec
CONSTANTS
  MaxBox = 2
  Leaf = {}
  MaxOut = 1
  MaxWeak = 1
  Methods <- AllMethods
  MayPanic = TRUE
\* A dropped arena stops.
CHECK_DEADLOCK FALSE
INVARIANTS
  NoDangling
  WeakHeaderValid
  ListIsAlloc
PROPERTIES
  DeadValuesAreDropped
  DeadBoxesAreFreed
