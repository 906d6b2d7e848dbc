\* The program writes to a box that holds no pointers while it is marked.
SPECIFICATION PacedSpec
CONSTANTS
  MaxBox = 2
  Leaf = {1}
  MaxOut = 1
  MaxWeak = 0
  Methods = {"collect_debt", "mark_debt", "finalize"}
  MayPanic = TRUE
  Size <- SizeValue
  pacing <- Default
  Word = 65536
  Amounts = {1}
  MaxDebt = 1
  MaxExternal = 1
  LeafWrites = TRUE
\* A dropped arena stops.
CHECK_DEADLOCK FALSE
INVARIANTS
  NeverStalls
