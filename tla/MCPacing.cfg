\* Two boxes, the second twice as large; traces may panic.
SPECIFICATION PacedSpec
CONSTANTS
  MaxBox = 2
  Leaf = {}
  MaxOut = 1
  MaxWeak = 0
  Methods = {"collect_debt", "mark_debt", "cycle_debt", "finalize"}
  MayPanic = TRUE
  Size <- SizeValue
  pacing <- Default
  Word = 65536
  Amounts = {1}
  MaxDebt = 1
  MaxExternal = 1
  LeafWrites = FALSE
\* A dropped arena stops.
CHECK_DEADLOCK FALSE
INVARIANTS
  NeverStalls
  IInv
  MarkedIsComplete
PROPERTIES
  DebtIsPaid
  CollectReturns
