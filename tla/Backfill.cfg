SPECIFICATION Spec
CONSTANTS
  Boots = {b1}
  Buttons = {m1}
  Lines = 3
  Window = 2
  Batch = 1
  Enough = 2
  StaleAfter = 1
  MaxExports = 2
INVARIANTS TypeOK CheckedIsWhole
CHECK_DEADLOCK FALSE
