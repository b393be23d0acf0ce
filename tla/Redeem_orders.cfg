SPECIFICATION Spec
CONSTANTS
  Target = {t1}
  NoTarget = NoTarget
  Starter = {s1, s2}
  MaxOrder = 2
  MaxDay = 2
SYMMETRY Symmetry
INVARIANTS OpenOrderBlocks OneAutomaticOrderADay LedgerIsTrue
CHECK_DEADLOCK FALSE
