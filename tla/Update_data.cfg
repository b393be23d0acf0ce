SPECIFICATION Spec
CONSTANTS
  MaxVersion = 3
  MaxWrites = 1
  Needs <- SomeNeeds
INVARIANT UpdateKeepsData
CHECK_DEADLOCK FALSE
