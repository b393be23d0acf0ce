SPECIFICATION Spec
CONSTANTS
  MaxVersion = 3
  MaxWrites = 2
  Needs <- SomeNeeds
INVARIANTS NoDowngrade RollbackRestores UnprovenCanBeUndone ResultIsTrue
CHECK_DEADLOCK FALSE
PROPERTY ImplementsTrial
