SPECIFICATION FairSpec
CONSTANTS
  MaxVersion = 2
  MaxUpdates = 2
  MaxWrites = 1
  MaxErrors = 1
  MaxCrashes = 1
INVARIANTS ProgramIsWhole RollbackRestores ResultIsTrue
CHECK_DEADLOCK FALSE
PROPERTIES TransactionsClose ImplementsTrial
