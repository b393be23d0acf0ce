SPECIFICATION Spec
CONSTANTS
  Job = {j1}
  Target = {t1, t2}
  Account = {a1}
  Owner <- SharedOwner
  Action = {"poweron", "shutdown"}
  MaxFaults = 1
  MaxStarts = 0
  MayStop = TRUE
  NoJob = NoJob
  NoTarget = NoTarget
INVARIANTS HistoryIsTrue RefusalRestoresHold OpenItemsAreTracked
PROPERTIES BatchesEnd ShutdownStays ImplementsLedger
