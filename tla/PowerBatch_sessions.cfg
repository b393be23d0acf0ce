SPECIFICATION Spec
CONSTANTS
  Job = {j1, j2}
  Target = {t1}
  Account = {a1}
  Owner <- SharedOwner
  Action = {"poweron", "reboot"}
  MaxFaults = 0
  MaxStarts = 1
  MayStop = FALSE
  NoJob = NoJob
  NoTarget = NoTarget
SYMMETRY JobSymmetry
INVARIANTS PowerComesFirst
