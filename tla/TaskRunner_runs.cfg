SPECIFICATION Spec
CONSTANTS
  Account = {a1}
  Kind = {"pc", "redeem"}
  Run = {r1, r2}
  Caller = {c1}
  Admin = {h1}
  Attempts = 2
  Actors = {"update", "crash", "power"}
  NoRun = NoRun
SYMMETRY Symmetry
INVARIANTS SlotExclusive PreparedQuiescent RowsAreTracked PowerExclusive
PROPERTY ImplementsLedger
