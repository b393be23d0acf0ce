SPECIFICATION FairSpec
CONSTANTS
  Account = {a1}
  Kind = {"login"}
  Run = {r1}
  Caller = {c1}
  Admin = {h1}
  Attempts = 1
  Actors = {"close", "crash", "buttons", "update", "toggles", "forms"}
  NoRun = NoRun
INVARIANTS CleanExit ToggleStopsRuns
PROPERTIES OpenRowsClose PreparationDecides
