SPECIFICATION Spec
CONSTANTS
  Account = {a1}
  Session = {s1, s2}
  Request = {w1}
  Scheduler = clock
  NoSession = NoSession
  MaxChanges = 2
  MaxLost = 1
INVARIANT UsageStaysConnected
