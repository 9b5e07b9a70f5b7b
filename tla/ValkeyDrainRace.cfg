\* Two workers, no failing command.
SPECIFICATION Spec
CONSTANTS
  Keys = {1}
  Procs = {p1}
  Ids = {w0, w1}
  None = None
  Threshold = 2
  MaxWait = 1
  MaxAttempts = 2
  LeaseDurs = {1}
  Costs = {1, 2}
  Batch = 1
  Lag = 0
  MaxTasks = 2
  MaxClaims = 2
  MaxNow = 2
  MaxFaults = 0
INVARIANTS
  HolderAligned
