SPECIFICATION SpecF
CONSTANTS
  Keys = {1}
  Workers = {w1, w2}
  None = None
  Threshold = 3
  MaxWait = 1
  MaxAttempts = 2
  LeaseDurs = {1}
  Costs = {1, 3}
  MaxTasks = 2
  MaxClaims = 3
  MaxNow = 3
INVARIANTS
  PoisonFailedItself
