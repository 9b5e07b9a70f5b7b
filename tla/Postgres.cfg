\* One unit, two callers in turn or at once, three tasks with and without a cost,
\* and statements that wait up to one instant.
SPECIFICATION Spec
CONSTANTS
  Keys = {1}
  None = None
  Threshold = 2
  MaxWait = 2
  MaxAttempts = 2
  LeaseDurs = {1}
  Costs = {0, 1}
  Batch = 2
  Lag = 1
  MaxTasks = 3
  MaxClaims = 2
  MaxNow = 3
INVARIANTS
  FifoIntact
  CostExact
  FlushClock
  GateExact
  StatsHonest
  PoisonFailedItself
  HolderAligned
PROPERTIES
  ImplementsContract
