\* Everything that holds of the driver in every execution: two workers, Drains
\* that interleave and fail, stale clocks.
SPECIFICATION Spec
CONSTANTS
  Keys = {1}
  Procs = {p1}
  Ids = {w0, w1}
  None = None
  Threshold = 3
  MaxWait = 1
  MaxAttempts = 2
  LeaseDurs = {1}
  Costs = {1, 3}
  Batch = 2
  Lag = 1
  MaxTasks = 3
  MaxClaims = 2
  MaxNow = 2
  MaxFaults = 1
SYMMETRY IdSymmetry
INVARIANTS
  TypeOK
  StreamFifo
  PelIsDeliveredPrefix
  CountersExact
  NeverStranded
  LeasesListed
  FlushClock
