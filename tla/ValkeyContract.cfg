\* Two units competing for one worker, positive costs, and no producer that
\* tops up a promoted unit.
SPECIFICATION SpecNoTopUp
CONSTANTS
  Keys = {1, 2}
  Procs = {p1}
  Ids = {w0}
  None = None
  Threshold = 3
  MaxWait = 1
  MaxAttempts = 2
  LeaseDurs = {1}
  Costs = {1, 3}
  Batch = 1
  Lag = 0
  MaxTasks = 2
  MaxClaims = 2
  MaxNow = 2
  MaxFaults = 0
PROPERTIES
  AgeFairClaim
  ImplementsContract
