\* Two units, two tasks each, competing for the same worker: the life of a FIFO
\* through enqueue, ack, dead-letter, tombstone and revival, stale handles, what
\* Claim picks, and that leases of different units are never confused.
SPECIFICATION Spec
CONSTANTS
  Keys = {1, 2}
  Workers = {w1}
  None = None
  Threshold = 3
  MaxWait = 1
  MaxAttempts = 2
  LeaseDurs = {1}
  Costs = {1, 3}
  MaxTasks = 2
  MaxClaims = 3
  MaxNow = 2
INVARIANTS
  TypeOK
  FifoIntact
  AggregateExact
  FlushClock
  GateExact
  LeaseExclusive
PROPERTIES
  LostStaysLost
  ImplementsContract
