\* Two workers on one unit, batches of up to two out of three tasks, two faults; one worker
\* at least stays up.
SPECIFICATION FairSpec
CONSTANTS
  Keys = {k1}
  LeaseTokens = {1, 2, 3}
  NoToken = NoToken
  Threshold = 2
  Costs = {1}
  MaxTasks = 3
  Workers = {w1, w2}
  NoHandle = NoHandle
  Batch = 2
  MaxFaults = 2
  MinUp = 1
INVARIANTS
  PoolTypeOK
  InOrder
  AckedWasProcessed
  HolderAligned
  RedeliveryBounded
PROPERTIES
  EveryTaskDrained
