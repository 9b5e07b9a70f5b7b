\* Two units of a tenant on the second of two primaries, one with an endless
\* producer; two workers; a primary fails for a while or for good, or is reset.
SPECIFICATION Spec
CONSTANTS
  Keys = {1, 2}
  Workspaces = {a}
  WorkspaceOf <- TheTenant
  Hash <- SecondPrimary
  TenantT <- GateOne
  DefaultT = 2
  N = 2
  Workers = {w1, w2}
  Producers = {q1}
  None = None
  Hot = {2}
  MaxPending = 2
  MaxTasks = 1
  MaxFaults = 1
INVARIANTS
  OneHome
  TenantGate
PROPERTIES
  UnitsServed
  ReaperReaches
