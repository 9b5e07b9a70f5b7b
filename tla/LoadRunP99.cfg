\* The worker command, whose log line reports the p99 every second.
SPECIFICATION Spec
CHECK_DEADLOCK FALSE
CONSTANTS
  Unset = Unset
  Malformed = Malformed
  None = None
  Commands = {"worker"}
  RawDurations = {Malformed, 1}
  RawWarmups = {Unset, 2}
  RawPollMins = {Unset, 0, 3}
  RawPollMaxs = {Unset, 0}
  Default <- MCDefault
  HarnessPoll <- MCHarnessPoll
  HasStater = TRUE
  Workers = {w1}
  w1 = w1
  HistBounds <- MCHistBounds
  Latencies = {1, 3, 5}
  QNum = 99
  QDen = 100
  Backlogs = {0, 1}
  MaxAcks = 3
  MaxIdle = 6
  MaxClock = 2
INVARIANT QuantileClose
