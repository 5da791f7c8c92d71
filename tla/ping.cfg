CONSTANTS
  Intervals = {3}
  Timeouts = {1, 4}
  MaxDelay = 1
  Capacity = 2
  MaxTime = 15
SPECIFICATION Spec
CHECK_DEADLOCK FALSE
INVARIANTS
  NeverTimesOut
  SilenceDetected
