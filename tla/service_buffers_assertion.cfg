SPECIFICATION Spec
CONSTANTS
  WaitForMeasurementInit = FALSE
  RejoinOnMeasurementStop = TRUE
  TimeManaged = TRUE
  SlowCallbacks = FALSE
  MaxStarts = 1
  MaxFaults = 0
  MaxData = 0
INVARIANT ServiceBuffersAssertion
CHECK_DEADLOCK FALSE
