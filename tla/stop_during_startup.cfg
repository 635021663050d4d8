SPECIFICATION Spec
CONSTANTS
  WaitForMeasurementInit = FALSE
  RejoinOnMeasurementStop = TRUE
  TimeManaged = FALSE
  SlowCallbacks = FALSE
  MaxStarts = 1
  MaxFaults = 0
  MaxData = 0
INVARIANT StopEndsThread
CHECK_DEADLOCK FALSE
