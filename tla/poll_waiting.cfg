SPECIFICATION Spec
CONSTANTS
  WaitForMeasurementInit = TRUE
  RejoinOnMeasurementStop = TRUE
  TimeManaged = TRUE
  SlowCallbacks = TRUE
  MaxStarts = 2
  MaxFaults = 1
  MaxData = 1
INVARIANT SynchronizedStart
CHECK_DEADLOCK FALSE
