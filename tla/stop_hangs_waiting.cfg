SPECIFICATION FairSpec
CONSTANTS
  WaitForMeasurementInit = TRUE
  RejoinOnMeasurementStop = TRUE
  TimeManaged = FALSE
  SlowCallbacks = FALSE
  MaxStarts = 1
  MaxFaults = 0
  MaxData = 0
PROPERTY StopReturns
CHECK_DEADLOCK FALSE
