SPECIFICATION FairSpec
CONSTANTS
  WaitForMeasurementInit = FALSE
  RejoinOnMeasurementStop = TRUE
  TimeManaged = FALSE
  SlowCallbacks = FALSE
  MaxStarts = 1
  MaxFaults = 1
  MaxData = 0
PROPERTY ConnectedIsTrue
CHECK_DEADLOCK FALSE
