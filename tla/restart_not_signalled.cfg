SPECIFICATION FairSpec
CONSTANTS
  WaitForMeasurementInit = FALSE
  RejoinOnMeasurementStop = TRUE
  TimeManaged = FALSE
  SlowCallbacks = FALSE
  MaxStarts = 2
  MaxFaults = 0
  MaxData = 0
PROPERTY MessagesAreRetrieved
CHECK_DEADLOCK FALSE
