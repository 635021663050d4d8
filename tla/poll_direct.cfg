SPECIFICATION FairSpec
CONSTANTS
  WaitForMeasurementInit = FALSE
  RejoinOnMeasurementStop = TRUE
  TimeManaged = FALSE
  SlowCallbacks = FALSE
  MaxStarts = 1
  MaxFaults = 1
  MaxData = 0
INVARIANTS TypeOK NoLostWakeup ServicesResetBeforeJoin
PROPERTIES StartedComesOnline StopReturns StopIsFollowed MessagesAreRetrieved LostLinkRecovers
CHECK_DEADLOCK FALSE
