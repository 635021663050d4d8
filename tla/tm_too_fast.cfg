SPECIFICATION FairSpec
CONSTANTS
  Configs = {{"interpolation"}}
  Offsets = {0}
  Periods = {1}
  InitialTimes = {0}
  CreateWhen = {"out"}
  CancelWhen = {}
  CancelsItself = FALSE
  ChangesPeriod = FALSE
  RequestsTimes = FALSE
  Idle = 2
  MaxOvershoot = 0
  MaxTimers = 1
  MaxTime = 3
  MaxEvents = 1
  MaxLeaves = 1
PROPERTY QueuedTimersFire
CHECK_DEADLOCK FALSE
