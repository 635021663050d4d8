SPECIFICATION FairSpec
CONSTANTS
  Configs = {{"regulation", "constrained"}, {"interpolation"}}
  Offsets = {0}
  Periods = {2, 3}
  InitialTimes = {1}
  CreateWhen = {"out"}
  CancelWhen = {"online"}
  CancelsItself = FALSE
  ChangesPeriod = FALSE
  RequestsTimes = FALSE
  Idle = 2
  MaxOvershoot = 0
  MaxTimers = 3
  MaxTime = 5
  MaxEvents = 1
  MaxLeaves = 0
PROPERTY TimersOnTime
PROPERTY TimersInOrder
PROPERTY CanceledIsSilent
PROPERTY QueuedTimersFire
CHECK_DEADLOCK FALSE
