SPECIFICATION Spec
CONSTANTS
  Configs = {{"constrained"}}
  Offsets = {0}
  Periods = {1}
  InitialTimes = {0}
  CreateWhen = {"out"}
  CancelWhen = {"online"}
  CancelsItself = TRUE
  ChangesPeriod = FALSE
  RequestsTimes = FALSE
  Idle = 2
  MaxOvershoot = 0
  MaxTimers = 1
  MaxTime = 3
  MaxEvents = 0
  MaxLeaves = 0
PROPERTY CanceledIsSilent
CHECK_DEADLOCK FALSE
