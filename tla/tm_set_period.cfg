SPECIFICATION Spec
CONSTANTS
  Configs = {{"constrained"}}
  Offsets = {0}
  Periods = {1, 3}
  InitialTimes = {0}
  CreateWhen = {"out"}
  CancelWhen = {}
  CancelsItself = FALSE
  ChangesPeriod = TRUE
  RequestsTimes = FALSE
  Idle = 2
  MaxOvershoot = 0
  MaxTimers = 2
  MaxTime = 4
  MaxEvents = 0
  MaxLeaves = 0
PROPERTY TimersInOrder
CHECK_DEADLOCK FALSE
