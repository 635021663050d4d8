SPECIFICATION Spec
CONSTANTS
  Configs = {{"regulation", "constrained"}}
  Offsets = {0, 1}
  Periods = {1, 2}
  InitialTimes = {0, 1}
  CreateWhen = {"out", "online"}
  CancelWhen = {"online"}
  CancelsItself = FALSE
  ChangesPeriod = TRUE
  RequestsTimes = TRUE
  Idle = 2
  MaxOvershoot = 0
  MaxTimers = 2
  MaxTime = 3
  MaxEvents = 0
  MaxLeaves = 1
INVARIANT TypeOK
INVARIANT CyclicTimersAreQueued
CHECK_DEADLOCK FALSE
