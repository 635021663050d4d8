SPECIFICATION Spec
CONSTANTS
  Configs = {{"constrained"}}
  Offsets = {0}
  Periods = {1}
  InitialTimes = {0}
  CreateWhen = {"joined"}
  CancelWhen = {}
  CancelsItself = FALSE
  ChangesPeriod = FALSE
  RequestsTimes = FALSE
  Idle = 2
  MaxOvershoot = 0
  MaxTimers = 1
  MaxTime = 3
  MaxEvents = 0
  MaxLeaves = 0
INVARIANT CyclicTimersAreQueued
CHECK_DEADLOCK FALSE
