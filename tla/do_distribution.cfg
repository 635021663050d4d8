SPECIFICATION Spec
CONSTANTS
  p = p
  c = c
  Providers = {p}
  Consumers = {c}
  Waiting = {}
  RegisterIn = {"Offline", "Online"}
  UnregisterIn = {}
  EarlyUnregister = FALSE
  MaxHandles = 1
  MaxValues = 2
  MaxLeaves = 1
INVARIANTS TypeOK TargetsConverge LastDataSurvives RemoteViewIsExact OneObjectPerRegistration
PROPERTY PromiseKept
CHECK_DEADLOCK FALSE
