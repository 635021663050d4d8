SPECIFICATION Spec
CONSTANTS
  p = p
  c = c
  Providers = {p}
  Consumers = {c}
  Waiting = {}
  RegisterIn = {"Offline"}
  UnregisterIn = {"Online"}
  EarlyUnregister = TRUE
  MaxHandles = 1
  MaxValues = 0
  MaxLeaves = 0
INVARIANTS ObjectsHaveRegistrations
CHECK_DEADLOCK FALSE
