SPECIFICATION Spec
CONSTANTS
  p = p
  c = c
  Providers = {p}
  Consumers = {c}
  Waiting = {}
  RegisterIn = {"Offline"}
  UnregisterIn = {"Online"}
  EarlyUnregister = FALSE
  MaxHandles = 1
  MaxValues = 2
  MaxLeaves = 0
PROPERTY UnregisteredIsSilent
CHECK_DEADLOCK FALSE
