SPECIFICATION Spec
CONSTANTS
  p = p
  c = c
  Providers = {p}
  Consumers = {c}
  Waiting = {}
  RegisterIn = {"InitFederate"}
  UnregisterIn = {}
  EarlyUnregister = FALSE
  MaxHandles = 1
  MaxValues = 0
  MaxLeaves = 0
INVARIANTS OneObjectPerRegistration
CHECK_DEADLOCK FALSE
