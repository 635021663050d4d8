SPECIFICATION FairSpec
CONSTANTS
  p = p
  c = c
  Providers = {p}
  Consumers = {c}
  Waiting = {p}
  RegisterIn = {"WaitForMeasurementInit"}
  UnregisterIn = {}
  EarlyUnregister = FALSE
  MaxHandles = 1
  MaxValues = 0
  MaxLeaves = 0
PROPERTY RegistrationsAreProcessed
CHECK_DEADLOCK FALSE
