SPECIFICATION FairSpec
CONSTANTS
  p = p
  c = c
  Providers = {p}
  Consumers = {c}
  Waiting = {c}
  RegisterIn = {"Offline"}
  UnregisterIn = {"Offline", "Online"}
  EarlyUnregister = FALSE
  MaxHandles = 1
  MaxValues = 1
  MaxLeaves = 0
INVARIANT ObjectsHaveRegistrations
PROPERTY RegistrationsAreProcessed
PROPERTY TransmissionsAreSent
CHECK_DEADLOCK FALSE
