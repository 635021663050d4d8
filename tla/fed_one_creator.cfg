SPECIFICATION Spec
CONSTANTS
  Federates = {"canoe", "sut", "sim"}
  Waiting = {"sut"}
  Starters = {"canoe"}
  MaxUntimely = 1
  MaxMeasurements = 2
  MaxStops = 1
  MaxLeaves = 0
  MaxIndex = 5
INVARIANT OneCreator
CHECK_DEADLOCK FALSE
