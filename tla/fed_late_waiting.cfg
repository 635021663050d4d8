SPECIFICATION Spec
CONSTANTS
  Federates = {"canoe", "sut"}
  Waiting = {"sut"}
  Starters = {"canoe"}
  MaxUntimely = 1
  MaxMeasurements = 1
  MaxStops = 0
  MaxLeaves = 0
  MaxIndex = 5
PROPERTY WaitersCatchUp
CHECK_DEADLOCK FALSE
