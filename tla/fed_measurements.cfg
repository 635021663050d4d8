SPECIFICATION Spec
CONSTANTS
  Federates = {"canoe", "sut"}
  Waiting = {"sut"}
  Starters = {"canoe", "sut"}
  MaxUntimely = 1
  MaxMeasurements = 2
  MaxStops = 1
  MaxLeaves = 1
  MaxIndex = 2
INVARIANT TypeOK
INVARIANT SynchronizedMeansAll
PROPERTY FederatesMeet
PROPERTY ConnectEnds
PROPERTY NoFederationStaysBehind
CHECK_DEADLOCK FALSE
