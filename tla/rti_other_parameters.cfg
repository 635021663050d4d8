SPECIFICATION Spec
CONSTANTS
  NoValue = none
  Federates = {f1, f2}
  Values = {v1, v2}
  Leavers = {}
  Parameters <- MCParameters
  Filters <- Mixed
  Dropped <- Nothing

INVARIANT MatchesAreExact
CHECK_DEADLOCK FALSE
