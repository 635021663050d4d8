SPECIFICATION Spec
CONSTANTS
  NoValue = none
  Federates = {f1}
  Values = {v1, v2}
  Leavers = {f1}
  Parameters <- MCParameters
  Filters <- Mixed
  Dropped <- Mixed

INVARIANT MatchesAreExact
CHECK_DEADLOCK FALSE
