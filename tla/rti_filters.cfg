SPECIFICATION Spec
CONSTANTS
  NoValue = none
  Federates = {f1, f2}
  Values = {v1, v2}
  Leavers = {f1}
  Parameters <- MCParameters
  Filters <- Three
  Dropped <- Three
INVARIANTS TypeOK MatchesAreExact
PROPERTY PromiseKept
CHECK_DEADLOCK FALSE
