SPECIFICATION FairSpec
CONSTANTS
  a = a
  Consumers = {a}
  Methods = {"get", "set", "setOneWay"}
  TxTrigger = "OnUpdate"
  Answers = TRUE
  Releases = FALSE
  MaxValue = 1
  MaxWrites = 2
  MaxCalls = 2
INVARIANT TypeOK
INVARIANT ReturnIsFresh
PROPERTY EveryCallReturns
CHECK_DEADLOCK FALSE
