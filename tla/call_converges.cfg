SPECIFICATION Spec
CONSTANTS
  a = a
  b = b
  Consumers = {a, b}
  Methods = {"get", "set", "setOneWay"}
  TxTrigger = "OnChange"
  Answers = TRUE
  Releases = TRUE
  MaxValue = 2
  MaxWrites = 0
  MaxCalls = 1
INVARIANT ConsumersConverge
CHECK_DEADLOCK FALSE
