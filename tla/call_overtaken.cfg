SPECIFICATION Spec
CONSTANTS
  a = a
  Consumers = {a}
  Methods = {"setOneWay"}
  TxTrigger = "OnChange"
  Answers = TRUE
  Releases = FALSE
  MaxValue = 2
  MaxWrites = 1
  MaxCalls = 1
INVARIANT ConsumersConverge
CHECK_DEADLOCK FALSE
