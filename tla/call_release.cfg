SPECIFICATION FairSpec
CONSTANTS
  a = a
  Consumers = {a}
  Methods = {"get"}
  TxTrigger = "OnChange"
  Answers = TRUE
  Releases = TRUE
  MaxValue = 1
  MaxWrites = 0
  MaxCalls = 1
PROPERTY PopReturns
CHECK_DEADLOCK FALSE
