SPECIFICATION Spec
CONSTANTS
  a = a
  Consumers = {a}
  Methods = {"get"}
  TxTrigger = "OnChange"
  Answers = TRUE
  Releases = FALSE
  MaxValue = 1
  MaxWrites = 1
  MaxCalls = 1
PROPERTY ReturnUpdatesValue
CHECK_DEADLOCK FALSE
