SPECIFICATION Spec
CONSTANTS
  a = a
  b = b
  Consumers = {a, b}
  Methods = {"get"}
  TxTrigger = "OnChange"
  Answers = TRUE
  Releases = FALSE
  MaxValue = 1
  MaxWrites = 0
  MaxCalls = 1
INVARIANT ReturnMatchesCall
CHECK_DEADLOCK FALSE
