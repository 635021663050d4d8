SPECIFICATION Spec
CONSTANTS
  RxTx = {n1}
  TxReq = {n1}
  WithId = {}
  MessageIds = {i1}
  NoId = any
  Waits = TRUE
  RegisterIn = {"Connected", "Online"}
  UnregisterIn = {"Online"}
  InCallback = {"register"}
  Uses = {"networks"}
  FederateHandle = 1
  MaxHandles = 3
  MaxMessages = 2
  MaxObjects = 1
  MaxJoins = 2
CHECK_DEADLOCK FALSE
INVARIANT HandlersGetMessages
