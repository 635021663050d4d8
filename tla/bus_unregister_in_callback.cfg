SPECIFICATION Spec
CONSTANTS
  RxTx = {n1}
  TxReq = {n2}
  WithId = {n1}
  MessageIds = {i1}
  NoId = any
  Waits = TRUE
  RegisterIn = {"Connected", "Online"}
  UnregisterIn = {"Online"}
  InCallback = {"register", "unregister"}
  Uses = {"networks"}
  FederateHandle = 1
  MaxHandles = 2
  MaxMessages = 2
  MaxObjects = 1
  MaxJoins = 1
CHECK_DEADLOCK FALSE
INVARIANT NoIteratorDangles
