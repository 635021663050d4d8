SPECIFICATION Spec
CONSTANTS
  RxTx = {n1}
  TxReq = {n2}
  WithId = {n1}
  MessageIds = {i1, i2}
  NoId = any
  Waits = TRUE
  RegisterIn = {"Online"}
  UnregisterIn = {"Online"}
  InCallback = {"register"}
  Uses = {"networks", "ids", "keeps"}
  FederateHandle = 1
  MaxHandles = 3
  MaxMessages = 1
  MaxObjects = 1
  MaxJoins = 2
CHECK_DEADLOCK FALSE
INVARIANTS TypeOK FiltersAreExact HandlersGetMessages RequestedBySelfIsRight
