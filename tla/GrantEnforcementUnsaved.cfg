SPECIFICATION Spec
CONSTANTS
  Handlers = {h1}
  Evals = {}
  Owners = {}
  Gateway = Gateway
  ReceiptIds = {r1, r2}
  ApprovalIds = {}
  Actions = {chat}
  Permitted = {chat}
  Costs = {1}
  Limit = 2
  Threshold = 0
  Half = 64
  NoId = NoId
  NoCopy = NoCopy
  NoRequest = NoRequest
  Overlap = FALSE
  SaveFails = TRUE
  ReadFails = FALSE
SYMMETRY IdSymmetry
CHECK_DEADLOCK FALSE
INVARIANTS ReceiptedAndCounted
