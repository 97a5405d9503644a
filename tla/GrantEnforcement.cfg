SPECIFICATION Spec
CONSTANTS
  Handlers = {h1, h2}
  Evals = {e1}
  Owners = {o1}
  Gateway = Gateway
  ReceiptIds = {r1, r2, r3}
  ApprovalIds = {a1}
  Actions = {chat}
  Permitted = {chat}
  Costs = {0, 2}
  Limit = 2
  Threshold = 2
  Half = 64
  NoId = NoId
  NoCopy = NoCopy
  NoRequest = NoRequest
  Overlap = FALSE
  SaveFails = TRUE
  ReadFails = TRUE
SYMMETRY IdSymmetry
CHECK_DEADLOCK FALSE
INVARIANTS ForwardedAccounted OverspendBounded CrossingApproved
PROPERTIES DecisionsStick RevocationEnforced
