SPECIFICATION FairSpec
CONSTANTS
  agent = agent
  admin = admin
  Handlers = {h1, h2}
  Tokens <- MCTokens
  Users = {agent, admin}
  Approvers = {admin}
  Keys = {k1}
  Objectives = {o1}
  LeaseIds = {l1, l2}
  Policies <- MCOpenStrict
  Windows = {1}
  MaxSerial = 1
  MaxTime = 2
  Revocable = {}
  NoLease = NoLease
  NoPolicy = NoPolicy
  NoRequest = NoRequest
  NoCert = NoCert
  Nobody = Nobody
  None = None
INVARIANTS ApprovalHonoured OneLeasePerKey
PROPERTY LockIsReleased
