SPECIFICATION Spec
CONSTANTS
  agent = agent
  admin = admin
  Handlers = {h1, h2}
  Tokens <- MCTokens
  Users = {agent}
  Approvers = {admin}
  Keys = {k1}
  Objectives = {o1}
  LeaseIds = {l1}
  Policies <- MCOpenStrict
  Windows = {2}
  MaxSerial = 2
  MaxTime = 2
  Revocable = {agent}
  NoLease = NoLease
  NoPolicy = NoPolicy
  NoRequest = NoRequest
  NoCert = NoCert
  Nobody = Nobody
  None = None
INVARIANTS SerialsNeverReused CertificatesInsideLease
PROPERTIES EndStopsSigning  ImplementsAuthority
SYMMETRY HandlerSymmetry
