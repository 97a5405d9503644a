SPECIFICATION Spec
CONSTANTS
  me = me
  admin = admin
  Procs = {c1, c2}
  LeaseIds = {1}
  Tokens = {me, admin}
  Me = me
  Keys = {k1}
  Objectives = {o1}
  Policies <- BothPolicies
  HardTTL = 2
  CertTTL = 1
  RenewBefore = 1
  MaxTime = 2
  MaxCerts = 2
  Faults = TRUE
  Lossy = TRUE
  Crashes = TRUE
  NoLease = NoLease
  None = None
  NoDir = NoDir
  NoCommand = NoCommand
SYMMETRY Commands
INVARIANTS TypeOK KeyGoneForGood 
PROPERTIES NoSessionAfterEnd
