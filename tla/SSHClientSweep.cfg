SPECIFICATION FairSpec
CONSTANTS
  me = me
  admin = admin
  Procs = {c1}
  LeaseIds = {1, 2}
  Tokens = {me, admin}
  Me = me
  Keys = {k1, k2}
  Objectives = {o1}
  Policies <- Preapproved
  HardTTL = 1
  CertTTL = 1
  RenewBefore = 1
  MaxTime = 1
  MaxCerts = 1
  Faults = FALSE
  Lossy = FALSE
  Crashes = FALSE
  NoLease = NoLease
  None = None
  NoDir = NoDir
  NoCommand = NoCommand
PROPERTIES ExpiredKeysRemoved
