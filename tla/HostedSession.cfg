SPECIFICATION Spec
CONSTANTS
  Requests = {r1, r2}
  Subjects = {alice, bob}
  Verifiers = {v1, v2}
  MaxAttempts = 2
  SessionTTL = 2
  Timeout = 1
  Skew = 1
  RequestedTTL = 1
  MaxTime = 2
  None = None
SYMMETRY Interchangeable
INVARIANTS AttestationsEarned CodeTriedFiveTimes ApprovalKept 
CHECK_DEADLOCK FALSE
