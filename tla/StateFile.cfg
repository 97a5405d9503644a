SPECIFICATION SpecEither
CONSTANTS
  Procs = {p1, p2}
  KeyIds = {k1, k2, k3, k4}
  NoKey = NoKey
  NoState = NoState
  Raws = {r1, r2}
  Names = {n1, n2}
  NoCheck = NoCheck
  Rests = Rests
INVARIANTS KeySetConsistent AnswersAsTold
SYMMETRY FileSymmetry
PROPERTIES RevokedForGood
