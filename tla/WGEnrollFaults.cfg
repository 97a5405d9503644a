SPECIFICATION SpecEither
CONSTANTS
  Me = Me
  Others = {o1}
  Want = Want
  OtherRanges = {Want, Apart}
  Overlapping = {Want}
  Absent = Absent
  None = None
  Bare = {"e", "n"}
  Unsafe = {"bell"}
  MaxWords = 8
  MaxWord = 256
  MaxLine = 2048
  Sessions = {s1, s2}
  Manifests = {m1, m2}
  m1 = m1
  m2 = m2
  Rules <- MCRules
  Lines <- MCLines
  MaxEdits = 2
INVARIANTS NothingHalfDone SignedCommandsOnly 
PROPERTIES OthersPreserved AnswersTrue EventuallyEnrolled
