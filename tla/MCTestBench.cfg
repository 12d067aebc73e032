CONSTANTS
  t1 = t1
  t2 = t2
  s1 = s1
  s2 = s2
  s3 = s3
  Targets = {t1, t2}
  Slots = {s1, s2, s3}
  None = None
  Width = 4
  MaxTests = 3
  MaxOthers = 1
SPECIFICATION Spec
CHECK_DEADLOCK FALSE
INVARIANTS
  BenchConsistent
PROPERTIES
  VerdictIsConnection
  TestsEnd
