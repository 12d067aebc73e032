\* One metric (metrics never interact); proposals inside, above and below the cap, one negative.
CONSTANTS
  Absent = Absent
  Keys = {k1}
  Values <- MCValues
  Frames <- MCFrames
  Enabled = TRUE
  ChangeCapPct = 10
  MinConfidence = 70
  MaxSuccesses = 6
SPECIFICATION Spec
INVARIANTS
  TypeOK
  CapRespected
  DriftPaced
