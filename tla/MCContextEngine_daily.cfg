\* The same metric over several days.
CONSTANTS
  Absent = Absent
  Keys = {k1}
  Values <- Positive
  Frames <- MCFrames
  Enabled = TRUE
  ChangeCapPct = 10
  MinConfidence = 70
  MaxSuccesses = 6
SPECIFICATION Spec
INVARIANT
  WithinDailyCap
