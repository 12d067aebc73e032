CONSTANTS
  p1 = p1
  p2 = p2
  e1 = e1
  e2 = e2
  Pages = {p1, p2}
  Forms <- MCForms
  Entries = {e1, e2}
  ValidPorts <- MCValidPorts
  DefaultPort = 4050
  LowPort = LowPort
  NoPort = NoPort
  Nothing = Nothing
  Empty = Empty
  Garbled = Garbled
  Files <- MCFiles
  MaxEdits = 2
  MaxSaves = 2
  MaxMishaps = 1
SPECIFICATION Spec
CHECK_DEADLOCK FALSE
INVARIANTS
  DocumentsDurable
PROPERTIES
  SavedWasWritten
  LostOnlyByStale
  SavingEnds
