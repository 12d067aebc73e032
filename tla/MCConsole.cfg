CONSTANTS
  t1 = t1
  t2 = t2
  v1 = v1
  v2 = v2
  s1 = s1
  s2 = s2
  Names = {t1, t2}
  Versions = {v1, v2}
  DefaultVersion = v1
  CallSlots = {s1, s2}
  Started <- MCStarted
  EngineOn = TRUE
  Nothing = Nothing
  MaxClicks = 3
  MaxTabs = 1
SPECIFICATION ConsoleSpec
INVARIANTS
  PageConsistent
PROPERTIES
  OwnChangeShown
  DisplaySettles
