\* Three calls that may overlap, abort and be a day apart.
CONSTANTS
  k1 = k1
  k2 = k2
  m1 = m1
  m2 = m2
  m3 = m3
  fa = fa
  fb = fb
  Calls = {x1, x2, x3}
  Keys <- MCKeys
  Sources <- MCSources
  Requests <- MCRequests
  SummaryFiles = {fa, fb}
  FileOf <- MCFileOf
  RecordsFile = records
  IndexFile = index
  TimelineFile = timeline
  Missing = Missing
  Empty = Empty
  Garbled = Garbled
  NoCall = NoCall
SPECIFICATION Spec
INVARIANTS
  TypeOK
  RecordedIsComplete
  DuplicatesWereDone
  OncePerKey
SYMMETRY CallSymmetry
