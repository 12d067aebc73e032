\* Two handlers at a time, one tool from startup.
CONSTANTS
  Requests = {r1, r2}
  Names = {n1}
  Startup = {n1}
  Versions = {v0, v1}
  FirstVersion = v0
  NoTool = NoTool
  Keep = Keep
  MaxRequests = 5
SPECIFICATION Spec
INVARIANT
  TypeOK
PROPERTIES
  CatalogSpec
  ScrapeRecent
SYMMETRY RequestSymmetry
