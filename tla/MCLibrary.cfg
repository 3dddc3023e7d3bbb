SPECIFICATION MCSpec
CONSTANTS
  Shots <- ThreeShots
  Cli = {c1}
  Exclusive = TRUE
  MaxRuns = 1
  MaxMishaps = 1
  NONE = NONE
  TORN = TORN
  LastInstant = 2
  Offset <- OffsetWest
  LastDate = 1
  Definitions = {d1, d2}
  MaxEntries = 3
  ABSENT = ABSENT
INVARIANTS
  TypeOK
  ManifestLoads
  StrandsOne
  DeletedKnown
  CallsHangTogether
  PrepIsSticky
  HistoryTells
PROPERTIES
  KeepsLedger
  LotRunsToNext
  ReadableAtLast
