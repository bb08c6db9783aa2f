SPECIFICATION Spec
CONSTANTS
  Devices = {d}
  Keys = {k}
  Provisional = {p}
  NodeCapacity = 3
  MaxRouteId = 3
  DspCapacity = 2
  Empty = empty
  Chains = {empty, fx}
  Levels = {0, 1}
  Widths = {0, 1}
  FormerSettings <- ForeignFiles
CONSTRAINT Scenarios
INVARIANTS
  CacheMatchesEngine
  GetTellsWhatPlays
  OwnersHaveNodes
PROPERTIES
  RestartKeepsSettings
