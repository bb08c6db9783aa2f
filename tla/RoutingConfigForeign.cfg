SPECIFICATION Spec
CONSTANTS
  Devices = {}
  Keys = {k}
  Provisional = {}
  NodeCapacity = 1
  MaxRouteId = 4
  DspCapacity = 3
  Empty = empty
  Chains = {empty, fx}
  Levels = {0, 1}
  Widths = {0}
  FormerSettings <- ForeignFiles
PROPERTY InvalidRouteSkipped
