SPECIFICATION Spec
CONSTANTS
  Nodes = {0, 1, 2, 3, 4}
  MaxChannels = 2
  MaxChangedRoutes = 2
  MaxChanges = 1
  MaxBlocks = 2
  RouteLists <- PoolLists
  ChangedLists <- ShortLists
  Endpoint <- FourEndpoints
INVARIANTS
  OrderIsTopological
  BlockHearsRoutes
  EndpointsServed
  SettledGraphIsCurrent
CHECK_DEADLOCK FALSE
