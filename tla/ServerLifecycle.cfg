SPECIFICATION FairSpec
CONSTANTS
  Connections = {a, b, c}
  Descriptors = {1, 2, 3, 4}
  Workers = 2
CHECK_DEADLOCK FALSE
INVARIANTS
  TrackedIsOwn
  CancelReachesAll
  StopReleasesDescriptors
PROPERTIES
  SignalStops
