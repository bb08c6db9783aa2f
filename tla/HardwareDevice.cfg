SPECIFICATION Spec
CONSTANTS
  Capacity = 3
  MaxRequest = 4
  MaxFrames = 8
  MaxChannels = 2
  Requests = {0, 2, 3}
  Widths = {1, 2}
INVARIANTS
  PreparedWhileUsed
  HeldIsOwned
  NoOverlap
  InOrder
PROPERTY CallsReturn
