SPECIFICATION Spec
CONSTANTS
  Capacity = 2
  MaxRequest = 2
  MaxFrames = 2
  MaxChannels = 2
  Requests = {0}
  Widths = {2}
INVARIANT WokenOnlyToStart
