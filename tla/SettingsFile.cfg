SPECIFICATION Spec
CONSTANTS
  Savers = {p, q}
  Size = 2
  MaxSaves = 3
INVARIANTS
  PathIsWhole
  ResultIsHonest
  CallCleansUp
PROPERTIES
  ImplementsAtomicFile
