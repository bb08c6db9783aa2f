SPECIFICATION Spec
CONSTANTS
  Callers = {c1, c2}
  Ids = {card}
  MaxWidth = 2
  MaxRemovals = 1
INVARIANTS
  NoResurrection
PROPERTIES
  WidthHonoured
  NoReplacement
