SPECIFICATION SlotsSpec
CONSTANTS
  Writers = {w1, w2}
  NoWriter = NoWriter
  MaxPublications = 4
INVARIANTS
  NoSlotRace
  OnePublicationPerBlock
PROPERTIES
  ImplementsPublication
  EventuallyHeard
