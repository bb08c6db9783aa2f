SPECIFICATION Spec
CONSTANTS
  Clients = {c1}
  Sockets = {s1}
  Nobody = Nobody
  MaxRequests = 1
  MaxStarts = 2
INVARIANTS
  AdoptedWasPlayed
  NoStaleBlock
PROPERTIES
  RequestsAnswered
  RevisionsAdopted
  StopCompletes
CHECK_DEADLOCK FALSE
