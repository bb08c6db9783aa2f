SPECIFICATION Spec
CONSTANTS
  Clients = {c1, c2}
  Sockets = {}
  Nobody = Nobody
  MaxRequests = 3
  MaxStarts = 2
INVARIANTS
  ConfirmedIsHeard
  PersistedIsAdopted
CHECK_DEADLOCK FALSE
