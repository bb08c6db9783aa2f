SPECIFICATION Spec
CONSTANTS
  Conns = {p, q}
  Keys = {k}
  Nobody = Nobody
INVARIANTS
  NotDestroyedByAudio
  UniqueIdentity
  JoinedBeforeDestroyed
PROPERTIES
  RetiredIsDestroyed
  StopReleasesAll
CHECK_DEADLOCK FALSE
