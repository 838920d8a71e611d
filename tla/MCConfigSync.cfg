\* Two goroutines that change one instance, to either of two endpoints.
SPECIFICATION Spec
CONSTANTS
  Goroutine = {g1, g2}
  Instance = {1}
  Endpoint = {e1, e2}
  None = None
INVARIANTS
  CleanIsWritten
  FlushIsComing
  RegistryFollowsModel
  LastFlushKeepsChanges
PROPERTIES
  FileCatchesUp
\* A process that has exited does nothing more.
CHECK_DEADLOCK FALSE
