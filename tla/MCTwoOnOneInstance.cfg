\* As MCConfigSync: the filter is taken at its word.
SPECIFICATION Spec
CONSTANTS
  Goroutine = {g1, g2}
  Instance = {1}
  Endpoint = {e1, e2}
  None = None
INVARIANTS
  RegistryInSync
CHECK_DEADLOCK FALSE
