\* One goroutine, and a Node that an upstream server pushes.
SPECIFICATION Spec
CONSTANTS
  c1 = c1
  c2 = c2
  n1 = n1
  x1 = x1
  Goroutine = {g1}
  Context = {c1}
  ContextType = {t1}
  Node = {n1}
  NodeType = {nt1}
  None = None
  ForeignId = {}
  Ingress <- NoFindings
  MaxOps = 3
INVARIANTS
  DanglingTypesFound
\* The bound on calls ends every behaviour.
CHECK_DEADLOCK FALSE
