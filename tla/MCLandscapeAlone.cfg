\* One goroutine, two Contexts that can be each other's parent.
\* No symmetry, because CallsReturn is temporal.
SPECIFICATION Spec
CONSTANTS
  c1 = c1
  c2 = c2
  n1 = n1
  x1 = x1
  Goroutine = {g1}
  Context = {c1, c2}
  ContextType = {t1, t2}
  Node = {n1}
  NodeType = {nt1}
  None = None
  ForeignId = {}
  Ingress <- NoFindings
  MaxOps = 4
PROPERTIES
  CallsReturn
INVARIANTS
  LandscapeTypeOK
  FindingsExact
  StoredIsModel
\* The bound on calls ends every behaviour.
CHECK_DEADLOCK FALSE
