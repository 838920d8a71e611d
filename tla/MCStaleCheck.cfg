\* A check that passed is overtaken by the deletion of the type.
SPECIFICATION Spec
CONSTANTS
  c1 = c1
  c2 = c2
  n1 = n1
  x1 = x1
  Goroutine = {g1, g2}
  Context = {c1, c2}
  ContextType = {t1}
  Node = {n1}
  NodeType = {nt1}
  None = None
  ForeignId = {}
  Ingress <- NoFindings
  MaxOps = 4
INVARIANTS
  FindingsExact
\* The bound on calls ends every behaviour.
CHECK_DEADLOCK FALSE
