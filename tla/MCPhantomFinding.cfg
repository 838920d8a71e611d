\* One goroutine, to which a finding arrives whose subject passes the check.
SPECIFICATION Spec
CONSTANTS
  c1 = c1
  c2 = c2
  n1 = n1
  x1 = x1
  Goroutine = {g1}
  Context = {c1, c2}
  ContextType = {t1}
  Node = {n1}
  NodeType = {nt1}
  None = None
  ForeignId = {}
  Ingress <- TypeFinding
  MaxOps = 3
INVARIANTS
  StoredIsModel
\* The bound on calls ends every behaviour.
CHECK_DEADLOCK FALSE
