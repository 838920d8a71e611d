\* One goroutine, to which a finding of a kind of phase 0 arrives under an id of its sender's own.
SPECIFICATION Spec
CONSTANTS
  c1 = c1
  c2 = c2
  n1 = n1
  x1 = x1
  Goroutine = {g1}
  Context = {c1, c2}
  ContextType = {t1}
  Node = {n1}
  NodeType = {nt1}
  None = None
  ForeignId = {x1}
  Ingress <- OtherId
  MaxOps = 3
INVARIANTS
  PhaseZeroNegates
\* The bound on calls ends every behaviour.
CHECK_DEADLOCK FALSE
