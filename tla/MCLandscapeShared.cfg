\* Two goroutines, and findings that arrive from outside, under derived ids and others.
SPECIFICATION Spec
CONSTANTS
  c1 = c1
  c2 = c2
  n1 = n1
  x1 = x1
  Goroutine = {g1, g2}
  Context = {c1, c2}
  ContextType = {t1}
  Node = {n1}
  NodeType = {nt1}
  None = None
  ForeignId = {x1}
  Ingress <- OneOfEach
  MaxOps = 3
INVARIANTS
  NoFalseFinding
\* The bound on calls ends every behaviour.
CHECK_DEADLOCK FALSE
