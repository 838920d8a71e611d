\* Two goroutines that change resources, while findings come and go.
SPECIFICATION Spec
CONSTANTS
  r1 = r1
  r2 = r2
  Goroutine = {g1, g2}
  Resource = {r1, r2}
  FindingId = {f1, f2}
  Content <- Contents
  None = None
SYMMETRY Symmetry
INVARIANTS
  IndexExact
  ResolutionIsComing
