\* A finding is replaced after it was looked up.
SPECIFICATION Spec
CONSTANTS
  r1 = r1
  r2 = r2
  Goroutine = {g1}
  Resource = {r1, r2}
  FindingId = {f1}
  Content <- Contents
  None = None
PROPERTIES
  OnlyResolvedDeleted
