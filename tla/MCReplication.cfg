\* A server that is reached on two ways.
SPECIFICATION Spec
CONSTANTS
  a = a
  b = b
  c = c
  d = d
  e = e
  Server = {a, b, c, d}
  Source = a
  Link <- Diamond
  Key = {k1}
  Value = {v1, v2}
  Absent = None
  MaxChanges = 3
  MaxRepeats = 1
INVARIANTS
  UpstreamIsAhead
PROPERTIES
  Converges
\* The bound on changes ends every behaviour.
CHECK_DEADLOCK FALSE
