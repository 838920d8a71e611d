\* A server below one that is reached on two ways.
SPECIFICATION Spec
CONSTANTS
  a = a
  b = b
  c = c
  d = d
  e = e
  Server = {a, b, c, d, e}
  Source = a
  Link <- Below
  Key = {k1}
  Value = {v1, v2}
  Absent = None
  MaxChanges = 2
  MaxRepeats = 0
PROPERTIES
  Converges
\* The bound on changes ends every behaviour.
CHECK_DEADLOCK FALSE
