\* Two servers that subscribe to each other.
SPECIFICATION Spec
CONSTANTS
  a = a
  b = b
  c = c
  d = d
  e = e
  Server = {a, b}
  Source = a
  Link <- Mutual
  Key = {k1}
  Value = {v1, v2}
  Absent = None
  MaxChanges = 1
  MaxRepeats = 0
PROPERTIES
  EchoesEnd
\* The bound on changes ends every behaviour.
CHECK_DEADLOCK FALSE
