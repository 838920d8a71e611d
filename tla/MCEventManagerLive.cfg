\* One subscriber answers, the other never does; queues overflow.  No symmetry,
\* because the properties are temporal.
SPECIFICATION Spec
CONSTANTS
  Key = {k1}
  Value = {1, 2}
  Absent = 0
  Writer = {w1}
  Subscriber = {u1, u2}
  Notifier = {n1, n2}
  Unreachable = {u2}
  Rejected = {}
  QueueDepth = 1
  MaxAttempts = 2
  MaxFailures = 0
  MaxEvents = 2
  MaxSubscriptions = 1
PROPERTIES
  WritersNotStalled
  ReachableCovered
  StoppedExits
\* The bounds on events, failures and subscriptions end every behaviour.
CHECK_DEADLOCK FALSE
