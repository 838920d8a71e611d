\* The subscriber answers every upsert of k1 with an error.
SPECIFICATION Spec
CONSTANTS
  Key = {k1, k2}
  Value = {1, 2}
  Absent = 0
  Writer = {w1}
  Subscriber = {u1}
  Notifier = {n1}
  Unreachable = {}
  Rejected = {k1}
  QueueDepth = 4
  MaxAttempts = 1
  MaxFailures = 0
  MaxEvents = 2
  MaxSubscriptions = 1
PROPERTIES
  AcceptedGetThrough
\* The bounds on events, failures and subscriptions end every behaviour.
CHECK_DEADLOCK FALSE
