\* A Delete is dropped by a full queue.
SPECIFICATION Spec
CONSTANTS
  Key = {k1}
  Value = {1, 2, 3, 4}
  Absent = 0
  Writer = {w1}
  Subscriber = {u1}
  Notifier = {n1}
  Unreachable = {}
  Rejected = {}
  QueueDepth = 1
  MaxAttempts = 2
  MaxFailures = 0
  MaxEvents = 4
  MaxSubscriptions = 1
INVARIANTS
  QuietExact
\* The bounds on events, failures and subscriptions end every behaviour.
CHECK_DEADLOCK FALSE
