\* One attempt times out and its request arrives after the next event.
SPECIFICATION LateSpec
CONSTANTS
  Key = {k1}
  Value = {1, 2}
  Absent = 0
  Writer = {w1}
  Subscriber = {u1}
  Notifier = {n1}
  Unreachable = {}
  Rejected = {}
  QueueDepth = 3
  MaxAttempts = 2
  MaxFailures = 1
  MaxEvents = 2
  MaxSubscriptions = 1
PROPERTIES
  DeliveredInOrder
\* The bounds on events, failures and subscriptions end every behaviour.
CHECK_DEADLOCK FALSE
