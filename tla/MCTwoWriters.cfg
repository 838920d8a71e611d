\* Two goroutines change the model and race to the queue.
SPECIFICATION Spec
CONSTANTS
  Key = {k1}
  Value = {1, 2}
  Absent = 0
  Writer = {w1, w2}
  Subscriber = {u1}
  Notifier = {n1}
  Unreachable = {}
  Rejected = {}
  QueueDepth = 2
  MaxAttempts = 2
  MaxFailures = 0
  MaxEvents = 2
  MaxSubscriptions = 1
PROPERTIES
  DeliveredInOrder
\* The bounds on events, failures and subscriptions end every behaviour.
CHECK_DEADLOCK FALSE
