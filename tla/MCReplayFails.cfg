\* The replay of AddSubscriber uses up its attempts; nothing is recorded after it.
SPECIFICATION Spec
CONSTANTS
  Key = {k1}
  Value = {1, 2}
  Absent = 0
  Writer = {w1}
  Subscriber = {u1}
  Notifier = {n1}
  Unreachable = {}
  Rejected = {}
  QueueDepth = 4
  MaxAttempts = 2
  MaxFailures = 2
  MaxEvents = 2
  MaxSubscriptions = 1
PROPERTIES
  ResyncBegins
\* The bounds on events, failures and subscriptions end every behaviour.
CHECK_DEADLOCK FALSE
