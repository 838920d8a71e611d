\* A queue of one and three failures: events are dropped by a full queue, by
\* deliveries given up and by drained queues, and overflow meets a resync in flight.
SPECIFICATION Spec
CONSTANTS
  Key = {k1, k2}
  Value = {1, 2, 3, 4}
  Absent = 0
  Writer = {w1}
  Subscriber = {u1}
  Notifier = {n1}
  Unreachable = {}
  Rejected = {}
  QueueDepth = 1
  MaxAttempts = 2
  MaxFailures = 3
  MaxEvents = 4
  MaxSubscriptions = 1
INVARIANTS
  ManagerTypeOK
  QuietCoversLive
\* The bounds on events, failures and subscriptions end every behaviour.
CHECK_DEADLOCK FALSE
