\* Two goroutines change the model, one after the other; two subscribers come and
\* go at any moment; no queue overflows; one failed attempt, which is not the last.
SPECIFICATION UndisturbedSpec
CONSTANTS
  Key = {k1, k2}
  Value <- Payloads
  Absent = 0
  Writer = {w1, w2}
  Subscriber = {u1, u2}
  Notifier = {n1, n2}
  Unreachable = {}
  Rejected = {}
  QueueDepth = 1
  MaxAttempts = 2
  MaxFailures = 1
  MaxEvents = 3
  MaxSubscriptions = 1
SYMMETRY Alike
INVARIANTS
  QueueFollowsSnapshot
PROPERTIES
  DeliveredInOrder
  FeedRefinement
\* The bounds on events, failures and subscriptions end every behaviour.
CHECK_DEADLOCK FALSE
