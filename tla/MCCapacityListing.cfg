\* One goroutine; two Capacities that can have two tuples, which share the
\* resource type and differ in the Context.
SPECIFICATION Spec
CONSTANTS
  Goroutine = {g1}
  CapacityId = {i1, i2}
  Context = {c1, c2}
  ResourceType = {r1}
  Category = {Provided}
  None = None
  MaxOps = 4
INVARIANTS
  ListingAccepted
\* The bound on calls ends every behaviour.
CHECK_DEADLOCK FALSE
