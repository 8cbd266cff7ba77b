\* Two connections of one client, a shell printing three blocks, queues of one.
CONSTANTS
  NumConns = 2
  MaxSeq = 3
  QueueDepth = 1
  MaxPending = 1
  Detachers = {}
  Orphaned = FALSE
SPECIFICATION Spec
INVARIANT HandoffSeamless
PROPERTIES DeliveryOrdered ReleasedIsTold
CHECK_DEADLOCK FALSE
