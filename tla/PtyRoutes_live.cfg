\* The routes under the fairness of the daemon's runtime; the shell prints nothing.
CONSTANTS
  NumConns = 2
  MaxSeq = 0
  QueueDepth = 1
  MaxPending = 1
  Detachers = {1}
  Orphaned = FALSE
SPECIFICATION FairSpec
PROPERTIES RouteEnds AttachSettles
CHECK_DEADLOCK FALSE
