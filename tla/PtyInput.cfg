\* Three connections, three chunks of two bytes, writes in threads, one restart;
\* safety and, under fairness, that the input arrives.
CONSTANTS
  NumConns = 3
  MaxTyped = 3
  ChunkLen = 2
  Restarts = 1
  Blocking = TRUE
SPECIFICATION FairSpec
INVARIANTS InOrder AckedInOneLife
PROPERTY InputArrives
CHECK_DEADLOCK FALSE
