\* Two acquirers, two SSH sessions, two concurrent invalidations.
CONSTANTS
  Callers = {c1, c2}
  Sessions = {s1, s2}
  Invalidators = {i1, i2}
  MaxGeneration = 2
  MaxDaemon = 2
  Nobody = Nobody
SPECIFICATION FairSpec
INVARIANTS ReadyIsCurrent AnswerIsCurrent
PROPERTIES PreparedForCause AcquireEnds
CHECK_DEADLOCK FALSE
