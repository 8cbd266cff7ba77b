\* Two terminals whose full buffers together exceed the budget, one tick of the
\* clock for TTL and tombstones, termination and shutdown under fairness.
CONSTANTS
  NumTerms = 2
  Clients = {c1}
  MaxPtys = 2
  Capacity = 2
  Budget = 3
  BlockLens = {2}
  MaxSeq = 1
  DetachedTtl = 1
  Retention = 1
  MaxNow = 1
SPECIFICATION FairSpec
INVARIANTS BudgetHard RetiredIsDoomed NothingLeftBehind
PROPERTIES DetachedPaysFirst TerminationCompletes ShutdownCompletes
CHECK_DEADLOCK FALSE
