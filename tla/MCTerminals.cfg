SPECIFICATION Spec
CONSTANTS
  t1 = t1
  t2 = t2
  t3 = t3
  p1 = p1
  p2 = p2
  None = None
  Ids = {t1, t2, t3}
  Panes = {p1, p2}
  Primary = p1
  MaxTerminals = 2
  Twice = 2
  Scopes <- Families
SYMMETRY Symmetry
INVARIANTS
  ReservedIsWaited
  NoStrayShell
  RunningHasShell
  ExitLeavesNothing
  PanesShowTheirOwn
CHECK_DEADLOCK FALSE
