SPECIFICATION FairSpec
CHECK_DEADLOCK FALSE
CONSTANTS
  Requests = {q1, q2}
  Subjects = {created, updated}
  MaxPending = 2
INVARIANTS
  RefreshesEndBeforePool
  CountsBalance
  CutOnlyPastTheBudget
  NeverHalfAttached
PROPERTIES
  ShutdownEnds
