SPECIFICATION FairSpec
CONSTANTS
  Replicas = {r1, r2}
  MaxDay = 3
  DateChoices = {0, 2}
  MaxMoves = 1
  MaxEdits = 2
  MaxFaults = 1
INVARIANTS
  NoticeAtMostOnce
  ActiveAtMostOncePerCompletion
PROPERTIES
  OverdueIsNoticed
