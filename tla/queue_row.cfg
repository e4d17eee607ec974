SPECIFICATION FairSpec
CONSTANTS
  Height = 3
  Sweepers = {s1}
  Refreshes = {w1}
  MaxAncestorDepth = 2
  MaxWrites = 1
  MaxFlight = 2
  MaxFaults = 1
INVARIANTS
  ShortOnlyWhenUnanswered
PROPERTIES
  WholeRowsStayWhole
  RowCatchesUp
  ItemsCatchUp
