SPECIFICATION FairSpec
CONSTANTS
  MaxApps = 1
  Clients = {c1}
  Repairers = {r1}
  PageSize = 1
  MaxRevision = 2
  MaxFlight = 2
  MaxFaults = 2
INVARIANTS
  TypeOK
  CopiesWereCommitted
  SweepPaysWhatItOwes
PROPERTIES
  DecidedOnCurrentRow
  CopiesSettle
