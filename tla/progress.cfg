SPECIFICATION FairSpec
CONSTANTS
  k1 = k1
  k2 = k2
  k3 = k3
  s1 = s1
  s2 = s2
  s3 = s3
  Nobody = Nobody
  Stages = {"Engaged", "Active", "Archived"}
  Keys = {k1}
  PlatformKeys = {k1}
  RetiredChecks = {}
  SectionNames = {s1}
  SectionOf <- MCOneKeySectionOf
  Templates = 1
  TemplateItems <- MCOneKeyTemplateItems
  MaxMoves = 2
  MaxFaults = 1
  MaxItemRevision = 2
  Writers = {w1}
  Reconcilers = {r1}
  Operators = {}
INVARIANTS
  CompletionStamp
  RulingStands
PROPERTIES
  LifecycleSettles
  ChecklistAppears
  PlatformRowsSettle
  KeepsContract
