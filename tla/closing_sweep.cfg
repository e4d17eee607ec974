SPECIFICATION Spec
CONSTANTS
  k1 = k1
  k2 = k2
  k3 = k3
  s1 = s1
  s2 = s2
  s3 = s3
  Nobody = Nobody
  Stages = {"Engaged", "Active"}
  Keys = {k1, k2}
  PlatformKeys = {k1}
  RetiredChecks = {}
  SectionNames = {s1, s2}
  SectionOf <- MCSectionOf
  Templates = 2
  TemplateItems <- MCTemplateItems
  MaxMoves = 2
  MaxFaults = 0
  MaxItemRevision = 2
  Writers = {}
  Reconcilers = {r1}
  Operators = {o1}
PROPERTY ClosingSweepAdvancesNothing
