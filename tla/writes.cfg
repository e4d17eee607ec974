SPECIFICATION Spec
CONSTANTS
  k1 = k1
  k2 = k2
  k3 = k3
  s1 = s1
  s2 = s2
  s3 = s3
  Nobody = Nobody
  Stages = {"Engaged", "Active", "Prospect"}
  Keys = {k1}
  PlatformKeys = {k1}
  RetiredChecks = {}
  SectionNames = {s1}
  SectionOf <- MCOneKeySectionOf
  Templates = 1
  TemplateItems <- MCOneKeyTemplateItems
  MaxMoves = 1
  MaxFaults = 0
  MaxItemRevision = 3
  Writers = {w1, w2}
  Reconcilers = {r1, r2}
  Operators = {}
SYMMETRY Symmetry
INVARIANTS
  TypeOK
  TrailReplays
PROPERTIES
  NoLostUpdate
  WritesOnlyWhileLive
