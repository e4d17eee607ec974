SPECIFICATION Spec
CONSTANTS
  k1 = k1
  k2 = k2
  k3 = k3
  s1 = s1
  s2 = s2
  s3 = s3
  Nobody = Nobody
  Stages = {"Engaged", "Active"}
  Keys = {k1, k2, k3}
  PlatformKeys = {k1}
  RetiredChecks = {k2}
  SectionNames = {s1, s2, s3}
  SectionOf <- MCThreeKeySectionOf
  Templates = 3
  TemplateItems <- MCThreeTemplateItems
  MaxMoves = 1
  MaxFaults = 0
  MaxItemRevision = 2
  Writers = {}
  Reconcilers = {r1}
  Operators = {o1, o2}
SYMMETRY Symmetry
INVARIANTS
  SectionsCovered
  FeedExplainsRows
PROPERTIES
  SnapshotOnlyGrows
  KeepsContract
