SPECIFICATION Spec
CONSTANTS
  k1 = k1
  k2 = k2
  s1 = s1
  s2 = s2
  Nobody = Nobody
  Stages = {"Engaged"}
  Keys = {k1, k2}
  PlatformKeys = {k1}
  RetiredChecks = {}
  SectionNames = {s1, s2}
  SectionOf <- MCSectionOf
  Templates = 2
  TemplateItems <- MCTemplateItems
  MaxMoves = 1
  MaxFaults = 0
  MaxItemRevision = 3
  Writers = {w1}
  Operators = {o1}
INVARIANTS
  OfferedIsAccepted
PROPERTIES
  AcceptedWasOffered
