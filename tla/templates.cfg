SPECIFICATION Spec
CONSTANTS
  Versions = {1, 2}
  Drafted = {1, 2}
  Seeded = {1}
  Contents = {x, y}
  Priorities = {1}
  Admins = {a1, a2}
  Seeders = {s1, s2}
  Projects = {p1}
  MaxSeeds = 2
INVARIANTS
  PinIsEvidence
  FirstPublicationDated
PROPERTIES
  SettledForGood
