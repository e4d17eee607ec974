SPECIFICATION Spec
CONSTANTS
  Versions = {1}
  Drafted = {1}
  Seeded = {1}
  Contents = {x, y}
  Priorities = {1}
  Admins = {a1}
  Seeders = {s1}
  Projects = {p1}
  MaxSeeds = 1
PROPERTY PublishedIsImmutable
