SPECIFICATION Spec
CONSTANTS
  one = one  two = two  user = user  ping = ping
  Paths = {one, two}
  Templates = {user, one}
  Norm <- UserNorm
  Covers <- UserCovers
  NoPath = NoPath
  Catalog = {user}
  Promotable = {user}
  Sessions = {s1, s2}
  MaxEvents = 3
  MaxAborts = 1
SYMMETRY SessionSymmetry
CONSTRAINT RegistryApart
INVARIANTS
  AlertsDeduplicated
  FlagsFresh
PROPERTIES
  PromotedStaysQuiet
