SPECIFICATION Spec
CONSTANTS
  one = one  two = two  user = user  ping = ping
  Paths = {one, ping}
  Templates = {user, ping}
  Norm <- PlainNorm
  Covers <- PlainCovers
  NoPath = NoPath
  Catalog = {ping}
  Promotable = {}
  Sessions = {s1, s2}
  MaxEvents = 2
  MaxAborts = 0
SYMMETRY SessionSymmetry
INVARIANTS
  TypeOK
  HitsExact
  ShadowWasAlerted
