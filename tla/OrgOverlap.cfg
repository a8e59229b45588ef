SPECIFICATION Spec
CONSTANTS
  root = root
  Users = {root, u1, u2}
  Admins = {root}
  Keep = Keep
  Sessions = {s1, s2}
SYMMETRY Symmetry
INVARIANTS
  PrimaryOwnerActive
