SPECIFICATION Spec
CONSTANTS
  Sessions = {s1, s2, s3}
  MaxVersions = 3
  MaxSaves = 6
SYMMETRY SessionSymmetry
INVARIANTS
  TypeOK
  ExactlyOneActive
PROPERTIES
  KeepsHistory
