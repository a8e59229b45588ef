SPECIFICATION Spec
CONSTANTS
  Events = {1, 2}
  Docs = {1, 2}
  Personal = {1, 2}
  Rollups = {j1, j2}
  Sessions = {s1, s2}
  ChunkSize = 1
  Day = 1
  Week = 2
  Fortnight = 3
  Month = 4
  Window = 4
  LowTraffic = 1
  MaxOpen = 2
  Never = Never
SYMMETRY JobSymmetry
INVARIANTS
  TypeOK
  CountedOnce
  RetentionKeepsStatus
  ErasureComplete
  RetiredShown
