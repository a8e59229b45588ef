SPECIFICATION Spec
CONSTANTS
  w1 = w1  w2 = w2  r1 = r1  e1 = e1  e2 = e2
  Workers = {w1, w2}
  Requests = {r1}
  Events = {e1}
  Body <- OneEvent
  Poison = {}
  MaxRetries = 2
  Count = 2
  Refusable = TRUE
  MaxExits = 1
  MaxFaults = 1
  MaxFlushes = 1
  MaxSlow = 1
SYMMETRY WorkerSymmetry
VIEW WithoutDepth
INVARIANTS
  TypeOK
  NothingLost
  DeadOnlyAfterMaxRetries
