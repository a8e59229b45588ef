SPECIFICATION FairSpec
CONSTANTS
  w1 = w1  w2 = w2  r1 = r1  e1 = e1  e2 = e2
  Workers = {w1, w2}
  Requests = {r1}
  Events = {e1, e2}
  Body <- OneBatch
  Poison = {e2}
  MaxRetries = 2
  Count = 2
  Refusable = FALSE
  MaxExits = 1
  MaxFaults = 0
  MaxFlushes = 0
  MaxSlow = 0
VIEW WithoutDepth
INVARIANTS
  SettledOnce
PROPERTIES
  Refines
  BacklogDrains
  AcceptedSettles
