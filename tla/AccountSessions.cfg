SPECIFICATION Spec
CONSTANTS
  Reqs = {r1, r2}
  MaxTokens = 3
  MaxResets = 2
SYMMETRY RequestSymmetry
INVARIANTS
  TypeOK
  SessionsStayClosed
  ResetsSingleUse
PROPERTIES
  KeepsFamilies
