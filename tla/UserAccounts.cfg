SPECIFICATION Spec
CONSTANTS
  boss = boss
  u1 = u1
  u2 = u2
  Users = {boss, u1, u2}
  Boss = boss
  Guessed = {boss}
  Enrolling = {boss}
  Secrets = {k1, k2}
  NoSecret = NoSecret
  Sessions = {s1, s2}
  Threshold = 2
  LockBase = 1
  LockMax = 2
  MaxFailed = 4
SYMMETRY Symmetry
CONSTRAINT OneFamily
INVARIANTS
  TypeOK
  SuperStands
  LockoutExact
  MfaProven
PROPERTIES
  AdminTierBySuper
