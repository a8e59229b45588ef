SPECIFICATION FairSpec
CONSTANTS
  Replicas = {a, b}
  NoOne = NoOne
  LockTTL = 3
  RenewInterval = 1
  MaxErrors = 2
INVARIANTS
  TypeOK
  AtMostOneLeader
  GapBounded
PROPERTIES
  StaleLeaderStepsDown
  LeaderRecurs
