SPECIFICATION FairSpec
CONSTANTS
  root = root
  Users = {root, u1}
  Admins = {root}
  Keep = Keep
  Sessions = {s1}
  Watchers = {u1}
  Keys = {k1}
  Conns = {c1}
  Nobody = Nobody
  PageSize = 1
  MaxRow = 2
PROPERTIES
  NewAlertsArrive
