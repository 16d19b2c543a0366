SPECIFICATION Spec
CONSTANTS
  c1 = c1  c2 = c2
  Clients = {c1, c2}
  Nobody = Nobody
  Addrs = {a1}
  Xids = {x1, x2}
  Valid = 3
  RenewAt = 2
  RebindAt = 1
  CacheTime = 2
  MaxDelay = 1
  Patience = 2
  Collisions = TRUE
SYMMETRY Interchangeable
INVARIANTS
  TypeOK
  OverhangBounded

