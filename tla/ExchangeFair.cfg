SPECIFICATION FairSpec
CONSTANTS
  c1 = c1  c2 = c2
  Clients = {c1, c2}
  Nobody = Nobody
  Addrs = {a1, a2}
  Xids = {x1}
  Valid = 1
  RenewAt = 1
  RebindAt = 1
  CacheTime = 2
  MaxDelay = 0
  Patience = 3
  Collisions = TRUE
PROPERTIES
  AskerIsServed

