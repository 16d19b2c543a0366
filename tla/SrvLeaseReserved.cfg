SPECIFICATION Spec
CONSTANTS
  c1 = c1  c2 = c2  i1 = i1  i2 = i2  iX = iX
  a1 = a1  a2 = a2  a3 = a3  p1 = p1  p2 = p2
  NoAddr = NoAddr  NoPool = NoPool  DeclinedDUID = X
  Clients = {c1, c2}
  IAIDs = {i1, i2}
  DeclinedIAID = iX
  Addrs = {a1, a2}
  Pools = {p1, p2}
  PoolOf <- ReservedAndOther
  ClassMaxLease <- AllOf1
  ClntMaxLease = 1
  Supported <- EveryPool
  Preferred <- NoPreference
  FixedAddr <- FirstFixed
  Valid = 1
  DeclinedTimeout = 1
  CacheMaxSize = 1
  CounterMod = 8
  MsgIAs <- Short
  MaxAssigned = 3
  MaxCrashes = 1
  StaleClients = {}
INVARIANTS
  LeaseLimit
  CountersCover
  NeverHung
