SPECIFICATION Spec
CONSTANTS
  c1 = c1  c2 = c2  i1 = i1  i2 = i2  iX = iX
  a1 = a1  a2 = a2  a3 = a3  p1 = p1  p2 = p2
  NoAddr = NoAddr  NoPool = NoPool  DeclinedDUID = X
  Clients = {c1, c2}
  IAIDs = {i1}
  DeclinedIAID = iX
  Addrs = {a1, a2}
  Pools = {p1}
  PoolOf <- OnePool
  ClassMaxLease <- AllOf1
  ClntMaxLease = 1
  Supported <- EveryPool
  Preferred <- NoPreference
  FixedAddr <- NobodyFixed
  Valid = 2
  DeclinedTimeout = 2
  CacheMaxSize = 2
  CounterMod = 8
  MsgIAs <- OneIA
  MaxAssigned = 3
  MaxCrashes = 2
  StaleClients = {c2}
SYMMETRY AddrsAlike
INVARIANTS
  TypeOK
  HeldLeaseIsBound
  UniqueBinding
  CacheBounded
  DiskCurrent
PROPERTIES
  QuarantineHolds
  CrashLosesOnlyInFlight
  ImplementsTable
