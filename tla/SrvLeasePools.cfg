SPECIFICATION FairSpec
CONSTANTS
  c1 = c1  c2 = c2  i1 = i1  i2 = i2  iX = iX
  a1 = a1  a2 = a2  a3 = a3  p1 = p1  p2 = p2
  NoAddr = NoAddr  NoPool = NoPool  DeclinedDUID = X
  Clients = {c1, c2}
  IAIDs = {i1}
  DeclinedIAID = iX
  Addrs = {a1, a2, a3}
  Pools = {p1, p2}
  PoolOf <- TwoPools
  ClassMaxLease <- AllOf1
  ClntMaxLease = 2
  Supported <- SomePools
  Preferred <- PreferP2
  FixedAddr <- NobodyFixed
  Valid = 1
  DeclinedTimeout = 1
  CacheMaxSize = 2
  CounterMod = 8
  MsgIAs <- OneIA
  MaxAssigned = 2
  MaxCrashes = 0
  StaleClients = {c1, c2}
INVARIANTS
  SupportedOnly
  OneAddrPerIA
PROPERTIES
  ExpiredLeaseGoes
  HandlerEnds
