SPECIFICATION Spec
CONSTANTS
  c1 = c1  c2 = c2  i1 = i1  i2 = i2
  Clients = {c1, c2}
  IAIDs = {i1, i2}
  IAs <- ThreeIAs
  NPools = 2
  NParts = 2
  Lows = {0, 1}
  NoPrefix = NoPrefix  Useless = Useless
  Hints <- SomeHints
  FixedPrefix <- SecondFixed
  ClntMaxLease = 2
  Valid = 1
  MaxAssigned = 2
INVARIANTS
  TypeOK
  SharedOnlyIfReserved
  CountersCover
  FreshPromiseKept
PROPERTIES
  ImplementsTable
