SPECIFICATION Spec
CONSTANTS
  N = 2
  Addrs = {a1}
  a1 = a1  a2 = a2
  T1 = 1  T2 = 3  Valid = 5
  MaxRT = 2
  ReqMaxRC = 1  DecMaxRC = 2  CnfMaxRD = 1
  RapidCommit = TRUE
  Partial = FALSE
  MaxDeclines = 0
  MaxAdvs = 2
  MaxLinkChanges = 0
  MaxCrashes = 0
INVARIANTS
  TypeOK
  EveryIACared
  OneExchange
  ExchangeEndsInTime
PROPERTIES
  KeptWhileValid
