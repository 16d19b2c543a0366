SPECIFICATION FairSpec
CONSTANTS
  N = 1
  Addrs = {a1, a2}
  a1 = a1  a2 = a2
  T1 = 1  T2 = 2  Valid = 3
  MaxRT = 1
  ReqMaxRC = 1  DecMaxRC = 2  CnfMaxRD = 1
  RapidCommit = FALSE
  Partial = FALSE
  MaxDeclines = 1
  MaxAdvs = 1
  MaxLinkChanges = 1
  MaxCrashes = 1
INVARIANTS
  NoExpiredInUse
  LeaseOnDisk
PROPERTIES
  LostIAAskedAgain
  ConfirmEnds
