SPECIFICATION Spec
CONSTANTS
  c1 = c1  c2 = c2  r1 = r1  r2 = r2  r3 = r3
  L0 = L0  L1 = L1  L2 = L2  L3 = L3  fe80 = fe80
  Server = Server  NoId = NoId
  Clients = {c1}
  Relays = {r1, r2}
  Links = {L0, L1}
  LinkOf <- LoopLinkOf
  AddrOf <- SameAddr
  ServerLink = L0
  Config <- Loop
  Omits = {}
  Guess = {r1, r2}
  Known <- LoopKnown
  LinkServed <- LoopServed
  ServerOmits = TRUE
  ServerGuess = TRUE
  HopLimit = 3
  Mortal = {}
  MaxInFlight = 4
  MaxLosses = 1
INVARIANTS
  NestingBounded
