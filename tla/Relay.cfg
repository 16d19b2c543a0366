SPECIFICATION FairSpec
CONSTANTS
  c1 = c1  c2 = c2  r1 = r1  r2 = r2  r3 = r3
  L0 = L0  L1 = L1  L2 = L2  L3 = L3  fe80 = fe80
  Server = Server  NoId = NoId
  Clients = {c1, c2}
  Relays = {r1, r2, r3}
  Links = {L0, L1, L2, L3}
  LinkOf <- TreeLinkOf
  AddrOf <- SameAddr
  ServerLink = L0
  Config <- Tree
  Omits = {r3}
  Guess = {r3}
  Known <- TreeKnown
  LinkServed <- TreeServed
  ServerOmits = FALSE
  ServerGuess = FALSE
  HopLimit = 2
  Mortal = {r2}
  MaxInFlight = 3
  MaxLosses = 2
INVARIANTS
  TypeOK
  OnlyForAsker
  EveryReplyGoesOn
PROPERTIES
  AskerIsAnswered
