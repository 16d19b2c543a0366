SPECIFICATION Spec
CONSTANTS
  f1 = f1  f2 = f2
  Ifaces = {f1, f2}
  NoIface = NoIface
  Slots = 3
INVARIANTS
  TypeOK
  LostOnlyInRace
PROPERTIES
  EventuallyMarked
