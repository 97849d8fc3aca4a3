SPECIFICATION Spec
CONSTANTS
  u1 = u1
  k1 = k1
  User <- OneUser
  Card <- OneCard
  Calls <- PciCalls
  Family = "PCI"
  NumPorts = 2
  Opened = {0, 1}
  Discipline = "card"
  Line <- EightBits
  PowerUp <- Extremes
  Junk = {1}
INVARIANT ProgrammableTriggers
PROPERTY KeepsPromise
