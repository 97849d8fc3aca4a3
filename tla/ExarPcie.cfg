SPECIFICATION Spec
CONSTANTS
  u1 = u1
  k1 = k1
  User <- OneUser
  Card <- OneCard
  Calls <- PcieCalls
  Family = "PCIe"
  NumPorts = 4
  Opened = {0, 3}
  Discipline = "card"
  Line <- EightBits
  PowerUp <- AllBits
  Junk = {1}
INVARIANTS PromiseInv CacheCoherent DivisorAccess LcrRestored
PROPERTIES KeepsPromise BaudProgrammed BaudAnswered
