SPECIFICATION Spec
CONSTANTS
  u1 = u1
  k1 = k1
  User <- OneUser
  Card <- OneCard
  Calls <- ZeroCalls
  Family = "PCIe"
  NumPorts = 4
  Opened = {0}
  Discipline = "card"
  Line <- EightBits
  PowerUp <- NoBits
  Junk = {1}
INVARIANT AnswersOrErrors
