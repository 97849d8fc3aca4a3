SPECIFICATION Spec
CONSTANTS
  u1 = u1
  u2 = u2
  k1 = k1
  User <- TwoUsers
  Card <- OneCard
  Calls <- OwnPortCalls
  Opened = {0, 1}
  Discipline = "port"
  Frev = 32
  EnableAsync = FALSE
  Line = {3}
  AtLoad <- Mixed
  PowerUp <- ZeroBytes
  PowerUpFcr <- NoBits
  Junk = {96}
INVARIANT FullInv
PROPERTY KeepsPromise
SYMMETRY Interchangeable
