SPECIFICATION Spec
CONSTANTS
  u1 = u1
  u2 = u2
  k1 = k1
  User <- TwoUsers
  Card <- OneCard
  Calls <- OwnPortCalls
  Opened = {0}
  Discipline = "none"
  Frev = 32
  EnableAsync = FALSE
  Line = {3}
  AtLoad <- Fresh
  PowerUp <- ZeroBytes
  PowerUpFcr <- NoBits
  Junk = {96}
INVARIANT AcrCoherent
