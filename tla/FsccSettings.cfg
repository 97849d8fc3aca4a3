SPECIFICATION Spec
CONSTANTS
  u1 = u1
  u2 = u2
  k1 = k1
  User <- OneUser
  Card <- OneCard
  Calls <- SettingCalls
  Opened = {1}
  Discipline = "card"
  Frev = 32
  EnableAsync = FALSE
  Line = {3}
  AtLoad <- Reloaded
  PowerUp <- OddBytes
  PowerUpFcr <- NoBits
  Junk = {96}
INVARIANTS IndexedAccess AcrCoherent CacheCoherent PromiseInv
PROPERTY KeepsPromise
