SPECIFICATION Spec
CONSTANTS
  u1 = u1
  u2 = u2
  k1 = k1
  User <- OneUser
  Card <- OneCard
  Calls <- BoardCalls
  Opened = {0, 1}
  Discipline = "card"
  Frev = 16
  EnableAsync = TRUE
  Line = {3}
  AtLoad <- Mixed
  PowerUp <- AnyBytes
  PowerUpFcr <- AnyBits
  Junk = {96}
INVARIANTS AsyncKept Mode950
PROPERTIES KeepsPromise EchoPortByPort
