SPECIFICATION Spec
CONSTANTS
  Rate <- Rates
  MaxRdw = 2
  MaxVdw = 32
  Accepted <- OneEach
  MaxOd = 8232
  Rounds = 2
  Revision = {"old green", "232", "other"}
INVARIANTS SearchInv Nearest WordOfBest TieBroken NearestButRounding WordSaysSolution OnlyFields
PROPERTY Ends
CHECK_DEADLOCK FALSE
