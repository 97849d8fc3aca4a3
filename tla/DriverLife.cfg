SPECIFICATION FairSpec
CONSTANTS
  Device = {1, 2, 3}
  NumPorts = 2
  Foreign = {2}
  Fscc = {1, 3}
  AtStart = {1}
  User = {1, 2}
  Fails <- Step
  Orderly = TRUE
  MaxLoads = 1
INVARIANTS IInv Registry NothingCallable GoneWithDevice
PROPERTIES OpenPortsStay NoSuchDevice ComesToRest
CHECK_DEADLOCK FALSE
