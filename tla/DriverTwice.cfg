SPECIFICATION Spec
CONSTANTS
  Device = {1}
  NumPorts = 2
  Foreign = {}
  Fscc = {1}
  AtStart = {1}
  User = {1}
  Fails = {}
  Orderly = TRUE
  MaxLoads = 1
INVARIANT TwoPortsPerCard
CHECK_DEADLOCK FALSE
