SPECIFICATION Spec
CONSTANTS
  Ids = {a}
  Requests = {r1, r2}
  Ops = {"create"}
  SerialWriters = FALSE
  MaxPods = 0
  MaxFaults = 0
  MaxCrashes = 0
INVARIANTS UniqueInstanceId
CHECK_DEADLOCK FALSE
