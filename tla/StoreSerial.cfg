SPECIFICATION Spec
CONSTANTS
  Ids = {a, b}
  Requests = {r1, r2, r3}
  Ops = {"create", "delete", "get", "list"}
  SerialWriters = TRUE
  MaxPods = 2
  MaxFaults = 2
  MaxCrashes = 1
INVARIANTS TypeOK UniqueInstanceId OrphanOnlyFromLostResponse CreatedIsComplete
PROPERTIES DeletedMeansGone Linearizable
SYMMETRY Symmetry
CHECK_DEADLOCK FALSE
