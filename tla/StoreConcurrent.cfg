SPECIFICATION Spec
CONSTANTS
  Ids = {a}
  Requests = {r1, r2, r3, r4}
  Ops = {"create", "delete"}
  SerialWriters = FALSE
  MaxPods = 0
  MaxFaults = 1
  MaxCrashes = 1
INVARIANTS OrphanExplained DuplicatesOnlyFromOverlap CreatedIsComplete DeletedOnce
SYMMETRY Symmetry
CHECK_DEADLOCK FALSE
