SPECIFICATION Spec
CONSTANTS
  Instances = {i1}
  MaxSubmits = 3
INVARIANTS ReplacedInWindow
CHECK_DEADLOCK FALSE
