SPECIFICATION Spec
CONSTANTS
  Instances = {a}
  Pods = {p1}
  PodPhases = {"Running"}
  Prompt = TRUE
  MaxAttempts = 2
  MayStop = FALSE
  MaxChanges = 2
  MaxResyncs = 0
  MaxLosses = 0
  MaxRestarts = 0
  MaxPublishFailures = 0
  MaxSubmits = 4
INVARIANTS DeletedWhenGone
CHECK_DEADLOCK FALSE
