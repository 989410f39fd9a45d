SPECIFICATION FairSpec
CONSTANTS
  Instances = {a}
  Pods = {p1}
  PodPhases = {"Pending", "Running"}
  Prompt = TRUE
  MaxAttempts = 2
  MayStop = FALSE
  MaxChanges = 2
  MaxResyncs = 0
  MaxLosses = 1
  MaxRestarts = 1
  MaxPublishFailures = 1
  MaxSubmits = 5
INVARIANTS TypeOK ShownAsPublished
PROPERTIES Converges
CHECK_DEADLOCK FALSE
