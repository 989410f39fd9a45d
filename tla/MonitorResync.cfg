SPECIFICATION FairSpec
CONSTANTS
  Instances = {a}
  Pods = {p1}
  PodPhases = {"Running"}
  Prompt = TRUE
  MaxAttempts = 2
  MayStop = TRUE
  MaxChanges = 1
  MaxResyncs = 1
  MaxLosses = 0
  MaxRestarts = 0
  MaxPublishFailures = 2
  MaxSubmits = 5
INVARIANTS ResyncRepairs QuietAfterShutdown
PROPERTIES ImplementsWatcher ShutdownCompletes
CHECK_DEADLOCK FALSE
