SPECIFICATION Spec
CONSTANTS
  InitialBackoff = 1
  MaxBackoff = 3
  MaxFailures = 2
  MaxRequests = 1
  MaxKubeChanges = 1
  MaxStuck = 1
INVARIANTS WatchersStopped
CHECK_DEADLOCK FALSE
