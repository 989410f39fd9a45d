SPECIFICATION FairSpec
CONSTANTS
  Instances = {i1, i2}
  MaxSubmits = 4
INVARIANTS TypeOK QuietAfterStop TrackedIsNewest LastEventKept
PROPERTIES EventuallyPublished StopTerminates
CHECK_DEADLOCK FALSE
