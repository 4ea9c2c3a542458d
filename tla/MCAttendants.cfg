SPECIFICATION AttendantsSpec
CONSTANTS
  MaxBytes = 4
  PipeCapacity = 2
  Inherits = TRUE
  Unstoppable = TRUE
  Target = 1
  Timeout = 2
  Interval = 1
  CheckpointThreshold = 2
  RetainedReports = 1
  RetainedCheckpoints = 2
  MaxActions = 2
  MaxSkips = 1
  MaxKills = 1
  WatchThreshold = 3
  MaxStarts = 2
  Old = {}
  Previous = {1}
  MaxArtifacts = 3
  MaxTotal = 1
  DiskSize = 4
  MinimumFree = 1
  Foreign = 1
  Retained = 1
  Writers = {launcher, observer}
  Watcher = watcher
CONSTRAINT Bounded
SYMMETRY WriterSymmetry
INVARIANTS
  FailClosed
  LineAfterOutput
  ObserverSound
  StreaksSound
  StoreSound
CHECK_DEADLOCK FALSE
