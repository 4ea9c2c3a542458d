SPECIFICATION FairSpec
CONSTANTS
  Controllers = {k1, k2}
  MaxCampaign = 1
  MaxCommands = 2
  MaxPolls = 0
  MaxFaults = 1
  Faults = {"rootLost"}
PROPERTIES
  EveryCommandEnds
  WatchFailureStopsLauncher
CHECK_DEADLOCK FALSE
