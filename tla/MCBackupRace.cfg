SPECIFICATION Spec
CONSTANTS
  Controllers = {k1, k2}
  MaxCampaign = 2
  MaxCommands = 3
  MaxPolls = 0
  MaxFaults = 1
  Faults = {}
SYMMETRY ControllerSymmetry
INVARIANTS
  BackupQuiescent
CHECK_DEADLOCK FALSE
