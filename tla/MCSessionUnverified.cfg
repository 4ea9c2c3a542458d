SPECIFICATION Spec
CONSTANTS
  Controllers = {k1, k2}
  MaxCampaign = 1
  MaxCommands = 3
  MaxPolls = 1
  MaxFaults = 1
  Faults = {"identity", "interrupt", "unverified"}
SYMMETRY ControllerSymmetry
INVARIANTS
  StoppedRolesGone
CHECK_DEADLOCK FALSE
