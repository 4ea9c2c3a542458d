SPECIFICATION Spec
CONSTANTS
  Controllers = {k1, k2}
  MaxCampaign = 2
  MaxCommands = 2
  MaxPolls = 0
  MaxFaults = 1
  Faults = {"kill"}
SYMMETRY ControllerSymmetry
INVARIANTS
  OneClientPair
CHECK_DEADLOCK FALSE
