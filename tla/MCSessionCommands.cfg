SPECIFICATION Spec
CONSTANTS
  Controllers = {k1, k2}
  MaxCampaign = 2
  MaxCommands = 3
  MaxPolls = 0
  MaxFaults = 1
  Faults = {}
SYMMETRY ControllerSymmetry
INVARIANTS
  TypeOK
  StopsOwnCampaign
  GateVerdictSound
  SealedAfterClients
PROPERTIES
  ReplacesDeadSession
CHECK_DEADLOCK FALSE
