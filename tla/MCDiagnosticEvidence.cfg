SPECIFICATION Spec
CONSTANTS
  MaxSegment = 4
  Retained = 2
  Kinds = {0, 250, 400}
INVARIANTS
  TypeOK
  PinsRecoverable
  SwapsUnambiguous
  RecoveryRestoresManifest
  PinBudget
  SelectionSound
  IndexSound
PROPERTIES
  RoundsMonotone
