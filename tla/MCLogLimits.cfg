SPECIFICATION Spec
CONSTANTS
  MaxRetained = 3
  Limits = {2, 3}
  Retentions = {1, 2, 3}
  MaxWrite = 5
  MaxBytes = 14
  ShortWrites = FALSE
INVARIANTS
  AgeOrder
  BoundsKept
