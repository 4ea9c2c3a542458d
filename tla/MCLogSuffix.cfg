SPECIFICATION Spec
CONSTANTS
  MaxRetained = 3
  Limits = {2}
  Retentions = {3}
  MaxWrite = 5
  MaxBytes = 16
  ShortWrites = FALSE
PROPERTIES
  ImplementsSuffixLog
