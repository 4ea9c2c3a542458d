SPECIFICATION ProgressSpec
CONSTANT Targets = {mfc, rust}
PROPERTIES
  SupervisorEnds
  ActionSettles
  UnhealthyEndsWatch
  ChildAnswers
CHECK_DEADLOCK FALSE
