CONSTANTS
  CYCLE_TARGET = 2
  ITPOR_LOSS_CAP = 3
  MaxRuns = 2
  MaxMishaps = 3
SPECIFICATION Spec
INVARIANTS
  LearningTypeOK
  CyclesEarned
  VerdictStored
PROPERTIES
  RunConcludes
CHECK_DEADLOCK FALSE
