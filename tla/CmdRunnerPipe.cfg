CONSTANTS
  PipeCap = 1
  Commands <- Loud
SPECIFICATION Spec
PROPERTIES RunwaitReturns
CHECK_DEADLOCK FALSE
