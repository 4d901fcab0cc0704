CONSTANTS
  PipeCap = 1
  Commands <- Ordinary
SPECIFICATION Spec
INVARIANTS TypeOK RetcodeIsExitStatus OutputComplete
PROPERTIES Completes KillEndsRunner
CHECK_DEADLOCK FALSE
