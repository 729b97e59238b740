SPECIFICATION Spec
CONSTANTS
  None = None
  MaxJobs = 2
  StepsPerJob = 2
  MaxPolls = 1
  MaxFaults = 2
  Faults = {"restart", "stop", "kill", "write_error"}
  ExitIsPrompt = TRUE
INVARIANTS TypeOK RunsItsOwnBundle NoLineSkipped
PROPERTIES JobLifecycleSpec   RunEnds
CHECK_DEADLOCK FALSE
