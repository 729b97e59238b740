SPECIFICATION Spec
CONSTANTS
  None = None
  MaxJobs = 2
  StepsPerJob = 2
  MaxPolls = 1
  MaxFaults = 2
  Faults = {"write_error"}
  ExitIsPrompt = TRUE
INVARIANTS InFlightMeansClaimed
CHECK_DEADLOCK FALSE
