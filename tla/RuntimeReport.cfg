CONSTANTS
  Scenario <- Scenarios
  BusinessSteps = 4
SPECIFICATION Spec
INVARIANTS ExperimentShowsItsPoint WorkerReaped
PROPERTIES StopHolds RunEnds
CHECK_DEADLOCK FALSE
