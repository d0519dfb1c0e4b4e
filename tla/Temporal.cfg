CONSTANTS
  Modes <- MCModes
  Authored <- MCAuthored
  MaxDeliveries = 3
SPECIFICATION Spec
INVARIANTS WindowsTellTruth RevisionsSurviveCutoff
PROPERTIES LateIsInert FlipsAreRevisions
CHECK_DEADLOCK FALSE
