SPECIFICATION Spec
CONSTANTS
  Mode = {"idempotent", "repeat"}
INVARIANTS EffectsOnce SavedIsWhole HonestIsSettled DisputeIsSeen
CHECK_DEADLOCK FALSE
