SPECIFICATION Spec
CONSTANTS
  Sessions = {"s1", "s2"}
  Threads = {"t1", "t2"}
  MaxChanges = 1
INVARIANTS SessionIsOneRun BundleTellsRun MatchMeansPaused
CHECK_DEADLOCK FALSE
