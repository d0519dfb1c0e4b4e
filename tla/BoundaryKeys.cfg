SPECIFICATION Spec
CONSTANT Scenario = {"both_paused", "one_unknown", "inflight", "timeout"}
INVARIANT KeysRemoved
CHECK_DEADLOCK FALSE
