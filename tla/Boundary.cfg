SPECIFICATION Spec
CONSTANT Scenario = {"both_paused", "one_unknown", "inflight", "timeout"}
INVARIANTS CaptureShowsItsPoint AllMeansAll CleanUnlessPipeBroke
CHECK_DEADLOCK FALSE
