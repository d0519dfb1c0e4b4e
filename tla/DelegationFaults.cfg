CONSTANTS
  A = A
  B = B
  C = C
  Controller = controller
  NoTarget = NoTarget
  Target = {A, B}
  Order <- AB
  Captures <- OneLinkCaptures
  Faults = {"timeout", "pauseTimeout", "business", "start"}
  MaxRows = 2
SPECIFICATION FairSpec
INVARIANTS ResponsesAreReplies ParentStopsFirst CreditedTargetsAreSettled DeliveredOnce AdmittedUnlessExpired
PROPERTIES CaptureEnds PauseIsReported
