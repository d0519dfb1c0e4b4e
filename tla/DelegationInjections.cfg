CONSTANTS
  A = A
  B = B
  C = C
  Controller = controller
  NoTarget = NoTarget
  Target = {A, B, C}
  Order <- ABC
  Captures <- HonestCaptures
  Faults = {}
  MaxRows = 2
SPECIFICATION Spec
INVARIANTS TypeOK VerdictIsExact
PROPERTY PauseOnceSpec
