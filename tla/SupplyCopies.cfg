CONSTANTS
  issuer = issuer
  receiver = receiver
  monitor = monitor
  rogue = rogue
  AnyChain = AnyChain
  Standing <- MCStanding
  Independent <- MCIndependent
  Pools <- Contradictory
SPECIFICATION Spec
INVARIANTS ConflictsReported
CHECK_DEADLOCK FALSE
