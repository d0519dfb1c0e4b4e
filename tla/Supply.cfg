CONSTANTS
  issuer = issuer
  receiver = receiver
  monitor = monitor
  rogue = rogue
  AnyChain = AnyChain
  Standing <- MCStanding
  Independent <- MCIndependent
  Pools <- AllPools
SPECIFICATION Spec
INVARIANTS NothingUnauthorised IndependenceProven LinksOrderChain
PROPERTIES FailuresStand
CHECK_DEADLOCK FALSE
