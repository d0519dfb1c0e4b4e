CONSTANTS
  w1 = w1
  w2 = w2
  w3 = w3
  p1 = p1
  p2 = p2
  p3 = p3
  r1 = r1
  r2 = r2
  c1 = c1
  AnyChain = AnyChain
  Standing <- MCStanding
  Independent <- MCIndependent
  Writer <- MCWriter
  Session <- MCSession
  ChainId <- MCChainId
  RecordId <- MCRecordId
  Path <- MCPath
  Body <- MCBody
  MaxSeq = 2
SYMMETRY Alike
SPECIFICATION Spec
INVARIANTS TypeOK OneOwner AncestorsAdmissible FailureMeansFork
PROPERTIES WrittenOnce OneShotTree
