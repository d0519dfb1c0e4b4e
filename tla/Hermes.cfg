CONSTANTS
  k1 = k1
  k2 = k2
  Commands <- MCCommands
  Revisions = {1, 2}
SYMMETRY Alike
SPECIFICATION Spec
INVARIANT FixturesTellFacts
PROPERTY VerdictTellsDisk
