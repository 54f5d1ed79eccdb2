CONSTANTS
  MaxInv = 2
  MaxLayer = 1
  Layers = 2
  MaxFailures = 1
  MaxUnreported = 1
SPECIFICATION Spec
INVARIANTS
  PositionBounded
