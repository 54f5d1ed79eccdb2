\* Two levels, so that a multi-level tick has a leg that is not post-only; a limit
\* of one, so that every fill matters; one fill unseen and one order lost.
CONSTANTS
  Levels = 2
  Threshold = 1
  Prices = {1}
  Shock = 1
  Modes = {"single", "multi"}
  StopLosses = {TRUE}
  Rejecting = {"BUY"}
  MaxLag = 1
  MaxMishaps = 1
SPECIFICATION Spec
INVARIANTS
  TypeOK
  NoneForgotten
  ModesExclude
  PositionBounded
CHECK_DEADLOCK FALSE
