CONSTANTS
  Orders = {o1}
  None = None
  MaxRetries = 1
  StaleLimits = {0, 1}
  GuardLimit = 1
  MaxFills = 1
  MaxStream = 2
SPECIFICATION Spec
INVARIANTS
  HaltWithdraws
CHECK_DEADLOCK FALSE
