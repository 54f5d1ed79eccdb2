\* Two calls, two attempts each. Timeout is longer than RecvWindow, as the 10 s of the
\* client and the 5 s of the time stamp are: a retry after a timeout comes too late, one
\* after a broken connection in time. MaxTime lets the last call return.
CONSTANTS
  Calls = {k1, k2}
  Policies = {"client", "middleware"}
  Period = 1
  Burst = 1
  RecvWindow = 1
  Timeout = 2
  MaxAttempts = 2
  RetryDelay = 1
  MaxBackoff = 2
  LastBegin = 2
  MaxTime = 14
SYMMETRY Symmetry
SPECIFICATION Spec
INVARIANTS
  OneOrderUnlessLost
  CancelAllClears
  CallIsBounded
PROPERTIES
  NoOrderAfterWindow
CHECK_DEADLOCK FALSE
