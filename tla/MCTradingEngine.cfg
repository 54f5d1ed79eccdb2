\* Two starts: the shortest life in which a loop of the first run can meet the
\* channels of the second. One order and one quote per tick: what Stop has to catch
\* is an order sent after it has listed them. One goroutine calls Stop.
CONSTANTS
  Orders = {o1}
  NoOrder = NoOrder
  Stoppers = {s1}
  MaxStarts = 2
  MaxQuotes = 1
  RiskModes = {TRUE, FALSE}
SPECIFICATION FairSpec
INVARIANTS
  TypeOK
  StoppedMeansFlat
  OneLoop
  PanicsOnlyWithMonitor
PROPERTIES
  StopEndsLoop
CHECK_DEADLOCK FALSE
