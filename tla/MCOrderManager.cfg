\* One order, and one goroutine of each kind that may write its status: Submit,
\* Cancel, the user stream, Reconcile and ReconcileBySymbol. Statuses of different
\* orders do not depend on each other. Two updates in flight, so that one is late.
CONSTANTS
  Orders = {o1}
  Cancellers = {c1}
  Sweepers = {s1}
  Listers = {l1}
  NoOrder = NoOrder
  MaxUpdates = 2
SPECIFICATION FairSpec
INVARIANTS
  ClosedAsTheExchangeDid
  ConfirmedOrdersStayInSight
PROPERTIES
  ImplementsLifecycle
  FinishedOrdersAreClosed
CHECK_DEADLOCK FALSE
