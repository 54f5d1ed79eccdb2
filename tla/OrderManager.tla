---------------------------- MODULE OrderManager ----------------------------
(***************************************************************************)
(* order.Manager with its StateMachine, and order.Reconciler, against an   *)
(* exchange reached over an unreliable network.                            *)
(*                                                                         *)
(* Manager holds its mutex only while it touches the map of orders, never  *)
(* across a gateway call.  Submit, Cancel and a reconciliation are         *)
(* therefore cut at every gateway call: between two steps of one of them,  *)
(* any other goroutine, the exchange and the user stream may move.         *)
(***************************************************************************)
EXTENDS Naturals, Sequences, FiniteSets

CONSTANTS
  Orders,       \* client order ids: Submit registers each of them once
  Cancellers,   \* goroutines that may be inside Manager.Cancel
  Sweepers,     \* goroutines that run Reconcile: reconcileLoop, or the engine's loop
  Listers,      \* goroutines that call ReconcileBySymbol
  NoOrder,      \* "this goroutine works on no order"
  MaxUpdates    \* bound: user-stream updates of one order in flight

ASSUME NoOrderAssumption == NoOrder \notin Orders
ASSUME ReconcilersAssumption == Sweepers \cap Listers = {}
ASSUME MaxUpdatesAssumption == MaxUpdates \in Nat \ {0}

VARIABLES
  status,       \* Manager.orders: the local Status of each order
  submit,       \* where the goroutine in Submit is
  cancelling,   \* the order each canceller waits for, in gw.Cancel
  sweep,        \* the reconciliation each sweeper or lister is in
  exchange,     \* the order at the exchange
  network,      \* requests sent and not yet processed by the exchange
  stream        \* user-stream updates sent and not yet delivered, per order

vars == <<status, submit, cancelling, sweep, exchange, network, stream>>

-----------------------------------------------------------------------------
(* order/state_machine.go *)

FinalStates == {"FILLED", "CANCELED", "REJECTED", "EXPIRED"}
ActiveStates == {"PENDING", "NEW", "ACK", "PARTIAL", "CANCELING"}
Status == ActiveStates \union FinalStates

Transitions ==
  ({"PENDING"} \X {"NEW", "REJECTED"})
  \union ({"NEW"} \X {"ACK", "PARTIAL", "FILLED", "CANCELING", "CANCELED",
                      "REJECTED", "EXPIRED"})
  \union ({"ACK"} \X {"PARTIAL", "FILLED", "CANCELING", "CANCELED", "EXPIRED"})
  \union ({"PARTIAL"} \X {"PARTIAL", "FILLED", "CANCELING", "CANCELED", "EXPIRED"})
  \union ({"CANCELING"} \X {"CANCELED", "FILLED", "PARTIAL"})

\* ValidateTransition: the same status is always accepted.
ValidTransition(from, to) == from = to \/ <<from, to>> \in Transitions

-----------------------------------------------------------------------------
(* order/manager.go *)

Known(o)  == status[o] # "none"
Active(o) == Known(o) /\ status[o] \notin FinalStates

\* Fault: updateStatus does not consult the state machine.
UpdateAccepted_Unchecked(o, st) == Known(o)

\* updateStatus: an unknown order or an illegal transition changes nothing.
UpdateAccepted(o, st) == Known(o) /\ ValidTransition(status[o], st)

UpdateStatus(o, st) ==
  status' = IF UpdateAccepted(o, st) THEN [status EXCEPT ![o] = st] ELSE status

\* Submit up to gw.Place: the order is registered, then the request leaves.
SubmitRegister(o) ==
  /\ submit[o] = "idle"
  /\ status' = [status EXCEPT ![o] = "NEW"]
  /\ submit' = [submit EXCEPT ![o] = "placing"]
  /\ network' = network \union {<<"place", o>>}
  /\ UNCHANGED <<cancelling, sweep, exchange, stream>>

\* gw.Place returned an id: the exchange took the order, whatever became of it.
SubmitAck(o) ==
  /\ submit[o] = "placing"
  /\ exchange[o] \notin {"none", "refused"}
  /\ UpdateStatus(o, "ACK")
  /\ submit' = [submit EXCEPT ![o] = "placed"]
  /\ UNCHANGED <<cancelling, sweep, exchange, network, stream>>

\* gw.Place returned an error: refused, timed out, or the reply was lost. The
\* request may still be on its way.
SubmitReject(o) ==
  /\ submit[o] = "placing"
  /\ UpdateStatus(o, "REJECTED")
  /\ submit' = [submit EXCEPT ![o] = "failed"]
  /\ UNCHANGED <<cancelling, sweep, exchange, network, stream>>

\* Fault: the order is marked before the exchange has answered.
CancelSend_MarksFirst(c, o) ==
  /\ cancelling[c] = NoOrder
  /\ Known(o)
  /\ UpdateStatus(o, "CANCELED")
  /\ cancelling' = [cancelling EXCEPT ![c] = o]
  /\ network' = network \union {<<"cancel", o>>}
  /\ UNCHANGED <<submit, sweep, exchange, stream>>

\* Cancel up to gw.Cancel: any order in the map, final ones included.
CancelSend(c, o) ==
  /\ cancelling[c] = NoOrder
  /\ Known(o)
  /\ cancelling' = [cancelling EXCEPT ![c] = o]
  /\ network' = network \union {<<"cancel", o>>}
  /\ UNCHANGED <<status, submit, sweep, exchange, stream>>

\* gw.Cancel succeeded: the exchange has canceled the order.
CancelOk(c) ==
  /\ cancelling[c] # NoOrder
  /\ exchange[cancelling[c]] = "CANCELED"
  /\ UpdateStatus(cancelling[c], "CANCELED")
  /\ cancelling' = [cancelling EXCEPT ![c] = NoOrder]
  /\ UNCHANGED <<submit, sweep, exchange, network, stream>>

\* Fault: the error of gw.Cancel is ignored.
CancelError_Ignored(c) ==
  /\ cancelling[c] # NoOrder
  /\ UpdateStatus(cancelling[c], "CANCELED")
  /\ cancelling' = [cancelling EXCEPT ![c] = NoOrder]
  /\ UNCHANGED <<submit, sweep, exchange, network, stream>>

\* gw.Cancel failed: the local status stays as it is.
CancelError(c) ==
  /\ cancelling[c] # NoOrder
  /\ cancelling' = [cancelling EXCEPT ![c] = NoOrder]
  /\ UNCHANGED <<status, submit, sweep, exchange, network, stream>>

\* The user-stream handler calls Manager.Update for the oldest update; an
\* error is dropped.
StreamUpdate(o) ==
  /\ stream[o] # <<>>
  /\ UpdateStatus(o, Head(stream[o]))
  /\ stream' = [stream EXCEPT ![o] = Tail(stream[o])]
  /\ UNCHANGED <<submit, cancelling, sweep, exchange, network>>

-----------------------------------------------------------------------------
(* order/reconciler.go *)

Idle == [pc |-> "idle", todo |-> {}, order |-> NoOrder, seen |-> "none",
         listed |-> [o \in Orders |-> "none"]]

\* Fault: partially filled orders are not reconciled.
ActiveOrders_AckOnly == {o \in Orders : status[o] \in {"NEW", "ACK"}}

ActiveOrders == {o \in Orders : Active(o)}

Live(o) == exchange[o] \in {"ACK", "PARTIAL"}

\* Reconcile, as far as the snapshot of the active orders.
ReconcileStart(s) ==
  /\ sweep[s].pc = "idle"
  /\ ActiveOrders # {}
  /\ sweep' = [sweep EXCEPT ![s] = [Idle EXCEPT !.pc = "scan", !.todo = ActiveOrders]]
  /\ UNCHANGED <<status, submit, cancelling, exchange, network, stream>>

\* reconcileOrder: GetOrder answers with the order as the exchange has it now.
FetchOk(s, o) ==
  /\ sweep[s].pc = "scan"
  /\ o \in sweep[s].todo
  /\ exchange[o] \notin {"none", "refused"}
  /\ sweep' = [sweep EXCEPT ![s].pc = "fetched", ![s].todo = @ \ {o},
                            ![s].order = o, ![s].seen = exchange[o]]
  /\ UNCHANGED <<status, submit, cancelling, exchange, network, stream>>

\* reconcileOrder: GetOrder fails or knows no such order; the loop goes on.
FetchError(s, o) ==
  /\ sweep[s].pc = "scan"
  /\ o \in sweep[s].todo
  /\ sweep' = [sweep EXCEPT ![s].todo = @ \ {o}]
  /\ UNCHANGED <<status, submit, cancelling, exchange, network, stream>>

ReconcileEnd(s) ==
  /\ sweep[s].pc = "scan"
  /\ sweep[s].todo = {}
  /\ sweep' = [sweep EXCEPT ![s] = Idle]
  /\ UNCHANGED <<status, submit, cancelling, exchange, network, stream>>

\* ReconcileBySymbol: the exchange's open orders are listed first ...
ListOpenOrders(s) ==
  /\ sweep[s].pc = "idle"
  /\ sweep' = [sweep EXCEPT ![s] = [Idle EXCEPT !.pc = "listed",
                 !.listed = [o \in Orders |-> IF Live(o) THEN exchange[o] ELSE "none"]]]
  /\ UNCHANGED <<status, submit, cancelling, exchange, network, stream>>

\* ... then the local ones; an order only one side has is skipped.
MatchLocalOrders(s) ==
  /\ sweep[s].pc = "listed"
  /\ LET matched == {o \in ActiveOrders : sweep[s].listed[o] # "none"} IN
     sweep' = [sweep EXCEPT ![s].pc = "scan", ![s].todo = matched,
                 ![s].listed = [o \in Orders |-> IF o \in matched THEN @[o] ELSE "none"]]
  /\ UNCHANGED <<status, submit, cancelling, exchange, network, stream>>

MatchNext(s, o) ==
  /\ sweep[s].pc = "scan"
  /\ o \in sweep[s].todo
  /\ sweep' = [sweep EXCEPT ![s] =
       [sweep[s] EXCEPT !.pc = "fetched", !.todo = sweep[s].todo \ {o}, !.order = o,
                        !.seen = sweep[s].listed[o],
                        !.listed = [sweep[s].listed EXCEPT ![o] = "none"]]]
  /\ UNCHANGED <<status, submit, cancelling, exchange, network, stream>>

\* The loop goes on with the next order.
Onward(s) == [sweep[s] EXCEPT !.pc = "scan", !.order = NoOrder, !.seen = "none"]

\* resolveConflict: the comparison, of a pointer into the map read unlocked.
Compare(s) ==
  /\ sweep[s].pc = "fetched"
  /\ sweep' = [sweep EXCEPT ![s] =
       IF status[@.order] = @.seen THEN Onward(s) ELSE [@ EXCEPT !.pc = "conflict"]]
  /\ UNCHANGED <<status, submit, cancelling, exchange, network, stream>>

\* resolveConflict: the exchange's status is written, if it may follow the
\* local one. Reconcile goes on after an error, ReconcileBySymbol returns it.
Resolve(s) ==
  /\ sweep[s].pc = "conflict"
  /\ UpdateStatus(sweep[s].order, sweep[s].seen)
  /\ sweep' = [sweep EXCEPT ![s] =
       IF s \in Listers /\ ~UpdateAccepted(@.order, @.seen) THEN Idle ELSE Onward(s)]
  /\ UNCHANGED <<submit, cancelling, exchange, network, stream>>

-----------------------------------------------------------------------------
(* The exchange and the network (external): requests arrive late and in any *)
(* order, the exchange's decisions are final, updates are streamed in the    *)
(* order they happen and are lost when the connection drops.                 *)

PlaceArrives(o) ==
  /\ <<"place", o>> \in network
  /\ network' = network \ {<<"place", o>>}
  /\ \E outcome \in {"ACK", "refused"} : exchange' = [exchange EXCEPT ![o] = outcome]
  /\ UNCHANGED <<status, submit, cancelling, sweep, stream>>

\* The exchange moves a live order to st and reports it on the user stream.
ExchangeMoves(o, st) ==
  /\ Live(o)
  /\ Len(stream[o]) < MaxUpdates
  /\ exchange' = [exchange EXCEPT ![o] = st]
  /\ stream' = [stream EXCEPT ![o] = Append(@, st)]

ExchangeEvent(o) ==
  /\ \E st \in {"PARTIAL", "FILLED", "EXPIRED"} : ExchangeMoves(o, st)
  /\ UNCHANGED <<status, submit, cancelling, sweep, network>>

CancelArrives(o) ==
  /\ <<"cancel", o>> \in network
  /\ network' = network \ {<<"cancel", o>>}
  /\ \/ ExchangeMoves(o, "CANCELED")
     \/ ~Live(o) /\ UNCHANGED <<exchange, stream>>
  /\ UNCHANGED <<status, submit, cancelling, sweep>>

StreamLost ==
  /\ \E o \in Orders : stream[o] # <<>>
  /\ stream' = [o \in Orders |-> <<>>]
  /\ UNCHANGED <<status, submit, cancelling, sweep, exchange, network>>

-----------------------------------------------------------------------------

Init ==
  /\ status = [o \in Orders |-> "none"]
  /\ submit = [o \in Orders |-> "idle"]
  /\ cancelling = [c \in Cancellers |-> NoOrder]
  /\ sweep = [s \in Sweepers \union Listers |-> Idle]
  /\ exchange = [o \in Orders |-> "none"]
  /\ network = {}
  /\ stream = [o \in Orders |-> <<>>]

ManagerNext ==
  \/ \E o \in Orders : SubmitRegister(o) \/ SubmitAck(o) \/ SubmitReject(o) \/ StreamUpdate(o)
  \/ \E c \in Cancellers : CancelOk(c) \/ CancelError(c) \/ \E o \in Orders : CancelSend(c, o)

ReconcilerNext ==
  \/ \E s \in Sweepers :
       ReconcileStart(s) \/ \E o \in Orders : FetchOk(s, o) \/ FetchError(s, o)
  \/ \E s \in Listers :
       ListOpenOrders(s) \/ MatchLocalOrders(s) \/ \E o \in Orders : MatchNext(s, o)
  \/ \E s \in Sweepers \union Listers : ReconcileEnd(s) \/ Compare(s) \/ Resolve(s)

ExchangeNext ==
  \/ \E o \in Orders : PlaceArrives(o) \/ ExchangeEvent(o) \/ CancelArrives(o)
  \/ StreamLost

Next == ManagerNext \/ ReconcilerNext \/ ExchangeNext

Spec == Init /\ [][Next]_vars

\* Goroutines that are inside a call run on, the reconcile ticker keeps firing,
\* and a gateway that is asked again and again answers some time. Nothing is
\* assumed of the exchange, of the user stream or of callers of Submit and Cancel.
Fairness ==
  /\ \A s \in Sweepers :
       /\ WF_vars(ReconcileStart(s)) /\ WF_vars(ReconcileEnd(s))
       /\ WF_vars(Compare(s)) /\ WF_vars(Resolve(s))
       /\ \A o \in Orders : SF_vars(FetchOk(s, o)) /\ WF_vars(FetchOk(s, o) \/ FetchError(s, o))
  /\ \A o \in Orders : WF_vars(SubmitAck(o) \/ SubmitReject(o))

FairSpec == Spec /\ Fairness

-----------------------------------------------------------------------------
(* Properties *)

Outcomes == {"none", "refused", "ACK", "PARTIAL", "FILLED", "CANCELED", "EXPIRED"}

SweepRecord ==
  [pc : {"idle", "listed", "scan", "fetched", "conflict"},
   todo : SUBSET Orders, order : Orders \union {NoOrder}, seen : Outcomes,
   listed : [Orders -> Outcomes]]

TypeOK ==
  /\ status \in [Orders -> {"none"} \union Status]
  /\ submit \in [Orders -> {"idle", "placing", "placed", "failed"}]
  /\ cancelling \in [Cancellers -> Orders \union {NoOrder}]
  /\ sweep \in [Sweepers \union Listers -> SweepRecord]
  /\ exchange \in [Orders -> Outcomes]
  /\ network \subseteq {"place", "cancel"} \X Orders
  /\ stream \in [Orders -> Seq({"PARTIAL", "FILLED", "CANCELED", "EXPIRED"})]

\* The book never closes an order with an end the exchange has not given it,
\* whichever of Submit, Cancel, the user stream and a stale reconciliation wrote
\* last (manager.go updateStatus, called from all four).
ClosedAsTheExchangeDid ==
  \A o \in Orders : status[o] \in FinalStates \ {"REJECTED"} => exchange[o] = status[o]

\* An order that lives at the exchange is missing from GetActiveOrders only if
\* gw.Place had returned an error for it (manager.go Submit): neither a failed or
\* late cancel nor a reconciliation loses sight of a confirmed order.
ConfirmedOrdersStayInSight ==
  \A o \in Orders : submit[o] = "placed" /\ Live(o) => Active(o)

\* "The order layer ... maintains the set of active resting orders"
\* (docs/ARCHITECTURE.md:9): once Submit has returned, an order that lives at the
\* exchange is in GetActiveOrders.
LiveOrdersAreActive ==
  \A o \in Orders : submit[o] \in {"placed", "failed"} /\ Live(o) => Active(o)

\* How far an order has come in its life.
Rank(st) ==
  CASE st = "none" -> 0
    [] st = "PENDING" -> 1
    [] st = "NEW" -> 2
    [] st = "ACK" -> 3
    [] st \in {"PARTIAL", "CANCELING"} -> 4
    [] OTHER -> 5

\* No late acknowledgement, stale reconciliation or reordered update takes an
\* order back, and a final status is never exchanged for another one
\* (state_machine.go ValidateTransition against every interleaving of writers).
OrdersNeverGoBack ==
  [][\A o \in Orders : status'[o] # status[o] => Rank(status'[o]) > Rank(status[o])]_status

\* Once the exchange has finished an order the reconciler takes it out of the
\* active set, even if every user-stream update of it was lost
\* (reconciler.go Reconcile, run for ever by reconcileLoop).
FinishedOrdersAreClosed ==
  \A o \in Orders : (exchange[o] \in FinalStates) ~> (status[o] \in FinalStates)

\* What the order layer promises: OrderLifecycle, with the replies, the messages
\* and the goroutines hidden.
FateOf(st) ==
  CASE st \in {"none", "refused"} -> "none"
    [] st \in {"ACK", "PARTIAL"} -> "open"
    [] st = "FILLED" -> "filled"
    [] st = "CANCELED" -> "canceled"
    [] OTHER -> "expired"

ViewOf(st) ==
  CASE st = "none" -> "none"
    [] st \in {"PENDING", "NEW"} -> "unconfirmed"
    [] st \in {"ACK", "PARTIAL", "CANCELING"} -> "confirmed"
    [] st = "REJECTED" -> "rejected"
    [] OTHER -> FateOf(st)

Lifecycle == INSTANCE OrderLifecycle
  WITH fate <- [o \in Orders |-> FateOf(exchange[o])],
       view <- [o \in Orders |-> ViewOf(status[o])]

\* Manager and Reconciler implement OrderLifecycle.
ImplementsLifecycle == Lifecycle!Spec
=============================================================================
